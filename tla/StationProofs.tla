--------------------------- MODULE StationProofs ----------------------------
EXTENDS MCStation, WellFoundedInduction, TLAPS

\* The boxes are ticked as the options in force are, if these do not contradict each other.
LEMMA TickedCoherent ==
  ASSUME NEW v \in [Opt!Options -> BOOLEAN], Opt!Coherent(v)
  PROVE  Opt!Ticked(v) = v
<1>1. ASSUME NEW o \in Opt!Options PROVE (v[o] /\ Opt!Allowed(o, v)) = v[o]
  <2>1. v[o] \in BOOLEAN
    OBVIOUS
  <2>2. v[o] => Opt!Allowed(o, v)
    BY DEF Opt!Coherent
  <2> QED BY <2>1, <2>2, Zenon
<1>2. Opt!Ticked(v) = [o \in Opt!Options |-> v[o]]
  BY <1>1, Zenon DEF Opt!Ticked
<1>3. v = [o \in Opt!Options |-> v[o]]
  BY Zenon
<1> QED BY <1>2, <1>3, Zenon

LEMMA OptInitial ==
  ASSUME Opt!Init PROVE Opt!OptionsInv
<1> USE MCAssumption DEF MCAssumption
<1>1. PICK set \in OptionSets : s1 = [o \in Opt!Options |-> o \in set]
  BY DEF Opt!Init
<1>2. Opt!Coherent(s1)
  BY <1>1 DEF Opt!OptionAssumption
<1>3. s3 = s1
  <2>1. s1 \in [Opt!Options -> BOOLEAN]
    BY <1>1
  <2> QED BY <1>2, <2>1, TickedCoherent DEF Opt!Init, Opt!Start
<1>4. Opt!TypeOK
  <2>1. s2 \in [Opt!Colours -> Palette] /\ s6 = s2
    BY DEF Opt!Init, Opt!Start, Opt!OptionAssumption
  <2>2. s1 \in [Opt!Options -> BOOLEAN] /\ s3 = s1 /\ s5 = s1 
    BY <1>1, <1>3 DEF Opt!Init, Opt!Start
  <2>3. s4 \in [Opt!Options -> BOOLEAN]
    BY DEF Opt!Init, Opt!Start, Opt!Allowed
  <2>4. s8 \subseteq Opt!Labels /\ s9 = FALSE
    BY DEF Opt!Init, Opt!Start, Opt!Shown
  <2>5. s10 \in 0..(MaxEdits - 1)
    BY DEF Opt!Init, Opt!OptionAssumption
  <2> QED BY <2>1, <2>2, <2>3, <2>4, <2>5 DEF Opt!TypeOK
<1>5. Opt!Tended
  <2>1. Opt!Enabled
    BY <1>3 DEF Opt!Enabled, Opt!Init, Opt!Start, Opt!Allowed
  <2>2. s7 = Opt!Dressed(s5, s6) /\ s8 = Opt!Shown(s3)
    BY <1>3 DEF Opt!Init, Opt!Start
  <2>3. s5 = s3 /\ s6 = s2
    BY <1>3 DEF Opt!Init, Opt!Start
  <2> QED BY <1>2, <1>3, <2>1, <2>2, <2>3 DEF Opt!Tended, Opt!InStep
<1>6. Opt!Decorated
  <2>1. \A o, other \in Opt!Decorations : o # other => ~(s1[o] /\ s1[other])
    BY <1>2 DEF Opt!Coherent, Opt!Allowed, Opt!Decorations, Opt!Of, Opt!W, Opt!Options, Opt!Worked
  <2>2. \A o, other \in Opt!Decorations : o # other => (s4[o] => ~s1[other])
    BY DEF Opt!Init, Opt!Start, Opt!Allowed, Opt!Decorations, Opt!Of, Opt!W, Opt!Options, Opt!Worked
  <2> QED BY <1>3, <2>1, <2>2 DEF Opt!Decorated, Opt!Init, Opt!Start
<1> QED BY <1>4, <1>5, <1>6 DEF Opt!OptionsInv, Opt!Init, Opt!Start

----------------------------------------------------------------------------
\* An option changed.
LEMMA OptionChanged ==
  ASSUME NEW f \in [Opt!Options -> BOOLEAN], NEW o, NEW b \in BOOLEAN
  PROVE  /\ [f EXCEPT ![o] = b] \in [Opt!Options -> BOOLEAN]
         /\ \A x \in Opt!Options : [f EXCEPT ![o] = b][x] = IF x = o THEN b ELSE f[x]
OBVIOUS

\* Every step keeps the types.
LEMMA OptTypes ==
  ASSUME Opt!TypeOK, Opt!Next PROVE Opt!TypeOK'
<1> USE MCAssumption DEF MCAssumption
<1>t. /\ s1 \in [Opt!Options -> BOOLEAN] /\ s3 \in [Opt!Options -> BOOLEAN]
      /\ s4 \in [Opt!Options -> BOOLEAN] /\ s5 \in [Opt!Options -> BOOLEAN]
      /\ s2 \in [Opt!Colours -> Palette] /\ s6 \in [Opt!Colours -> Palette]
      /\ s8 \subseteq Opt!Labels /\ s9 \in BOOLEAN /\ s10 \in 0..(MaxEdits - 1)
  BY DEF Opt!TypeOK
<1> DEFINE T == /\ s1' \in [Opt!Options -> BOOLEAN] /\ s3' \in [Opt!Options -> BOOLEAN]
                /\ s4' \in [Opt!Options -> BOOLEAN] /\ s5' \in [Opt!Options -> BOOLEAN]
                /\ s2' \in [Opt!Colours -> Palette] /\ s6' \in [Opt!Colours -> Palette]
                /\ s8' \subseteq Opt!Labels /\ s9' \in BOOLEAN /\ s10' \in 0..(MaxEdits - 1)
<1> SUFFICES T
  BY DEF Opt!TypeOK
<1>m. MaxEdits - 1 \in Nat
  BY DEF Opt!OptionAssumption
<1>s. \A v : Opt!Shown(v) \subseteq Opt!Labels
  BY DEF Opt!Shown
<1>k. \A v : Opt!Ticked(v) \in [Opt!Options -> BOOLEAN]
  BY DEF Opt!Ticked
<1>a. \A o, changed : changed \in [Opt!Options -> BOOLEAN] => Opt!Tick(o, changed) \in [Opt!Options -> BOOLEAN]
  BY <1>t DEF Opt!Tick
<1>c. ASSUME NEW o, Opt!Click(o)
      PROVE  /\ s5' \in [Opt!Options -> BOOLEAN] /\ s10' \in 0..(MaxEdits - 1)
             /\ s1' = s1 /\ s2' = s2 /\ s6' = s6 /\ s9' = s9
  <2>1. s5' = [s5 EXCEPT ![o] = ~s3[o]] /\ (~s3[o]) \in BOOLEAN
    BY <1>c DEF Opt!Click
  <2>2. s5' \in [Opt!Options -> BOOLEAN]
    BY <2>1, <1>t, OptionChanged
  <2> QED BY <1>c, <2>2, <1>t, <1>m DEF Opt!Click, Opt!inForce
<1>1. CASE Opt!exec \/ Opt!reject
  BY <1>1, <1>t, <1>s, <1>k DEF Opt!exec, Opt!reject, Opt!initialize_models, Opt!inForce
<1>2. CASE Opt!accept
  BY <1>2, <1>t DEF Opt!accept, Opt!formVars
<1>3. CASE Opt!restart
  BY <1>3, <1>t, <1>s, <1>k DEF Opt!restart, Opt!inForce, Opt!Allowed
<1>4. CASE Opt!country_clicked
  <2> DEFINE o == Opt!Country
             b == [x \in Opt!Options |-> IF x \in Opt!Children(o) THEN ~s3[o] /\ s1[x] ELSE s3[x]]
             e == [x \in Opt!Options |-> IF x \in Opt!Children(o) THEN ~s3[o] ELSE s4[x]]
  <2>1. b \in [Opt!Options -> BOOLEAN] /\ e \in [Opt!Options -> BOOLEAN]
    BY <1>t
  <2>2. s3' = Opt!Tick(o, b) /\ s4' = e /\ Opt!Click(o) /\ s8' = s8
    BY <1>4 DEF Opt!country_clicked
  <2> HIDE DEF b, e
  <2> QED BY <2>1, <2>2, <1>t, <1>c, <1>a
<1>5. CASE Opt!txtColor_clicked
  BY <1>5, <1>t, <1>c, <1>a DEF Opt!txtColor_clicked
<1>6. CASE Opt!newPotential_clicked
  BY <1>6, <1>t, <1>c, <1>a DEF Opt!newPotential_clicked, Opt!Reshown
<1>7. ASSUME NEW o \in Opt!Options, NEW other, Opt!decoration_clicked(o, other) PROVE T
  <2>1. [s3 EXCEPT ![other] = s3[o] /\ s1[other]] \in [Opt!Options -> BOOLEAN]
    BY <1>t, OptionChanged
  <2>2. [s4 EXCEPT ![other] = s3[o]] \in [Opt!Options -> BOOLEAN]
    BY <1>t, OptionChanged
  <2> QED BY <1>7, <2>1, <2>2, <1>t, <1>c, <1>a DEF Opt!decoration_clicked
<1>8. ASSUME NEW k, Opt!new_clicked(k) PROVE T
  <2> DEFINE o == Opt!New(k)
             v == ~s3[o]
             n == [x \in Opt!Options |->
                     IF x = o THEN v ELSE IF x \in {Opt!Band(k), Opt!BandMode(k)} THEN v /\ s1[x] ELSE s5[x]]
             b == [x \in Opt!Options |->
                     IF x \in Opt!Children(o) THEN v /\ s1[x]
                     ELSE IF x \in Opt!Worked THEN n[x] /\ Opt!Allowed(x, n) ELSE s3[x]]
             e == [x \in Opt!Options |->
                     IF x \in Opt!Children(o) THEN v
                     ELSE IF x \in Opt!Worked THEN Opt!Allowed(x, n) ELSE s4[x]]
  <2>1. n \in [Opt!Options -> BOOLEAN]
    BY <1>t
  <2>2. s5' = n /\ s3' = Opt!Tick(o, b) /\ s4' = e
    BY <1>8 DEF Opt!new_clicked
  <2>3. b \in [Opt!Options -> BOOLEAN] /\ e \in [Opt!Options -> BOOLEAN]
    <3> HIDE DEF n
    <3>1. \A x : Opt!Allowed(x, n) \in BOOLEAN
      BY DEF Opt!Allowed
    <3> QED BY <1>t, <2>1, <3>1
  <2>4. s10' \in 0..(MaxEdits - 1) /\ s9' = s9 /\ s8' \subseteq Opt!Labels /\ UNCHANGED <<s1, s2, s6>>
    BY <1>8, <1>t, <1>m DEF Opt!new_clicked, Opt!inForce, Opt!Reshown, Opt!About
  <2> HIDE DEF n, b, e
  <2> QED BY <2>1, <2>2, <2>3, <2>4, <1>t, <1>a
<1>9. ASSUME NEW o, Opt!band_clicked(o) \/ Opt!worked_clicked(o) \/ Opt!box_clicked(o) PROVE T
  <2>1. CASE Opt!band_clicked(o)
    <3>1. s3' \in [Opt!Options -> BOOLEAN] /\ s8' \subseteq Opt!Labels
      BY <2>1, <1>t, <1>a DEF Opt!band_clicked, Opt!Reshown, Opt!About
    <3> QED BY <2>1, <3>1, <1>t, <1>c DEF Opt!band_clicked
  <2>2. CASE Opt!worked_clicked(o)
    BY <2>2, <1>t, <1>c, <1>a DEF Opt!worked_clicked
  <2>3. CASE Opt!box_clicked(o)
    BY <2>3, <1>t, <1>c, <1>a DEF Opt!box_clicked
  <2> QED BY <1>9, <2>1, <2>2, <2>3
<1>10. ASSUME NEW o, NEW other, Opt!pair_clicked(o, other) PROVE T
  <2> DEFINE b == [s3 EXCEPT ![other] = s3[o] /\ @]
  <2>1. b \in [Opt!Options -> BOOLEAN]
    BY <1>t, OptionChanged
  <2>2. Opt!Click(o) /\ s3' = Opt!Tick(o, b) /\ s4' = s4 /\ s8' = s8
    BY <1>10 DEF Opt!pair_clicked
  <2>3. s3' \in [Opt!Options -> BOOLEAN]
    BY <2>1, <2>2, <1>a
  <2> QED BY <2>2, <2>3, <1>t, <1>c
<1>11. ASSUME NEW c, NEW p \in Palette, Opt!Recoloured(c, p) PROVE T
  <2>1. s6' = [s6 EXCEPT ![c] = p]
    BY <1>11 DEF Opt!Recoloured
  <2>2. s6' \in [Opt!Colours -> Palette]
    BY <2>1, <1>t
  <2>3. /\ s1' = s1 /\ s2' = s2 /\ s3' = s3 /\ s4' = s4 /\ s5' = s5 /\ s8' = s8 /\ s9' = s9
        /\ s10 < MaxEdits - 1 /\ s10' = s10 + 1
    BY <1>11 DEF Opt!Recoloured, Opt!inForce
  <2> QED BY <2>2, <2>3, <1>t, <1>m
<1> HIDE DEF T
<1> QED
  BY <1>1, <1>2, <1>3, <1>4, <1>5, <1>6, <1>7, <1>8, <1>9, <1>10, <1>11
  DEF Opt!Next, Opt!back_chosen, Opt!new_chosen, Opt!worked_chosen, Opt!Options, Opt!Worked, Opt!Of, Opt!W

----------------------------------------------------------------------------
\* The names of the options tell them apart by their first part.
LEMMA OptionNames ==
  /\ \A p \in Opt!Parents : p \in Opt!Options /\ p[1] \in {"new", "country"}
  /\ \A p \in Opt!Parents : \A o \in Opt!Children(p) :
       o \in Opt!Options /\ o[1] \in {"band", "bandMode", "beep", "hide"}
  /\ \A o \in Opt!Worked : o \in Opt!Options /\ o[1] = "worked"
  /\ \A o \in UNION Opt!Pairs : o \in Opt!Options /\ o[1] \in {"show", "log"}
  /\ \A k \in News : Opt!New(k) \in Opt!Parents
  /\ Opt!Decorations \subseteq Opt!Worked /\ Opt!W("Color") \in Opt!Worked \ Opt!Decorations
  /\ Opt!W("Striked") \in Opt!Decorations /\ Opt!W("Underlined") \in Opt!Decorations
  /\ \A o \in Opt!Followed :
       o \in Opt!Options /\ o[1] \in {"txtColor", "potential", "new", "band", "bandMode"}
<1>1. /\ \A p \in Opt!Parents : p \in Opt!Options /\ p[1] \in {"new", "country"}
      /\ \A k \in News : Opt!New(k) \in Opt!Parents
  <2>1. \A p \in Opt!Parents : p \in Opt!Options
    BY DEF Opt!Options
  <2>2. \A p \in Opt!Parents : p[1] \in {"new", "country"}
    <3> SUFFICES ASSUME NEW p \in Opt!Parents PROVE p[1] \in {"new", "country"}
      OBVIOUS
    <3>1. CASE p = Opt!Country
      BY <3>1 DEF Opt!Country
    <3>2. CASE p \in Opt!Of("new", News)
      <4>1. PICK k \in News : p = <<"new", k>>
        BY <3>2 DEF Opt!Of
      <4>2. <<"new", k>>[1] = "new"
        OBVIOUS
      <4> QED BY <4>1, <4>2
    <3> QED BY <3>1, <3>2 DEF Opt!Parents
  <2>3. \A k \in News : Opt!New(k) \in Opt!Parents
    BY DEF Opt!Parents, Opt!Of, Opt!New
  <2> QED BY <2>1, <2>2, <2>3
<1>2. ASSUME NEW p \in Opt!Parents, NEW o \in Opt!Children(p)
      PROVE  o \in Opt!Options /\ o[1] \in {"band", "bandMode", "beep", "hide"}
  BY <1>2 DEF Opt!Options, Opt!Children, Opt!Of, Opt!Band, Opt!BandMode
<1>3. /\ \A o \in Opt!Worked : o \in Opt!Options /\ o[1] = "worked"
      /\ Opt!Decorations \subseteq Opt!Worked
      /\ Opt!W("Striked") \in Opt!Decorations /\ Opt!W("Underlined") \in Opt!Decorations
      /\ Opt!W("Color") \in Opt!Worked \ Opt!Decorations
  BY DEF Opt!Worked, Opt!Options, Opt!Of, Opt!Decorations, Opt!W
<1>4. \A o \in UNION Opt!Pairs : o \in Opt!Options /\ o[1] \in {"show", "log"}
  <2>1. \A o \in UNION Opt!Pairs : o \in Opt!Options
    BY DEF Opt!Options
  <2> QED BY <2>1 DEF Opt!Pairs
<1>5. ASSUME NEW o \in Opt!Followed
      PROVE  o \in Opt!Options /\ o[1] \in {"txtColor", "potential", "new", "band", "bandMode"}
  <2>1. CASE o \in {Opt!Txt, Opt!Potential}
    <3>1. Opt!Txt \in Opt!Options /\ Opt!Potential \in Opt!Options
      BY DEF Opt!Options
    <3>2. Opt!Txt[1] = "txtColor" /\ Opt!Potential[1] = "potential"
      BY DEF Opt!Txt, Opt!Potential
    <3> QED BY <2>1, <3>1, <3>2
  <2>2. CASE o \in Opt!Of("new", News)
    <3>1. PICK k \in News : o = Opt!New(k)
      BY <2>2 DEF Opt!Of, Opt!New
    <3>2. Opt!New(k)[1] = "new" /\ Opt!New(k) \in Opt!Options
      BY <1>1 DEF Opt!New
    <3> QED BY <3>1, <3>2
  <2>3. CASE o \in Opt!Of("band", News) \cup Opt!Of("bandMode", News)
    <3>1. PICK k \in News : o = Opt!Band(k) \/ o = Opt!BandMode(k)
      BY <2>3 DEF Opt!Of, Opt!Band, Opt!BandMode
    <3>2. Opt!New(k) \in Opt!Parents /\ o \in Opt!Children(Opt!New(k))
      BY <1>1, <3>1 DEF Opt!Children, Opt!New, Opt!Country
    <3> QED BY <1>2, <3>1, <3>2 DEF Opt!Band, Opt!BandMode
  <2> QED BY <2>1, <2>2, <2>3 DEF Opt!Followed
<1> QED BY <1>1, <1>2, <1>3, <1>4, <1>5

LEMMA NameParts ==
  /\ \A k : /\ Opt!New(k)[1] = "new" /\ Opt!New(k)[2] = k
            /\ Opt!Band(k)[1] = "band" /\ Opt!Band(k)[2] = k
            /\ Opt!BandMode(k)[1] = "bandMode" /\ Opt!BandMode(k)[2] = k
            /\ Opt!W(k)[1] = "worked"
  /\ Opt!Txt[1] = "txtColor" /\ Opt!Potential[1] = "potential" /\ Opt!Country[1] = "country"
  /\ Opt!Txt \in Opt!Options /\ Opt!Potential \in Opt!Options
  /\ \A k \in News : {Opt!New(k), Opt!Band(k), Opt!BandMode(k)} \subseteq Opt!Followed
  /\ {Opt!Txt, Opt!Potential} \subseteq Opt!Followed
<1>1. \A k : /\ Opt!New(k)[1] = "new" /\ Opt!New(k)[2] = k
             /\ Opt!Band(k)[1] = "band" /\ Opt!Band(k)[2] = k
             /\ Opt!BandMode(k)[1] = "bandMode" /\ Opt!BandMode(k)[2] = k
             /\ Opt!W(k)[1] = "worked"
  BY DEF Opt!New, Opt!Band, Opt!BandMode, Opt!W
<1>2. Opt!Txt[1] = "txtColor" /\ Opt!Potential[1] = "potential" /\ Opt!Country[1] = "country"
  BY DEF Opt!Txt, Opt!Potential, Opt!Country
<1>3. Opt!Txt \in Opt!Options /\ Opt!Potential \in Opt!Options
  BY DEF Opt!Options
<1>4. /\ \A k \in News : {Opt!New(k), Opt!Band(k), Opt!BandMode(k)} \subseteq Opt!Followed
      /\ {Opt!Txt, Opt!Potential} \subseteq Opt!Followed
  BY DEF Opt!Followed, Opt!Of, Opt!New, Opt!Band, Opt!BandMode
<1> QED BY <1>1, <1>2, <1>3, <1>4

\* What it is that boxes do not contradict each other.
Dependent(v) == \A p \in Opt!Parents : \A o \in Opt!Children(p) : v[o] => v[p]
Marked(v) == \A o \in Opt!Worked : v[o] => Opt!AnyNew(v)
Decided(v) == ~(v[Opt!W("Striked")] /\ v[Opt!W("Underlined")])
Exclusive(v) == \A pair \in Opt!Pairs : \E o \in pair : ~v[o]
LEMMA CoherentParts ==
  \A v : Opt!Coherent(v) <=> Dependent(v) /\ Marked(v) /\ Decided(v) /\ Exclusive(v)
<1> TAKE v
<1>1. ASSUME Opt!Coherent(v) PROVE Dependent(v) /\ Marked(v) /\ Decided(v) /\ Exclusive(v)
  <2>1. \A o \in Opt!Options : v[o] => Opt!Allowed(o, v)
    BY <1>1 DEF Opt!Coherent
  <2>2. Dependent(v)
    BY <2>1, OptionNames DEF Opt!Allowed, Dependent
  <2>3. Marked(v)
    BY <2>1, OptionNames DEF Opt!Allowed, Marked
  <2>4. Decided(v)
    BY <2>1, OptionNames DEF Opt!Allowed, Decided
  <2> QED BY <1>1, <2>2, <2>3, <2>4 DEF Opt!Coherent, Exclusive
<1>2. ASSUME Dependent(v), Marked(v), Decided(v), Exclusive(v) PROVE Opt!Coherent(v)
  <2>1. ASSUME NEW o \in Opt!Options, v[o] PROVE Opt!Allowed(o, v)
    BY <1>2, <2>1 DEF Dependent, Marked, Decided, Opt!Allowed
  <2> QED BY <1>2, <2>1 DEF Opt!Coherent, Exclusive
<1> QED BY <1>1, <1>2

\* What a tick makes of the boxes.
LEMMA TickIs ==
  ASSUME NEW o, NEW b, s3' = Opt!Tick(o, b)
  PROVE  \A x \in Opt!Options : s3'[x] = IF x = o THEN ~s3[o] ELSE b[x]
BY DEF Opt!Tick

\* Whether anything new is shown depends on nothing else.
LEMMA AnyNewSame ==
  ASSUME NEW v, NEW w, \A k \in News : v[Opt!New(k)] = w[Opt!New(k)]
  PROVE  Opt!AnyNew(v) <=> Opt!AnyNew(w)
BY DEF Opt!AnyNew

\* A box that others do not depend on is ticked by itself.
LEMMA TickAlone ==
  ASSUME Opt!Coherent(s3), Opt!Enabled, NEW o \in Opt!Options, s4[o],
         o \notin Opt!Parents, o \notin Opt!Decorations, o \notin UNION Opt!Pairs,
         s3' = Opt!Tick(o, s3), s4' = s4
  PROVE  Opt!Coherent(s3') /\ Opt!Enabled'
<1>1. Dependent(s3) /\ Marked(s3) /\ Decided(s3) /\ Exclusive(s3)
  BY CoherentParts
<1>2. \A x \in Opt!Options : x # o => s3'[x] = s3[x]
  BY TickIs
<1>3. \A p \in Opt!Parents : s3'[p] = s3[p]
  BY <1>2, OptionNames
<1>4. Opt!AnyNew(s3') <=> Opt!AnyNew(s3)
  BY <1>3, OptionNames, AnyNewSame
<1>5. /\ \A p \in Opt!Parents : o \in Opt!Children(p) => s3[p]
      /\ o \in Opt!Worked => Opt!AnyNew(s3)
  BY DEF Opt!Enabled
<1>6. Dependent(s3')
  <2> SUFFICES ASSUME NEW p \in Opt!Parents, NEW x \in Opt!Children(p), s3'[x] PROVE s3'[p]
    BY DEF Dependent
  <2>1. CASE x = o
    BY <2>1, <1>3, <1>5
  <2>2. CASE x # o
    BY <2>2, <1>1, <1>2, <1>3, OptionNames DEF Dependent
  <2> QED BY <2>1, <2>2
<1>7. Marked(s3')
  BY <1>1, <1>2, <1>4, <1>5, OptionNames DEF Marked
<1>8. Decided(s3')
  BY <1>1, <1>2, OptionNames DEF Decided
<1>9. Exclusive(s3')
  BY <1>1, <1>2, OptionNames DEF Exclusive
<1>10. Opt!Enabled'
  BY <1>3, <1>4 DEF Opt!Enabled
<1> QED BY <1>6, <1>7, <1>8, <1>9, <1>10, CoherentParts

----------------------------------------------------------------------------
\* The labels are a line each, and one for each colour of a line.
LEMMA LabelParts ==
  /\ \A l \in Opt!Labels : l[1] = "back" \/ (l[1] # "back" /\ l[2] \in Opt!Colours)
  /\ \A l \in Opt!Labels : l[1] # "back" =>
       \/ \E k \in News : l[2] = Opt!New(k) \/ l[2] = Opt!Band(k)
       \/ l[2] = Opt!W("Call")
<1>1. \A l \in Opt!Labels : l[1] = "back" \/ (l[1] # "back" /\ l[2] \in Opt!Colours \ Opt!Of("back", Backs))
  <2> SUFFICES ASSUME NEW l \in Opt!Labels
               PROVE  l[1] = "back" \/ (l[1] # "back" /\ l[2] \in Opt!Colours \ Opt!Of("back", Backs))
    OBVIOUS
  <2>1. CASE l \in Opt!Of("back", Backs)
    <3>1. PICK k \in Backs : l = <<"back", k>>
      BY <2>1 DEF Opt!Of
    <3>2. <<"back", k>>[1] = "back"
      OBVIOUS
    <3> QED BY <3>1, <3>2
  <2>2. CASE l \in Backs \X (Opt!Colours \ Opt!Of("back", Backs))
    <3>1. "back" \notin Backs
      BY MCAssumption DEF MCAssumption, Opt!OptionAssumption
    <3> QED BY <2>2, <3>1
  <2> QED BY <2>1, <2>2 DEF Opt!Labels
<1>2. \A c \in Opt!Colours \ Opt!Of("back", Backs) :
        (\E k \in News : c = Opt!New(k) \/ c = Opt!Band(k)) \/ c = Opt!W("Call")
  BY DEF Opt!Colours, Opt!Of, Opt!New, Opt!Band
<1> QED BY <1>1, <1>2

\* What a label looks like depends on three options, and whether it is shown on others.
LEMMA LookSame ==
  ASSUME NEW l \in Opt!Labels, NEW v, NEW w, NEW c, v[Opt!Txt] = w[Opt!Txt],
         l[1] # "back" /\ l[2] = Opt!W("Call") =>
           /\ v[Opt!W("Color")] = w[Opt!W("Color")]
           /\ \A o \in Opt!Decorations : v[o] = w[o]
  PROVE  Opt!Look(l, v, c) = Opt!Look(l, w, c)
BY OptionNames DEF Opt!Look, Opt!Decoration

LEMMA VisibleSame ==
  ASSUME NEW l \in Opt!Labels, NEW v, NEW w,
         Opt!Standard \in {l[1], l[2]} => v[Opt!Potential] = w[Opt!Potential],
         \A k \in News : l[2] = Opt!New(k) => v[l[2]] = w[l[2]],
         \A k \in News : l[2] = Opt!Band(k) =>
           v[l[2]] = w[l[2]] /\ v[Opt!BandMode(k)] = w[Opt!BandMode(k)],
         l[2] = Opt!W("Call") => (Opt!AnyNew(v) <=> Opt!AnyNew(w))
  PROVE  Opt!Visible(l, v) <=> Opt!Visible(l, w)
<1>1. CASE l[1] = "back"
  BY <1>1 DEF Opt!Visible
<1>2. CASE l[1] # "back"
  <2>1. ASSUME NEW k \in News, l[2] = Opt!New(k) PROVE l[2][1] = "new"
    BY <2>1 DEF Opt!New
  <2>2. ASSUME NEW k \in News, l[2] = Opt!Band(k) PROVE l[2][1] = "band" /\ l[2][2] = k
    BY <2>2 DEF Opt!Band
  <2>3. l[2] = Opt!W("Call") => l[2][1] = "worked"
    BY DEF Opt!W
  <2>4. ASSUME NEW k \in News, l[2] = Opt!New(k) PROVE Opt!Visible(l, v) <=> Opt!Visible(l, w)
    BY <1>2, <2>1, <2>4 DEF Opt!Visible
  <2>5. ASSUME NEW k \in News, l[2] = Opt!Band(k) PROVE Opt!Visible(l, v) <=> Opt!Visible(l, w)
    BY <1>2, <2>2, <2>5 DEF Opt!Visible
  <2>6. ASSUME l[2] = Opt!W("Call") PROVE Opt!Visible(l, v) <=> Opt!Visible(l, w)
    BY <1>2, <2>3, <2>6 DEF Opt!Visible
  <2> QED BY <1>2, <2>4, <2>5, <2>6, LabelParts
<1> QED BY <1>1, <1>2

\* The labels that are not dressed again, or not shown again, need not be.
LEMMA LooksTrue ==
  ASSUME s7 = Opt!Dressed(s5, s6), NEW labels, Opt!Redressed(labels),
         \A l \in Opt!Labels \ labels : Opt!Look(l, s5, s6) = Opt!Look(l, s5', s6')
  PROVE  s7' = Opt!Dressed(s5', s6')
<1>1. \A l \in Opt!Labels : s7[l] = Opt!Look(l, s5, s6)
  BY DEF Opt!Dressed
<1>2. s7' = [l \in Opt!Labels |-> IF l \in labels THEN Opt!Look(l, s5', s6') ELSE s7[l]]
  BY DEF Opt!Redressed
<1>3. \A l \in Opt!Labels :
        (IF l \in labels THEN Opt!Look(l, s5', s6') ELSE s7[l]) = Opt!Look(l, s5', s6')
  BY <1>1
<1> QED BY <1>2, <1>3, Zenon DEF Opt!Dressed

LEMMA LooksKept ==
  ASSUME s7 = Opt!Dressed(s5, s6), s7' = s7,
         \A l \in Opt!Labels : Opt!Look(l, s5, s6) = Opt!Look(l, s5', s6')
  PROVE  s7' = Opt!Dressed(s5', s6')
BY Zenon DEF Opt!Dressed

\* A label shows what the boxes say as it shows what the members say.
LEMMA VisibleFollows ==
  ASSUME NEW l \in Opt!Labels, NEW v, NEW w, \A o \in Opt!Followed : v[o] = w[o]
  PROVE  Opt!Visible(l, v) <=> Opt!Visible(l, w)
<1>1. Opt!AnyNew(v) <=> Opt!AnyNew(w)
  BY NameParts, AnyNewSame
<1> QED BY <1>1, NameParts, VisibleSame

LEMMA ShownTrue ==
  ASSUME s8 = Opt!Shown(s3), NEW labels, labels \subseteq Opt!Labels, Opt!Reshown(labels),
         \A l \in labels : Opt!Visible(l, s5') <=> Opt!Visible(l, s3'),
         \A l \in Opt!Labels \ labels : Opt!Visible(l, s3) <=> Opt!Visible(l, s3')
  PROVE  s8' = Opt!Shown(s3')
<1>1. s8' = (s8 \ labels) \cup {l \in labels : Opt!Visible(l, s5')}
  BY DEF Opt!Reshown
<1>2. s8 = {l \in Opt!Labels : Opt!Visible(l, s3)}
  BY DEF Opt!Shown
<1>3. \A l : l \in s8' <=> l \in Opt!Labels /\ Opt!Visible(l, s3')
  BY <1>1, <1>2
<1> QED BY <1>3 DEF Opt!Shown

----------------------------------------------------------------------------
\* A click leaves everything alone but its box and its member.
LEMMA ClickIs ==
  ASSUME Opt!TypeOK, NEW o \in Opt!Options, Opt!Click(o)
  PROVE  /\ s1' = s1 /\ s2' = s2 /\ s6' = s6 /\ s9 /\ s9' = s9 /\ s4[o] /\ s11' = s11
         /\ \A x \in Opt!Options : s5'[x] = IF x = o THEN ~s3[o] ELSE s5[x]
<1>1. s5' = [s5 EXCEPT ![o] = ~s3[o]] /\ (~s3[o]) \in BOOLEAN
  BY DEF Opt!Click
<1>2. \A x \in Opt!Options : s5'[x] = IF x = o THEN ~s3[o] ELSE s5[x]
  BY <1>1, OptionChanged DEF Opt!TypeOK
<1> QED BY <1>2 DEF Opt!Click, Opt!inForce

\* A box that others do not depend on and its member stay in step.
LEMMA ClickAlone ==
  ASSUME Opt!TypeOK, Opt!InStep, NEW o \in Opt!Options, Opt!Click(o),
         o \notin Opt!Parents, o \notin Opt!Decorations, o \notin UNION Opt!Pairs,
         s3' = Opt!Tick(o, s3), s4' = s4
  PROVE  /\ Opt!InStep' /\ \A x \in Opt!Options : s3'[x] = IF x = o THEN ~s3[o] ELSE s3[x]
         /\ Opt!Decorated => Opt!Decorated'
<1>1. Opt!Coherent(s3') /\ Opt!Enabled'
  BY TickAlone, ClickIs DEF Opt!InStep
<1>2. \A x \in Opt!Options : s3'[x] = IF x = o THEN ~s3[o] ELSE s3[x]
  BY TickIs
<1>3. \A x \in Opt!Options : s5'[x] = IF x = o THEN ~s3[o] ELSE s5[x]
  BY ClickIs
<1>4. \A x \in Opt!Followed : s5'[x] = s3'[x]
  BY <1>2, <1>3, OptionNames DEF Opt!InStep
<1>5. Opt!AnyNew(s3') <=> Opt!AnyNew(s3)
  BY <1>2, OptionNames, AnyNewSame
<1>6. Opt!AnyNew(s3') => s5'[Opt!W("Color")] = s3'[Opt!W("Color")]
  BY <1>2, <1>3, <1>5, OptionNames DEF Opt!InStep
<1>7. Opt!InStep'
  BY <1>1, <1>4, <1>6, ClickIs DEF Opt!InStep
<1>8. \A x \in Opt!Decorations : s3'[x] = s3[x] /\ s5'[x] = s5[x]
  BY <1>2, <1>3, OptionNames
<1>9. ASSUME Opt!Decorated PROVE Opt!Decorated'
  BY <1>5, <1>8, <1>9, ClickIs DEF Opt!Decorated
<1> QED BY <1>2, <1>7, <1>9

\* Boxes whose label depends on them: bands, the text colour, potential calls, and the
\* colour of worked calls; and those without one.
LEMMA BandClicked ==
  ASSUME Opt!TypeOK, Opt!Tended, NEW o \in Opt!Options, Opt!band_clicked(o)
  PROVE  Opt!Tended' /\ (Opt!Decorated => Opt!Decorated')
<1>1. /\ o[1] \in {"band", "bandMode"} /\ Opt!Click(o) /\ s3' = Opt!Tick(o, s3) /\ s4' = s4
      /\ s7' = s7 /\ Opt!Reshown(Opt!About(Opt!Band(o[2])))
  BY DEF Opt!band_clicked
<1>2. o \notin Opt!Parents /\ o \notin Opt!Decorations /\ o \notin UNION Opt!Pairs
  BY <1>1, OptionNames
<1>3. /\ Opt!InStep' /\ \A x \in Opt!Options : s3'[x] = IF x = o THEN ~s3[o] ELSE s3[x]
      /\ Opt!Decorated => Opt!Decorated'
  BY <1>1, <1>2, ClickAlone DEF Opt!Tended
<1>4. \A x \in Opt!Options : s5'[x] = IF x = o THEN ~s3[o] ELSE s5[x]
  BY <1>1, ClickIs
<1>5. s7' = Opt!Dressed(s5', s6')
  <2>1. o # Opt!Txt /\ o \notin Opt!Worked
    BY <1>1, NameParts, OptionNames
  <2>2. s5'[Opt!Txt] = s5[Opt!Txt] /\ \A x \in Opt!Worked : s5'[x] = s5[x]
    BY <1>4, <2>1, NameParts, OptionNames
  <2>3. \A l \in Opt!Labels : Opt!Look(l, s5, s6) = Opt!Look(l, s5', s6')
    BY <1>1, <2>2, ClickIs, OptionNames, LookSame
  <2> QED BY <2>3, <1>1, LooksKept DEF Opt!Tended
<1>6. s8' = Opt!Shown(s3')
  <2> DEFINE labels == Opt!About(Opt!Band(o[2]))
  <2>1. \A l \in Opt!Labels : Opt!Visible(l, s5') <=> Opt!Visible(l, s3')
    BY <1>3, VisibleFollows DEF Opt!InStep
  <2>2. ASSUME NEW l \in Opt!Labels \ labels PROVE Opt!Visible(l, s3) <=> Opt!Visible(l, s3')
    <3>1. o # Opt!Potential /\ \A k \in News : o # Opt!New(k)
      BY <1>1, NameParts
    <3>2. s3'[Opt!Potential] = s3[Opt!Potential] /\ \A k \in News : s3'[Opt!New(k)] = s3[Opt!New(k)]
      BY <1>3, <3>1, NameParts, OptionNames
    <3>3. l[2] # Opt!Band(o[2])
      BY <2>2 DEF Opt!About
    <3>4. \A k \in News : l[2] = Opt!Band(k) => o # Opt!Band(k) /\ o # Opt!BandMode(k)
      BY <3>3, NameParts
    <3>5. \A k \in News : l[2] = Opt!Band(k) =>
            s3[l[2]] = s3'[l[2]] /\ s3[Opt!BandMode(k)] = s3'[Opt!BandMode(k)]
      BY <1>3, <3>4, NameParts, OptionNames
    <3>6. Opt!AnyNew(s3) <=> Opt!AnyNew(s3')
      BY <3>2, AnyNewSame
    <3> QED BY <3>2, <3>5, <3>6, VisibleSame
  <2>3. labels \subseteq Opt!Labels
    BY DEF Opt!About
  <2>4. s8 = Opt!Shown(s3) /\ Opt!Reshown(labels)
    BY <1>1 DEF Opt!Tended
  <2> HIDE DEF labels
  <2> QED BY <2>1, <2>2, <2>3, <2>4, ShownTrue
<1> QED BY <1>3, <1>5, <1>6 DEF Opt!Tended

LEMMA TxtColorClicked ==
  ASSUME Opt!TypeOK, Opt!Tended, Opt!txtColor_clicked
  PROVE  Opt!Tended' /\ (Opt!Decorated => Opt!Decorated')
<1> DEFINE o == Opt!Txt
<1>1. /\ o \in Opt!Options /\ Opt!Click(o) /\ s3' = Opt!Tick(o, s3) /\ s4' = s4
      /\ s8' = s8 /\ Opt!Redressed(Opt!Labels)
  BY NameParts DEF Opt!txtColor_clicked
<1>2. o \notin Opt!Parents /\ o \notin Opt!Decorations /\ o \notin UNION Opt!Pairs
  BY NameParts, OptionNames
<1>3. \A x \in Opt!Followed : x # o => s3'[x] = s3[x]
  BY <1>1, TickIs, OptionNames
<1>4. Opt!InStep' /\ (Opt!Decorated => Opt!Decorated')
  BY <1>1, <1>2, ClickAlone DEF Opt!Tended
<1>5. s7' = Opt!Dressed(s5', s6')
  BY <1>1, LooksTrue DEF Opt!Tended
<1>6. \A l \in Opt!Labels : Opt!Visible(l, s3) <=> Opt!Visible(l, s3')
  <2>1. /\ s3'[Opt!Potential] = s3[Opt!Potential]
        /\ \A k \in News : s3'[Opt!New(k)] = s3[Opt!New(k)] /\ s3'[Opt!Band(k)] = s3[Opt!Band(k)]
                           /\ s3'[Opt!BandMode(k)] = s3[Opt!BandMode(k)]
    BY <1>3, NameParts
  <2>2. Opt!AnyNew(s3) <=> Opt!AnyNew(s3')
    BY <2>1, AnyNewSame
  <2> QED BY <2>1, <2>2, VisibleSame
<1>7. s8' = Opt!Shown(s3')
  BY <1>1, <1>6 DEF Opt!Tended, Opt!Shown
<1> QED BY <1>4, <1>5, <1>7 DEF Opt!Tended

LEMMA PotentialClicked ==
  ASSUME Opt!TypeOK, Opt!Tended, Opt!newPotential_clicked
  PROVE  Opt!Tended' /\ (Opt!Decorated => Opt!Decorated')
<1> DEFINE o == Opt!Potential
           labels == {l \in Opt!Labels : Opt!Standard \in {l[1], l[2]}}
<1>1. /\ o \in Opt!Options /\ Opt!Click(o) /\ s3' = Opt!Tick(o, s3) /\ s4' = s4
      /\ s7' = s7 /\ Opt!Reshown(labels)
  BY NameParts DEF Opt!newPotential_clicked
<1>2. o \notin Opt!Parents /\ o \notin Opt!Decorations /\ o \notin UNION Opt!Pairs /\ o \notin Opt!Worked
  BY NameParts, OptionNames
<1>3. \A x \in Opt!Followed : x # o => s3'[x] = s3[x]
  BY <1>1, TickIs, OptionNames
<1>4. Opt!InStep' /\ (Opt!Decorated => Opt!Decorated')
  BY <1>1, <1>2, ClickAlone DEF Opt!Tended
<1>5. s7' = Opt!Dressed(s5', s6')
  <2>1. s5'[Opt!Txt] = s5[Opt!Txt] /\ \A x \in Opt!Worked : s5'[x] = s5[x]
    BY <1>1, <1>2, ClickIs, NameParts, OptionNames
  <2>2. \A l \in Opt!Labels : Opt!Look(l, s5, s6) = Opt!Look(l, s5', s6')
    BY <1>1, <2>1, ClickIs, OptionNames, LookSame
  <2> QED BY <2>2, <1>1, LooksKept DEF Opt!Tended
<1>6. \A l \in Opt!Labels \ labels : Opt!Visible(l, s3) <=> Opt!Visible(l, s3')
  <2>1. \A k \in News : s3'[Opt!New(k)] = s3[Opt!New(k)] /\ s3'[Opt!Band(k)] = s3[Opt!Band(k)]
                        /\ s3'[Opt!BandMode(k)] = s3[Opt!BandMode(k)]
    BY <1>3, NameParts
  <2>2. Opt!AnyNew(s3) <=> Opt!AnyNew(s3')
    BY <2>1, AnyNewSame
  <2> QED BY <2>1, <2>2, VisibleSame
<1>7. \A l \in Opt!Labels : Opt!Visible(l, s5') <=> Opt!Visible(l, s3')
  BY <1>4, VisibleFollows DEF Opt!InStep
<1>8. s8' = Opt!Shown(s3')
  <2> HIDE DEF labels
  <2>1. labels \subseteq Opt!Labels /\ s8 = Opt!Shown(s3)
    BY DEF labels, Opt!Tended
  <2> QED BY <1>1, <1>6, <1>7, <2>1, ShownTrue
<1> QED BY <1>4, <1>5, <1>8 DEF Opt!Tended

LEMMA WorkedClicked ==
  ASSUME Opt!TypeOK, Opt!Tended, NEW o, Opt!worked_clicked(o)
  PROVE  Opt!Tended' /\ (Opt!Decorated => Opt!Decorated')
<1> DEFINE labels == IF o = Opt!W("Color") THEN Opt!About(Opt!W("Call")) ELSE {}
<1>1. /\ o \in {Opt!W("Color"), Opt!W("DontShow")} /\ Opt!Click(o) /\ s3' = Opt!Tick(o, s3)
      /\ s4' = s4 /\ s8' = s8 /\ Opt!Redressed(labels)
  BY DEF Opt!worked_clicked
<1>2. o \in Opt!Options /\ o \notin Opt!Decorations
  BY <1>1, OptionNames DEF Opt!Decorations, Opt!Of, Opt!W, Opt!Worked
<1>3. o \notin Opt!Parents /\ o \notin UNION Opt!Pairs /\ o \notin Opt!Followed
  BY <1>1, NameParts, OptionNames
<1>4. Opt!InStep' /\ (Opt!Decorated => Opt!Decorated')
  BY <1>1, <1>2, <1>3, ClickAlone DEF Opt!Tended
<1>5. \A x \in Opt!Followed \cup Opt!Decorations : s3'[x] = s3[x] /\ s5'[x] = s5[x]
  BY <1>1, <1>2, <1>3, TickIs, ClickIs, OptionNames
<1>6. s7' = Opt!Dressed(s5', s6')
  <2>1. ASSUME NEW l \in Opt!Labels \ labels PROVE Opt!Look(l, s5, s6) = Opt!Look(l, s5', s6')
    <3>1. l[2] = Opt!W("Call") => s5'[Opt!W("Color")] = s5[Opt!W("Color")]
      BY <2>1, <1>1, <1>2, ClickIs, OptionNames DEF Opt!About
    <3>2. s5'[Opt!Txt] = s5[Opt!Txt] /\ s6' = s6
      BY <1>1, <1>2, <1>5, NameParts, ClickIs
    <3> QED BY <3>1, <3>2, <1>5, LookSame
  <2> HIDE DEF labels
  <2> QED BY <2>1, <1>1, LooksTrue DEF Opt!Tended
<1>7. s8' = Opt!Shown(s3')
  <2>1. \A l \in Opt!Labels : Opt!Visible(l, s3) <=> Opt!Visible(l, s3')
    BY <1>5, VisibleFollows
  <2> QED BY <1>1, <2>1 DEF Opt!Tended, Opt!Shown
<1> QED BY <1>4, <1>6, <1>7 DEF Opt!Tended

LEMMA BoxClicked ==
  ASSUME Opt!TypeOK, Opt!Tended, NEW o \in Opt!Options, Opt!box_clicked(o)
  PROVE  Opt!Tended' /\ (Opt!Decorated => Opt!Decorated')
<1>1. /\ o \in Opt!Single /\ Opt!Click(o) /\ s3' = Opt!Tick(o, s3)
      /\ s4' = s4 /\ s7' = s7 /\ s8' = s8
  BY DEF Opt!box_clicked
<1>2. o[1] \in {"beep", "hide"}
  BY <1>1 DEF Opt!Single
<1>3. /\ o \notin Opt!Parents /\ o \notin UNION Opt!Pairs /\ o \notin Opt!Followed
      /\ o \notin Opt!Worked /\ o \notin Opt!Decorations
  BY <1>2, OptionNames
<1>4. Opt!InStep' /\ (Opt!Decorated => Opt!Decorated')
  BY <1>1, <1>3, ClickAlone DEF Opt!Tended
<1>5. \A x \in Opt!Followed \cup Opt!Worked : s3'[x] = s3[x] /\ s5'[x] = s5[x]
  BY <1>1, <1>3, TickIs, ClickIs, OptionNames
<1>6. s7' = Opt!Dressed(s5', s6')
  <2>1. \A l \in Opt!Labels : Opt!Look(l, s5, s6) = Opt!Look(l, s5', s6')
    BY <1>1, <1>5, ClickIs, NameParts, OptionNames, LookSame
  <2> QED BY <2>1, <1>1, LooksKept DEF Opt!Tended
<1>7. s8' = Opt!Shown(s3')
  <2>1. \A l \in Opt!Labels : Opt!Visible(l, s3) <=> Opt!Visible(l, s3')
    BY <1>5, VisibleFollows
  <2> QED BY <1>1, <2>1 DEF Opt!Tended, Opt!Shown
<1> QED BY <1>4, <1>6, <1>7 DEF Opt!Tended

\* Boxes of which others depend: what is on one of a pair is not on the other.
LEMMA PairClicked ==
  ASSUME Opt!TypeOK, Opt!Tended, NEW pair \in Opt!Pairs, NEW o \in pair, NEW other \in pair,
         o # other, Opt!pair_clicked(o, other)
  PROVE  Opt!Tended' /\ (Opt!Decorated => Opt!Decorated')
<1> DEFINE b == [s3 EXCEPT ![other] = s3[o] /\ @]
<1>1. Opt!Click(o) /\ s3' = Opt!Tick(o, b) /\ s4' = s4 /\ s7' = s7 /\ s8' = s8
  BY DEF Opt!pair_clicked
<1>2. /\ o \in Opt!Options /\ other \in Opt!Options
      /\ o[1] \in {"show", "log"} /\ other[1] \in {"show", "log"}
  BY OptionNames
<1>3. \A x \in Opt!Options : b[x] = IF x = other THEN s3[o] /\ s3[other] ELSE s3[x]
  BY OptionChanged DEF Opt!TypeOK
<1>4. \A x \in Opt!Options : s3'[x] = IF x = o THEN ~s3[o]
                                     ELSE IF x = other THEN s3[o] /\ s3[other] ELSE s3[x]
  <2> HIDE DEF b
  <2> QED BY <1>1, <1>3, TickIs
<1>5. \A x \in Opt!Followed \cup Opt!Worked \cup Opt!Decorations \cup Opt!Parents :
        s3'[x] = s3[x] /\ s5'[x] = s5[x]
  <2>1. \A x \in Opt!Followed \cup Opt!Worked \cup Opt!Decorations \cup Opt!Parents :
          x \in Opt!Options /\ x # o /\ x # other
    BY <1>2, OptionNames
  <2>2. \A x \in Opt!Options : s5'[x] = IF x = o THEN ~s3[o] ELSE s5[x]
    BY <1>1, <1>2, ClickIs
  <2> QED BY <1>4, <2>1, <2>2
<1>6. Opt!AnyNew(s3') <=> Opt!AnyNew(s3)
  BY <1>5, OptionNames, AnyNewSame
<1>7. Dependent(s3) /\ Marked(s3) /\ Decided(s3) /\ Exclusive(s3)
  BY CoherentParts DEF Opt!Tended, Opt!InStep
<1>8. Opt!Coherent(s3')
  <2>1. \A p \in Opt!Parents : \A x \in Opt!Children(p) : s3'[x] = s3[x]
    BY <1>2, <1>4, OptionNames
  <2>2. Dependent(s3')
    BY <2>1, <1>5, <1>7 DEF Dependent
  <2>3. Marked(s3') /\ Decided(s3')
    BY <1>5, <1>6, <1>7, OptionNames DEF Marked, Decided
  <2>4. Exclusive(s3')
    <3> SUFFICES ASSUME NEW q \in Opt!Pairs PROVE \E x \in q : ~s3'[x]
      BY DEF Exclusive
    <3>1. CASE q = pair
      BY <3>1, <1>2, <1>4
    <3>2. CASE q # pair
      <4>1. o \notin q
        BY <3>2 DEF Opt!Pairs
      <4>2. PICK x \in q : ~s3[x]
        BY <1>7 DEF Exclusive
      <4>3. x \in Opt!Options
        BY OptionNames
      <4> QED BY <1>4, <4>1, <4>2, <4>3
    <3> QED BY <3>1, <3>2
  <2> QED BY <2>2, <2>3, <2>4, CoherentParts
<1>9. Opt!InStep'
  <2>1. Opt!Enabled'
    BY <1>1, <1>5, <1>6 DEF Opt!Enabled, Opt!Tended, Opt!InStep
  <2>2. \A x \in Opt!Followed : s5'[x] = s3'[x]
    BY <1>5 DEF Opt!Tended, Opt!InStep
  <2>3. Opt!AnyNew(s3') => s5'[Opt!W("Color")] = s3'[Opt!W("Color")]
    BY <1>5, <1>6, OptionNames DEF Opt!Tended, Opt!InStep
  <2>4. Opt!Coherent(s1') /\ s9'
    BY <1>1, <1>2, ClickIs DEF Opt!Tended, Opt!InStep
  <2> QED BY <1>8, <2>1, <2>2, <2>3, <2>4 DEF Opt!InStep
<1>10. s7' = Opt!Dressed(s5', s6')
  <2>1. \A l \in Opt!Labels : Opt!Look(l, s5, s6) = Opt!Look(l, s5', s6')
    BY <1>1, <1>2, <1>5, ClickIs, NameParts, OptionNames, LookSame
  <2> QED BY <2>1, <1>1, LooksKept DEF Opt!Tended
<1>11. s8' = Opt!Shown(s3')
  <2>1. \A l \in Opt!Labels : Opt!Visible(l, s3) <=> Opt!Visible(l, s3')
    BY <1>5, VisibleFollows
  <2> QED BY <1>1, <2>1 DEF Opt!Tended, Opt!Shown
<1>12. ASSUME Opt!Decorated PROVE Opt!Decorated'
  <2>1. /\ \A x \in Opt!Decorations : s3'[x] = s3[x] /\ s5'[x] = s5[x] /\ s4'[x] = s4[x]
        /\ s1' = s1 /\ s9' = s9
    BY <1>1, <1>2, <1>5, ClickIs
  <2> QED BY <2>1, <1>6, <1>12 DEF Opt!Decorated
<1> QED BY <1>9, <1>10, <1>11, <1>12 DEF Opt!Tended

\* A box depends on one other at most.
LEMMA OneParent ==
  \A p, q \in Opt!Parents : \A o : o \in Opt!Children(p) /\ o \in Opt!Children(q) => p = q
<1>1. \A o \in Opt!Children(Opt!Country) : o[1] = "hide"
  BY DEF Opt!Children, Opt!Of
<1>2. ASSUME NEW k \in News, NEW o \in Opt!Children(Opt!New(k))
      PROVE  o[1] \in {"band", "bandMode", "beep"} /\ o[2] = k
  <2>1. Opt!New(k) # Opt!Country
    BY NameParts
  <2>2. Opt!New(k)[2] = k
    BY NameParts
  <2>3. o = Opt!Band(k) \/ o = Opt!BandMode(k) \/ o = <<"beep", k>>
    BY <1>2, <2>1, <2>2 DEF Opt!Children
  <2> QED BY <2>3, NameParts
<1>3. \A p \in Opt!Parents : p = Opt!Country \/ \E k \in News : p = Opt!New(k)
  BY DEF Opt!Parents, Opt!Of, Opt!New
<1> SUFFICES ASSUME NEW p \in Opt!Parents, NEW q \in Opt!Parents, NEW o,
                    o \in Opt!Children(p), o \in Opt!Children(q)
             PROVE  p = q
  OBVIOUS
<1> QED BY <1>1, <1>2, <1>3

\* The names of countries: what they let hide is as in force, or off.
LEMMA CountryClicked ==
  ASSUME Opt!TypeOK, Opt!Tended, Opt!country_clicked
  PROVE  Opt!Tended' /\ (Opt!Decorated => Opt!Decorated')
<1> DEFINE o == Opt!Country
           b == [x \in Opt!Options |-> IF x \in Opt!Children(o) THEN ~s3[o] /\ s1[x] ELSE s3[x]]
           e == [x \in Opt!Options |-> IF x \in Opt!Children(o) THEN ~s3[o] ELSE s4[x]]
<1>1. Opt!Click(o) /\ s3' = Opt!Tick(o, b) /\ s4' = e /\ s7' = s7 /\ s8' = s8
  BY DEF Opt!country_clicked
<1>2. o \in Opt!Parents /\ o \in Opt!Options /\ o[1] = "country"
  BY NameParts, OptionNames DEF Opt!Parents
<1>3. \A x \in Opt!Options : s3'[x] = IF x = o THEN ~s3[o]
                                     ELSE IF x \in Opt!Children(o) THEN ~s3[o] /\ s1[x] ELSE s3[x]
  <2>1. \A x \in Opt!Options : b[x] = IF x \in Opt!Children(o) THEN ~s3[o] /\ s1[x] ELSE s3[x]
    OBVIOUS
  <2> HIDE DEF b
  <2> QED BY <1>1, <2>1, TickIs
<1>4. \A x \in Opt!Options : s4'[x] = IF x \in Opt!Children(o) THEN ~s3[o] ELSE s4[x]
  BY <1>1
<1> HIDE DEF b, e
<1>5. \A x \in Opt!Children(o) : x[1] = "hide"
  BY DEF Opt!Children, Opt!Of
<1>6. \A x \in Opt!Followed \cup Opt!Worked \cup Opt!Decorations :
        s3'[x] = s3[x] /\ s5'[x] = s5[x] /\ s4'[x] = s4[x]
  BY <1>1, <1>2, <1>3, <1>4, <1>5, ClickIs, OptionNames
<1>7. Opt!AnyNew(s3') <=> Opt!AnyNew(s3)
  BY <1>6, NameParts, AnyNewSame
<1>8. Dependent(s3) /\ Marked(s3) /\ Decided(s3) /\ Exclusive(s3)
  BY CoherentParts DEF Opt!Tended, Opt!InStep
<1>9. \A p \in Opt!Parents : p # o => s3'[p] = s3[p]
  BY <1>3, <1>5, OptionNames
<1>10. Opt!Coherent(s3')
  <2>1. Dependent(s3')
    <3> SUFFICES ASSUME NEW p \in Opt!Parents, NEW x \in Opt!Children(p), s3'[x] PROVE s3'[p]
      BY DEF Dependent
    <3>1. x \in Opt!Options /\ x # o
      BY <1>2, OptionNames
    <3>2. CASE p = o
      BY <3>1, <3>2, <1>2, <1>3
    <3>3. CASE p # o
      BY <3>1, <3>3, <1>2, <1>3, <1>8, <1>9, OneParent DEF Dependent
    <3> QED BY <3>2, <3>3
  <2>2. Marked(s3') /\ Decided(s3')
    BY <1>6, <1>7, <1>8, OptionNames DEF Marked, Decided
  <2>3. Exclusive(s3')
    <3>1. \A pair \in Opt!Pairs : \A x \in pair : s3'[x] = s3[x]
      BY <1>2, <1>3, <1>5, OptionNames
    <3> QED BY <3>1, <1>8 DEF Exclusive
  <2> QED BY <2>1, <2>2, <2>3, CoherentParts
<1>11. Opt!InStep'
  <2>1. Opt!Enabled'
    <3> SUFFICES ASSUME NEW x \in Opt!Options, s4'[x]
                 PROVE  /\ \A p \in Opt!Parents : x \in Opt!Children(p) => s3'[p]
                        /\ x \in Opt!Worked => Opt!AnyNew(s3')
      BY DEF Opt!Enabled
    <3>1. x \in Opt!Worked => Opt!AnyNew(s3')
      BY <1>6, <1>7 DEF Opt!Enabled, Opt!Tended, Opt!InStep
    <3>2. ASSUME NEW p \in Opt!Parents, x \in Opt!Children(p) PROVE s3'[p]
      <4>1. CASE p = o
        BY <4>1, <3>2, <1>2, <1>3, <1>4
      <4>2. CASE p # o
        BY <4>2, <3>2, <1>2, <1>4, <1>9, OneParent DEF Opt!Enabled, Opt!Tended, Opt!InStep
      <4> QED BY <4>1, <4>2
    <3> QED BY <3>1, <3>2
  <2>2. \A x \in Opt!Followed : s5'[x] = s3'[x]
    BY <1>6 DEF Opt!Tended, Opt!InStep
  <2>3. Opt!AnyNew(s3') => s5'[Opt!W("Color")] = s3'[Opt!W("Color")]
    BY <1>6, <1>7, OptionNames DEF Opt!Tended, Opt!InStep
  <2>4. Opt!Coherent(s1') /\ s9'
    BY <1>1, <1>2, ClickIs DEF Opt!Tended, Opt!InStep
  <2> QED BY <1>10, <2>1, <2>2, <2>3, <2>4 DEF Opt!InStep
<1>12. s7' = Opt!Dressed(s5', s6')
  <2>1. \A l \in Opt!Labels : Opt!Look(l, s5, s6) = Opt!Look(l, s5', s6')
    BY <1>1, <1>2, <1>6, ClickIs, NameParts, OptionNames, LookSame
  <2> QED BY <2>1, <1>1, LooksKept DEF Opt!Tended
<1>13. s8' = Opt!Shown(s3')
  <2>1. \A l \in Opt!Labels : Opt!Visible(l, s3) <=> Opt!Visible(l, s3')
    BY <1>6, VisibleFollows
  <2> QED BY <1>1, <2>1 DEF Opt!Tended, Opt!Shown
<1>14. ASSUME Opt!Decorated PROVE Opt!Decorated'
  BY <1>1, <1>2, <1>6, <1>7, <1>14, ClickIs DEF Opt!Decorated
<1> QED BY <1>11, <1>12, <1>13, <1>14 DEF Opt!Tended

\* Struck out or underlined: the other box is off, or comes back as in force.
LEMMA DecorationClicked ==
  ASSUME Opt!TypeOK, Opt!Tended, NEW o \in Opt!Decorations, NEW other \in Opt!Decorations,
         o # other, Opt!decoration_clicked(o, other)
  PROVE  /\ Opt!Tended'
         /\ Opt!Decorated /\ ~(s3[o] /\ s1[o]) => Opt!Decorated'
<1> DEFINE b == [s3 EXCEPT ![other] = s3[o] /\ s1[other]]
           e == [s4 EXCEPT ![other] = s3[o]]
<1>1. /\ Opt!Click(o) /\ s3' = Opt!Tick(o, b) /\ s4' = e /\ s8' = s8
      /\ Opt!Redressed(Opt!About(Opt!W("Call")))
  BY DEF Opt!decoration_clicked
<1>2. /\ o \in Opt!Options /\ other \in Opt!Options /\ o[1] = "worked" /\ other[1] = "worked"
      /\ o \in Opt!Worked /\ other \in Opt!Worked
      /\ o # Opt!W("Color") /\ other # Opt!W("Color")
      /\ \A x \in Opt!Decorations : x = o \/ x = other
  <2>1. Opt!Decorations = {Opt!W("Striked"), Opt!W("Underlined")}
    BY DEF Opt!Decorations, Opt!Of, Opt!W
  <2> QED BY <2>1, OptionNames
<1>3. \A x \in Opt!Options : s3'[x] = IF x = o THEN ~s3[o]
                                     ELSE IF x = other THEN s3[o] /\ s1[other] ELSE s3[x]
  <2>1. \A x \in Opt!Options : b[x] = IF x = other THEN s3[o] /\ s1[other] ELSE s3[x]
    BY OptionChanged DEF Opt!TypeOK
  <2> HIDE DEF b
  <2> QED BY <1>1, <2>1, TickIs
<1>4. \A x \in Opt!Options : s4'[x] = IF x = other THEN s3[o] ELSE s4[x]
  BY <1>1, <1>2, OptionChanged DEF Opt!TypeOK
<1>5. \A x \in Opt!Options : s5'[x] = IF x = o THEN ~s3[o] ELSE s5[x]
  BY <1>1, <1>2, ClickIs
<1> HIDE DEF b, e
<1>6. /\ \A x \in Opt!Followed \cup Opt!Parents \cup {Opt!W("Color")} :
           x \in Opt!Options /\ x # o /\ x # other
  BY <1>2, OptionNames
<1>7. Opt!AnyNew(s3') <=> Opt!AnyNew(s3)
  BY <1>3, <1>6, NameParts, AnyNewSame
<1>8. Dependent(s3) /\ Marked(s3) /\ Decided(s3) /\ Exclusive(s3)
  BY CoherentParts DEF Opt!Tended, Opt!InStep
<1>9. s4[o] /\ s1' = s1 /\ s9 /\ s9' = s9 /\ Opt!AnyNew(s3)
  BY <1>1, <1>2, ClickIs DEF Opt!Tended, Opt!InStep, Opt!Enabled
<1>10. Opt!Coherent(s3')
  <2>1. Dependent(s3')
    <3>1. \A p \in Opt!Parents : \A x \in Opt!Children(p) : s3'[x] = s3[x] /\ s3'[p] = s3[p]
      BY <1>2, <1>3, <1>6, OptionNames
    <3> QED BY <3>1, <1>8 DEF Dependent
  <2>2. Marked(s3')
    BY <1>7, <1>9 DEF Marked
  <2>3. Decided(s3')
    <3>1. ~(s3'[o] /\ s3'[other])
      BY <1>2, <1>3
    <3> QED BY <3>1, <1>2, OptionNames DEF Decided, Opt!W
  <2>4. Exclusive(s3')
    <3>1. \A pair \in Opt!Pairs : \A x \in pair : s3'[x] = s3[x]
      BY <1>2, <1>3, OptionNames
    <3> QED BY <3>1, <1>8 DEF Exclusive
  <2> QED BY <2>1, <2>2, <2>3, <2>4, CoherentParts
<1>11. Opt!InStep'
  <2>1. Opt!Enabled'
    <3> SUFFICES ASSUME NEW x \in Opt!Options, s4'[x]
                 PROVE  /\ \A p \in Opt!Parents : x \in Opt!Children(p) => s3'[p]
                        /\ x \in Opt!Worked => Opt!AnyNew(s3')
      BY DEF Opt!Enabled
    <3>1. CASE x = other
      BY <3>1, <1>2, <1>7, <1>9, OptionNames
    <3>2. CASE x # other
      BY <3>2, <1>3, <1>4, <1>6, <1>7, <1>9 DEF Opt!Enabled, Opt!Tended, Opt!InStep
    <3> QED BY <3>1, <3>2
  <2>2. \A x \in Opt!Followed : s5'[x] = s3'[x]
    BY <1>3, <1>5, <1>6 DEF Opt!Tended, Opt!InStep
  <2>3. Opt!AnyNew(s3') => s5'[Opt!W("Color")] = s3'[Opt!W("Color")]
    BY <1>3, <1>5, <1>6, <1>7 DEF Opt!Tended, Opt!InStep
  <2>4. Opt!Coherent(s1') /\ s9'
    BY <1>9 DEF Opt!Tended, Opt!InStep
  <2> QED BY <1>10, <2>1, <2>2, <2>3, <2>4 DEF Opt!InStep
<1>12. s7' = Opt!Dressed(s5', s6')
  <2>1. ASSUME NEW l \in Opt!Labels \ Opt!About(Opt!W("Call"))
        PROVE  Opt!Look(l, s5, s6) = Opt!Look(l, s5', s6')
    <3>1. l[2] # Opt!W("Call")
      BY <2>1 DEF Opt!About
    <3>2. s5'[Opt!Txt] = s5[Opt!Txt] /\ s6' = s6
      BY <1>1, <1>2, <1>5, <1>6, NameParts, ClickIs
    <3> QED BY <3>1, <3>2, LookSame
  <2> QED BY <2>1, <1>1, LooksTrue DEF Opt!Tended
<1>13. s8' = Opt!Shown(s3')
  <2>1. \A l \in Opt!Labels : Opt!Visible(l, s3) <=> Opt!Visible(l, s3')
    BY <1>3, <1>6, VisibleFollows
  <2> QED BY <1>1, <2>1 DEF Opt!Tended, Opt!Shown
<1>14. ASSUME Opt!Decorated, ~(s3[o] /\ s1[o]) PROVE Opt!Decorated'
  <2>1. s3[o] = s5[o] /\ s3[other] = s5[other] /\ ~s5[other] /\ (s1[other] => s5[other])
    BY <1>2, <1>9, <1>14 DEF Opt!Decorated
  <2>2. /\ s3'[o] = ~s3[o] /\ s5'[o] = ~s3[o] /\ s3'[other] = (s3[o] /\ s1[other])
        /\ s5'[other] = s5[other] /\ s4'[other] = s3[o]
    BY <1>2, <1>3, <1>4, <1>5
  <2>3. ~s3'[other] /\ ~s5'[other] /\ s3[other] \in BOOLEAN /\ s5[other] \in BOOLEAN
    BY <1>2, <2>1, <2>2 DEF Opt!TypeOK
  <2>4. s3'[other] = s5'[other] /\ s3'[o] = s5'[o]
    BY <2>1, <2>2, <2>3
  <2>5. s1'[o] => s5'[o]
    BY <1>9, <1>14, <2>2
  <2>6. s1'[other] => s5'[other]
    BY <1>9, <2>1, <2>2
  <2>7. ~(s5'[o] /\ s5'[other]) /\ (s4'[o] => ~s5'[other]) /\ (s4'[other] => ~s5'[o])
    BY <2>2, <2>3
  <2> QED BY <1>2, <2>4, <2>5, <2>6, <2>7 DEF Opt!Decorated
<1> QED BY <1>11, <1>12, <1>13, <1>14 DEF Opt!Tended

\* What can be new: the boxes for its bands are as in force, or off, and those of worked
\* calls follow their members.
LEMMA NewClicked ==
  ASSUME Opt!TypeOK, Opt!Tended, NEW k \in News, Opt!new_clicked(k)
  PROVE  Opt!Tended' /\ (Opt!Decorated => Opt!Decorated')
<1> DEFINE o == Opt!New(k)
           v == ~s3[o]
           n == [x \in Opt!Options |->
                   IF x = o THEN v ELSE IF x \in {Opt!Band(k), Opt!BandMode(k)} THEN v /\ s1[x] ELSE s5[x]]
           b == [x \in Opt!Options |->
                   IF x \in Opt!Children(o) THEN v /\ s1[x]
                   ELSE IF x \in Opt!Worked THEN n[x] /\ Opt!Allowed(x, n) ELSE s3[x]]
           e == [x \in Opt!Options |->
                   IF x \in Opt!Children(o) THEN v
                   ELSE IF x \in Opt!Worked THEN Opt!Allowed(x, n) ELSE s4[x]]
           labels == Opt!About(Opt!New(k)) \cup Opt!About(Opt!Band(k)) \cup Opt!About(Opt!W("Call"))
<1>1. /\ s9 /\ s9' = s9 /\ s5' = n /\ s3' = Opt!Tick(o, b) /\ s4' = e /\ s7' = s7 /\ s1' = s1
      /\ s2' = s2 /\ s6' = s6 /\ Opt!Reshown(labels)
  BY DEF Opt!new_clicked, Opt!inForce
<1>2. o \in Opt!Parents /\ o \in Opt!Options /\ o[1] = "new"
  BY NameParts, OptionNames
<1>3. \A x \in Opt!Options :
        n[x] = IF x = o THEN ~s3[o] ELSE IF x \in {Opt!Band(k), Opt!BandMode(k)} THEN ~s3[o] /\ s1[x]
               ELSE s5[x]
  OBVIOUS
<1>4. \A x \in Opt!Options :
        s3'[x] = IF x = o THEN ~s3[o] ELSE IF x \in Opt!Children(o) THEN ~s3[o] /\ s1[x]
                 ELSE IF x \in Opt!Worked THEN n[x] /\ Opt!Allowed(x, n) ELSE s3[x]
  <2> HIDE DEF n
  <2>1. \A x \in Opt!Options :
          b[x] = IF x \in Opt!Children(o) THEN ~s3[o] /\ s1[x]
                 ELSE IF x \in Opt!Worked THEN n[x] /\ Opt!Allowed(x, n) ELSE s3[x]
    OBVIOUS
  <2> HIDE DEF b
  <2> QED BY <1>1, <2>1, TickIs
<1>5. \A x \in Opt!Options :
        s4'[x] = IF x \in Opt!Children(o) THEN ~s3[o]
                 ELSE IF x \in Opt!Worked THEN Opt!Allowed(x, n) ELSE s4[x]
  <2> HIDE DEF n
  <2> QED BY <1>1
<1> HIDE DEF n, b, e
<1>6. {Opt!Band(k), Opt!BandMode(k)} \subseteq Opt!Children(o)
  BY <1>2, NameParts DEF Opt!Children
<1>7. \A x \in Opt!Worked : /\ x \in Opt!Options /\ x # o /\ x \notin Opt!Children(o)
                           /\ s3'[x] = (n[x] /\ Opt!Allowed(x, n)) /\ n[x] = s5[x]
                           /\ s4'[x] = Opt!Allowed(x, n)
  <2>1. \A x \in Opt!Worked : x \in Opt!Options /\ x # o /\ x \notin Opt!Children(o)
    BY <1>2, OptionNames
  <2> QED BY <1>3, <1>4, <1>5, <1>6, <2>1
<1>8. \A p \in Opt!Parents : s3'[p] = IF p = o THEN ~s3[o] ELSE s3[p]
  BY <1>4, OptionNames
<1>9. \A q \in News : s3'[Opt!New(q)] = n[Opt!New(q)]
  <2> SUFFICES ASSUME NEW q \in News PROVE s3'[Opt!New(q)] = n[Opt!New(q)]
    OBVIOUS
  <2>1. Opt!New(q) \in Opt!Parents /\ Opt!New(q) \in Opt!Options /\ Opt!New(q) \in Opt!Followed
    BY NameParts, OptionNames
  <2>2. Opt!New(q) \notin {Opt!Band(k), Opt!BandMode(k)}
    BY NameParts
  <2>3. s5[Opt!New(q)] = s3[Opt!New(q)]
    BY <2>1 DEF Opt!Tended, Opt!InStep
  <2> QED BY <1>3, <1>8, <2>1, <2>2, <2>3
<1>10. Opt!AnyNew(s3') <=> Opt!AnyNew(n)
  BY <1>9, AnyNewSame
<1>11. Dependent(s3) /\ Marked(s3) /\ Decided(s3) /\ Exclusive(s3)
  BY CoherentParts DEF Opt!Tended, Opt!InStep
<1>12. Opt!Coherent(s3')
  <2>1. Dependent(s3')
    <3> SUFFICES ASSUME NEW p \in Opt!Parents, NEW x \in Opt!Children(p), s3'[x] PROVE s3'[p]
      BY DEF Dependent
    <3>1. x \in Opt!Options /\ x # o /\ x \notin Opt!Worked
      BY <1>2, OptionNames
    <3>2. CASE p = o
      BY <3>1, <3>2, <1>2, <1>4
    <3>3. CASE p # o
      BY <3>1, <3>3, <1>2, <1>4, <1>8, <1>11, OneParent DEF Dependent
    <3> QED BY <3>2, <3>3
  <2>2. Marked(s3')
    BY <1>7, <1>10 DEF Marked, Opt!Allowed
  <2>3. Decided(s3')
    BY <1>7, OptionNames DEF Decided, Opt!Allowed
  <2>4. Exclusive(s3')
    <3>1. \A pair \in Opt!Pairs : \A x \in pair : s3'[x] = s3[x]
      <4> SUFFICES ASSUME NEW pair \in Opt!Pairs, NEW x \in pair PROVE s3'[x] = s3[x]
        OBVIOUS
      <4>1. x \in Opt!Options /\ x # o /\ x \notin Opt!Worked /\ x \notin Opt!Children(o)
        BY <1>2, OptionNames
      <4> QED BY <4>1, <1>4
    <3> QED BY <3>1, <1>11 DEF Exclusive
  <2> QED BY <2>1, <2>2, <2>3, <2>4, CoherentParts
<1>13. \A x \in Opt!Followed : s5'[x] = s3'[x]
  <2> SUFFICES ASSUME NEW x \in Opt!Followed PROVE s5'[x] = s3'[x]
    OBVIOUS
  <2>1. x \in Opt!Options /\ x \notin Opt!Worked /\ s5[x] = s3[x]
    BY OptionNames DEF Opt!Tended, Opt!InStep
  <2>2. CASE x \in {o, Opt!Band(k), Opt!BandMode(k)}
    BY <2>1, <2>2, <1>1, <1>3, <1>4, <1>6
  <2>3. CASE x \notin {o, Opt!Band(k), Opt!BandMode(k)}
    <3>1. x[1] # "beep"
      BY OptionNames
    <3>2. x \notin Opt!Children(o)
      BY <2>3, <3>1, <1>2, NameParts DEF Opt!Children
    <3> QED BY <2>1, <2>3, <3>2, <1>1, <1>3, <1>4
  <2> QED BY <2>2, <2>3
<1>14. Opt!InStep'
  <2>1. Opt!Enabled'
    <3> SUFFICES ASSUME NEW x \in Opt!Options, s4'[x]
                 PROVE  /\ \A p \in Opt!Parents : x \in Opt!Children(p) => s3'[p]
                        /\ x \in Opt!Worked => Opt!AnyNew(s3')
      BY DEF Opt!Enabled
    <3>1. x \in Opt!Worked => Opt!AnyNew(s3')
      BY <1>7, <1>10 DEF Opt!Allowed
    <3>2. ASSUME NEW p \in Opt!Parents, x \in Opt!Children(p) PROVE s3'[p]
      <4>1. x \notin Opt!Worked
        BY <3>2, OptionNames
      <4>2. CASE p = o
        BY <4>2, <3>2, <1>2, <1>5, <1>8
      <4>3. CASE p # o
        BY <4>1, <4>3, <3>2, <1>2, <1>5, <1>8, OneParent DEF Opt!Enabled, Opt!Tended, Opt!InStep
      <4> QED BY <4>2, <4>3
    <3> QED BY <3>1, <3>2
  <2>2. Opt!AnyNew(s3') => s5'[Opt!W("Color")] = s3'[Opt!W("Color")]
    <3>1. Opt!W("Color") # Opt!W("Striked") /\ Opt!W("Color") # Opt!W("Underlined")
      BY OptionNames
    <3>2. \A p \in Opt!Parents : Opt!W("Color") \notin Opt!Children(p)
      BY OptionNames, NameParts
    <3>3. Opt!AnyNew(n) => Opt!Allowed(Opt!W("Color"), n)
      BY <3>1, <3>2 DEF Opt!Allowed
    <3>4. n[Opt!W("Color")] \in BOOLEAN
      BY <1>7, OptionNames DEF Opt!TypeOK
    <3> QED BY <1>1, <1>7, <1>10, <3>3, <3>4, OptionNames
  <2>3. Opt!Coherent(s1')
    BY <1>1 DEF Opt!Tended, Opt!InStep
  <2> QED BY <1>1, <1>12, <1>13, <2>1, <2>2, <2>3 DEF Opt!InStep
<1>15. s7' = Opt!Dressed(s5', s6')
  <2>1. Opt!Txt \notin {o, Opt!Band(k), Opt!BandMode(k)}
    BY NameParts
  <2>2. s5'[Opt!Txt] = s5[Opt!Txt] /\ \A x \in Opt!Worked : s5'[x] = s5[x]
    BY <2>1, <1>1, <1>3, <1>7, NameParts
  <2>3. \A l \in Opt!Labels : Opt!Look(l, s5, s6) = Opt!Look(l, s5', s6')
    BY <1>1, <2>2, OptionNames, LookSame
  <2> QED BY <2>3, <1>1, LooksKept DEF Opt!Tended
<1>16. s8' = Opt!Shown(s3')
  <2>1. \A l \in Opt!Labels : Opt!Visible(l, s5') <=> Opt!Visible(l, s3')
    BY <1>13, VisibleFollows
  <2>2. ASSUME NEW l \in Opt!Labels \ labels PROVE Opt!Visible(l, s3) <=> Opt!Visible(l, s3')
    <3>1. l[2] # Opt!New(k) /\ l[2] # Opt!Band(k) /\ l[2] # Opt!W("Call")
      BY <2>2 DEF Opt!About
    <3>2. ASSUME NEW x \in Opt!Followed, x \notin {o, Opt!Band(k), Opt!BandMode(k)}
          PROVE  s3[x] = s3'[x]
      <4>1. x \in Opt!Options /\ x \notin Opt!Worked /\ s5[x] = s3[x]
        BY OptionNames DEF Opt!Tended, Opt!InStep
      <4> QED BY <3>2, <4>1, <1>1, <1>3, <1>13
    <3>3. s3[Opt!Potential] = s3'[Opt!Potential]
      BY <3>2, NameParts
    <3>4. \A q \in News : l[2] = Opt!New(q) => s3[l[2]] = s3'[l[2]]
      BY <3>1, <3>2, NameParts
    <3>5. \A q \in News : l[2] = Opt!Band(q) =>
            s3[l[2]] = s3'[l[2]] /\ s3[Opt!BandMode(q)] = s3'[Opt!BandMode(q)]
      BY <3>1, <3>2, NameParts
    <3> QED BY <3>1, <3>3, <3>4, <3>5, VisibleSame
  <2>3. labels \subseteq Opt!Labels
    BY DEF Opt!About
  <2>4. s8 = Opt!Shown(s3) /\ Opt!Reshown(labels)
    BY <1>1 DEF Opt!Tended
  <2> HIDE DEF labels
  <2> QED BY <2>1, <2>2, <2>3, <2>4, ShownTrue
<1>17. ASSUME Opt!Decorated PROVE Opt!Decorated'
  <2>1. ASSUME NEW x \in Opt!Decorations, NEW y \in Opt!Decorations, x # y
        PROVE  ~(s5'[x] /\ s5'[y]) /\ (s4'[x] => ~s5'[y]) /\ (Opt!AnyNew(s3') => s5'[x] = s3'[x])
    <3>1. x \in Opt!Worked /\ y \in Opt!Worked /\ s5'[x] = s5[x] /\ s5'[y] = s5[y] /\ s5' = n
      BY <1>1, <1>7, OptionNames
    <3>2. ~(s5[x] /\ s5[y])
      BY <1>17, <2>1 DEF Opt!Decorated
    <3>3. {x, y} = {Opt!W("Striked"), Opt!W("Underlined")}
      BY <2>1 DEF Opt!Decorations, Opt!Of, Opt!W
    <3>4. Opt!Allowed(x, n) => ~n[y]
      BY <2>1, <3>3 DEF Opt!Allowed
    <3>5. \A p \in Opt!Parents : x \notin Opt!Children(p)
      BY <3>1, OptionNames
    <3>6. Opt!AnyNew(n) /\ ~n[y] => Opt!Allowed(x, n)
      BY <2>1, <3>3, <3>5 DEF Opt!Allowed
    <3>7. s5[x] \in BOOLEAN
      BY <3>1, <1>7 DEF Opt!TypeOK
    <3> QED BY <1>7, <1>10, <3>1, <3>2, <3>4, <3>6, <3>7
  <2>2. \A x \in Opt!Decorations : s1'[x] => s5'[x]
    BY <1>1, <1>7, <1>17, OptionNames DEF Opt!Decorated
  <2>3. \A x \in Opt!Decorations : \E y \in Opt!Decorations : x # y
    BY OptionNames DEF Opt!W
  <2> QED BY <2>1, <2>2, <2>3 DEF Opt!Decorated
<1> QED BY <1>14, <1>15, <1>16, <1>17 DEF Opt!Tended

\* A colour is chosen: only the labels it appears in look different.
LEMMA ColourChosen ==
  ASSUME Opt!TypeOK, Opt!Tended, NEW p \in Palette, NEW c \in Opt!Colours, Opt!Recoloured(c, p)
  PROVE  Opt!Tended' /\ (Opt!Decorated => Opt!Decorated')
<1>1. /\ s9 /\ s9' = s9 /\ s6' = [s6 EXCEPT ![c] = p] /\ s5' = s5 /\ Opt!Redressed(Opt!About(c))
      /\ s1' = s1 /\ s2' = s2 /\ s3' = s3 /\ s4' = s4 /\ s8' = s8
  BY DEF Opt!Recoloured, Opt!inForce
<1>2. Opt!InStep'
  BY <1>1 DEF Opt!Tended, Opt!InStep, Opt!Enabled
<1>3. \A x : x # c => s6'[x] = s6[x]
  BY <1>1 DEF Opt!TypeOK
<1>4. ASSUME NEW l \in Opt!Labels \ Opt!About(c) PROVE Opt!Look(l, s5, s6) = Opt!Look(l, s5', s6')
  <2>1. c # l /\ c # l[2] /\ ~(c[1] = "back" /\ c[2] = l[1])
    BY <1>4 DEF Opt!About
  <2>2. <<"back", l[1]>>[1] = "back" /\ <<"back", l[1]>>[2] = l[1]
    OBVIOUS
  <2>3. c # <<"back", l[1]>>
    BY <2>1, <2>2
  <2> QED BY <1>1, <1>3, <2>1, <2>3 DEF Opt!Look
<1>5. s7' = Opt!Dressed(s5', s6')
  BY <1>1, <1>4, LooksTrue DEF Opt!Tended
<1>6. s8' = Opt!Shown(s3')
  BY <1>1 DEF Opt!Tended
<1>7. ASSUME Opt!Decorated PROVE Opt!Decorated'
  BY <1>1, <1>7 DEF Opt!Decorated
<1> QED BY <1>2, <1>5, <1>6, <1>7 DEF Opt!Tended

\* The dialog is opened: its boxes are as in force already.
LEMMA OptOpened ==
  ASSUME Opt!TypeOK, Opt!Tended, Opt!exec
  PROVE  Opt!Tended' /\ (Opt!Decorated => Opt!Decorated')
<1>1. /\ ~s9 /\ s9' /\ s3' = Opt!Ticked(s1) /\ s5' = s1 /\ s7' = Opt!Dressed(s1, s2)
      /\ s8' = Opt!Shown(s1) /\ s4' = s4 /\ s6' = s6 /\ s1' = s1 /\ s2' = s2
  BY DEF Opt!exec, Opt!initialize_models, Opt!inForce
<1>2. s3 = s1 /\ s6 = s2 /\ s3' = s1
  BY <1>1, TickedCoherent DEF Opt!Tended, Opt!InStep, Opt!TypeOK
<1>3. Opt!InStep'
  BY <1>1, <1>2 DEF Opt!Tended, Opt!InStep, Opt!Enabled
<1>4. ASSUME Opt!Decorated PROVE Opt!Decorated'
  <2>1. Marked(s1) /\ Decided(s1)
    BY CoherentParts DEF Opt!Tended, Opt!InStep
  <2>2. Opt!Decorations = {Opt!W("Striked"), Opt!W("Underlined")}
    BY DEF Opt!Decorations, Opt!Of, Opt!W
  <2>3. \A o, other \in Opt!Decorations : o # other => ~(s1[o] /\ s1[other])
    BY <2>1, <2>2 DEF Decided
  <2>4. \A o, other \in Opt!Decorations : o # other => (s4[o] => ~s1[other])
    <3>1. CASE Opt!AnyNew(s3)
      BY <3>1, <1>2, <1>4 DEF Opt!Decorated
    <3>2. CASE ~Opt!AnyNew(s3)
      BY <3>2, <1>2, <2>1, OptionNames DEF Marked
    <3> QED BY <3>1, <3>2
  <2> QED BY <1>1, <1>2, <2>3, <2>4 DEF Opt!Decorated
<1> QED BY <1>1, <1>2, <1>3, <1>4 DEF Opt!Tended

LEMMA OptAccepted ==
  ASSUME Opt!TypeOK, Opt!Tended, Opt!accept
  PROVE  Opt!Tended' /\ (Opt!Decorated => Opt!Decorated')
<1>1. ~s9' /\ s1' = s3 /\ s2' = s6 /\ UNCHANGED <<s3, s4, s5, s6, s7, s8>>
  BY DEF Opt!accept, Opt!formVars
<1> QED BY <1>1 DEF Opt!Tended, Opt!InStep, Opt!Enabled, Opt!Decorated

\* The program starts with what it finds in the file.
LEMMA OptRestarted ==
  ASSUME Opt!TypeOK, Opt!Tended, Opt!restart
  PROVE  Opt!Tended' /\ Opt!Decorated'
<1>1. /\ ~s9' /\ s3' = Opt!Ticked(s1) /\ s4' = [o \in Opt!Options |-> Opt!Allowed(o, s1)]
      /\ s5' = s1 /\ s6' = s2 /\ s7' = Opt!Dressed(s1, s2)
      /\ s8' = Opt!Shown(s1) /\ s1' = s1 /\ s2' = s2
  BY DEF Opt!restart, Opt!inForce
<1>2. s3' = s1 /\ Opt!Coherent(s1)
  BY <1>1, TickedCoherent DEF Opt!Tended, Opt!InStep, Opt!TypeOK
<1>3. \A o \in Opt!Options : s4'[o] => Opt!Allowed(o, s1)
  BY <1>1
<1>4. Opt!Enabled'
  BY <1>2, <1>3 DEF Opt!Enabled, Opt!Allowed
<1>5. Opt!Tended'
  BY <1>1, <1>2, <1>4 DEF Opt!Tended, Opt!InStep
<1>6. Opt!Decorated'
  <2>1. Decided(s1)
    BY <1>2, CoherentParts
  <2>2. Opt!Decorations = {Opt!W("Striked"), Opt!W("Underlined")}
    BY DEF Opt!Decorations, Opt!Of, Opt!W
  <2>3. \A o, other \in Opt!Decorations : o # other => ~(s1[o] /\ s1[other])
    BY <2>1, <2>2 DEF Decided
  <2>4. \A o, other \in Opt!Decorations : o # other => (s4'[o] => ~s1[other])
    BY <1>3, <2>2, OptionNames DEF Opt!Allowed
  <2> QED BY <1>1, <1>2, <2>3, <2>4 DEF Opt!Decorated
<1> QED BY <1>5, <1>6

----------------------------------------------------------------------------
\* Every step keeps the boxes coherent and the labels in step with them.
LEMMA OptStep ==
  ASSUME Opt!OptionsInv, Opt!Next PROVE Opt!OptionsInv'
<1>1. Opt!TypeOK /\ Opt!TypeOK'
  BY OptTypes DEF Opt!OptionsInv
<1>2. s6' # s2' => s13' \/ (s9' /\ s12')
  <2>1. s6 # s2 => s13 \/ (s9 /\ s12)
    BY DEF Opt!OptionsInv
  <2>2. ASSUME NEW o, Opt!Click(o) PROVE UNCHANGED <<s2, s6, s9, s12, s13>>
    BY <2>2 DEF Opt!Click, Opt!inForce
  <2>3. CASE Opt!exec
    BY <2>1, <2>3 DEF Opt!exec, Opt!initialize_models, Opt!inForce
  <2>4. CASE Opt!accept
    BY <2>4 DEF Opt!accept, Opt!formVars
  <2>5. CASE Opt!reject
    BY <2>1, <2>5 DEF Opt!reject, Opt!initialize_models, Opt!inForce
  <2>6. CASE Opt!restart
    BY <2>6 DEF Opt!restart, Opt!inForce
  <2>7. ASSUME NEW k, Opt!new_clicked(k) PROVE UNCHANGED <<s2, s6, s9, s12, s13>>
    BY <2>7 DEF Opt!new_clicked, Opt!inForce, Opt!history
  <2>8. ASSUME NEW c, NEW p, Opt!Recoloured(c, p) PROVE s9' /\ s12'
    BY <2>8 DEF Opt!Recoloured
  <2> QED BY <2>1, <2>2, <2>3, <2>4, <2>5, <2>6, <2>7, <2>8
      DEF Opt!Next, Opt!country_clicked, Opt!txtColor_clicked, Opt!newPotential_clicked,
          Opt!decoration_clicked, Opt!band_clicked, Opt!worked_clicked, Opt!box_clicked,
          Opt!pair_clicked, Opt!back_chosen, Opt!new_chosen, Opt!worked_chosen
<1>3. CASE Opt!reject
  <2>1. s11'
    BY <1>3 DEF Opt!reject
  <2> QED BY <1>1, <1>2, <2>1 DEF Opt!OptionsInv
<1>4. CASE ~Opt!reject
  <2> DEFINE Kept == /\ ~s11' => ~s11 /\ (Opt!Tended => Opt!Tended')
                     /\ ~s11' /\ ~s14' /\ Opt!Tended => Opt!Decorated' \/ (~s14 /\ (Opt!Decorated => Opt!Decorated'))
  <2>1. SUFFICES Kept
    BY <1>1, <1>2 DEF Opt!OptionsInv
  <2> USE <1>1
  <2>2. CASE Opt!exec
    BY <2>2, OptOpened DEF Opt!exec
  <2>3. CASE Opt!accept
    BY <2>3, OptAccepted DEF Opt!accept
  <2>4. CASE Opt!restart
    BY <2>4, OptRestarted DEF Opt!restart
  <2>5. CASE Opt!country_clicked
    BY <2>5, CountryClicked DEF Opt!country_clicked, Opt!Click
  <2>6. CASE Opt!txtColor_clicked
    BY <2>6, TxtColorClicked DEF Opt!txtColor_clicked, Opt!Click
  <2>7. CASE Opt!newPotential_clicked
    BY <2>7, PotentialClicked DEF Opt!newPotential_clicked, Opt!Click
  <2>8. ASSUME NEW o \in Opt!Decorations, NEW other \in Opt!Decorations, o # other,
               Opt!decoration_clicked(o, other)
        PROVE  Kept
    <3>1. s11' = s11 /\ s14' = (s14 \/ (s3[o] /\ s1[o]))
      BY <2>8 DEF Opt!decoration_clicked, Opt!Click
    <3>2. s14' <=> s14 \/ (s3[o] /\ s1[o])
      BY <3>1
    <3> QED BY <2>8, <3>1, <3>2, DecorationClicked
  <2>9. ASSUME NEW k \in News, Opt!new_clicked(k) PROVE Kept
    BY <2>9, NewClicked DEF Opt!new_clicked, Opt!history
  <2>10. ASSUME NEW o \in Opt!Options, Opt!band_clicked(o) PROVE Kept
    BY <2>10, BandClicked DEF Opt!band_clicked, Opt!Click
  <2>11. ASSUME NEW o \in Opt!Options, Opt!worked_clicked(o) PROVE Kept
    BY <2>11, WorkedClicked DEF Opt!worked_clicked, Opt!Click
  <2>12. ASSUME NEW o \in Opt!Options, Opt!box_clicked(o) PROVE Kept
    BY <2>12, BoxClicked DEF Opt!box_clicked, Opt!Click
  <2>13. ASSUME NEW pair \in Opt!Pairs, NEW o \in pair, NEW other \in pair, o # other,
                Opt!pair_clicked(o, other)
         PROVE  Kept
    BY <2>13, PairClicked DEF Opt!pair_clicked, Opt!Click
  <2>14. ASSUME NEW c \in Opt!Colours, NEW p \in Palette, Opt!Recoloured(c, p) PROVE Kept
    BY <2>14, ColourChosen DEF Opt!Recoloured
  <2>15. /\ \A k \in Backs : <<"back", k>> \in Opt!Colours
         /\ \A k \in News : Opt!New(k) \in Opt!Colours /\ Opt!Band(k) \in Opt!Colours
         /\ Opt!W("Call") \in Opt!Colours
    BY DEF Opt!Colours, Opt!Of, Opt!New, Opt!Band
  <2>16. Opt!W("Striked") # Opt!W("Underlined")
    BY DEF Opt!W
  <2> HIDE DEF Kept
  <2> QED BY <1>4, <2>2, <2>3, <2>4, <2>5, <2>6, <2>7, <2>8, <2>9, <2>10, <2>11, <2>12, <2>13,
             <2>14, <2>15, <2>16, OptionNames
      DEF Opt!Next, Opt!back_chosen, Opt!new_chosen, Opt!worked_chosen
<1> QED BY <1>3, <1>4

\* What the properties say follows.
LEMMA OptShows ==
  ASSUME Opt!OptionsInv PROVE Opt!Consistent /\ Opt!PreviewTrue
<1>1. Opt!Consistent
  BY DEF Opt!OptionsInv, Opt!Consistent, Opt!Tended, Opt!InStep
<1>2. ASSUME s9, ~s11, ~s14 PROVE s8 = Opt!Shown(s3) /\ \A l \in s8 : s7[l] = Opt!Look(l, s3, s6)
  <2>1. Opt!Tended /\ Opt!Decorated
    BY <1>2 DEF Opt!OptionsInv
  <2>2. s8 = Opt!Shown(s3) /\ s7 = Opt!Dressed(s5, s6)
    BY <2>1 DEF Opt!Tended
  <2>3. ASSUME NEW l \in s8 PROVE s7[l] = Opt!Look(l, s3, s6)
    <3>1. l \in Opt!Labels /\ Opt!Visible(l, s3) /\ s7[l] = Opt!Look(l, s5, s6)
      BY <2>2, <2>3 DEF Opt!Shown, Opt!Dressed
    <3>2. s5[Opt!Txt] = s3[Opt!Txt]
      BY <2>1, NameParts DEF Opt!Tended, Opt!InStep
    <3>3. ASSUME l[1] # "back", l[2] = Opt!W("Call") PROVE Opt!AnyNew(s3)
      <4>1. l[2][1] = "worked"
        BY <3>3, NameParts
      <4> QED BY <3>1, <3>3, <4>1 DEF Opt!Visible
    <3>4. l[1] # "back" /\ l[2] = Opt!W("Call") =>
            /\ s5[Opt!W("Color")] = s3[Opt!W("Color")]
            /\ \A o \in Opt!Decorations : s5[o] = s3[o]
      BY <2>1, <3>3 DEF Opt!Tended, Opt!InStep, Opt!Decorated
    <3>5. Opt!Look(l, s5, s6) = Opt!Look(l, s3, s6)
      BY <3>1, <3>2, <3>4, LookSame
    <3> QED BY <3>1, <3>5
  <2> QED BY <2>2, <2>3
<1> QED BY <1>1, <1>2 DEF Opt!PreviewTrue

LEMMA OptAtOK ==
  ASSUME Opt!OptionsInv, Opt!Next PROVE Opt!ChosenAtOK
<1>1. ASSUME s2' # s2 PROVE s12 \/ s13
  <2>1. Opt!accept
    BY <1>1 DEF Opt!Next, Opt!exec, Opt!reject, Opt!restart, Opt!inForce, Opt!country_clicked,
          Opt!txtColor_clicked, Opt!newPotential_clicked, Opt!decoration_clicked, Opt!band_clicked,
          Opt!worked_clicked, Opt!box_clicked, Opt!pair_clicked, Opt!back_chosen, Opt!new_chosen,
          Opt!worked_chosen, Opt!Click, Opt!new_clicked, Opt!Recoloured
  <2> QED BY <1>1, <2>1 DEF Opt!accept, Opt!OptionsInv
<1> QED BY <1>1 DEF Opt!ChosenAtOK

----------------------------------------------------------------------------
\* The settings that stand for themselves.
LEMMA StoreInitial ==
  ASSUME Store!Init PROVE Store!StoreInv
<1> USE MCAssumption DEF MCAssumption, Store!StoreAssumption
<1>1. s1 \in [Fields -> Values] /\ s2 = s1 /\ s3 \in [Fields -> Values \cup {Store!Unset}]
      /\ s4 \in [Announced -> Values] /\ s12 \subseteq Fields
  BY DEF Store!Init
<1>2. Store!DialogTrue
  BY <1>1 DEF Store!Init, Store!DialogTrue
<1> QED BY <1>1, <1>2 DEF Store!Init, Store!StoreInv

LEMMA StoreHolds ==
  ASSUME Store!StoreInv, Store!Next PROVE Store!StoreInv' /\ Store!KeptAtStart
<1> USE MCAssumption DEF MCAssumption, Store!StoreAssumption
<1>t. /\ s1 \in [Fields -> Values] /\ s2 \in [Fields -> Values] /\ s3 \in [Fields -> Values \cup {Store!Unset}]
      /\ s4 \in [Announced -> Values] /\ s12 \subseteq Fields
      /\ s10 => \A f \in Fields \ s12 : s2[f] = s1[f]
      /\ \A f \in Announced : s4[f] = s1[f]
      /\ \A x \in Fields : s1[x] = IF s3[x] = Store!Unset THEN Default ELSE s3[x]
      /\ s5 # s7 => s13
  BY DEF Store!StoreInv, Store!DialogTrue
<1>i. ASSUME s1' \in [Fields -> Values], s2' \in [Fields -> Values],
             s3' \in [Fields -> Values \cup {Store!Unset}], s4' \in [Announced -> Values],
             s12' \subseteq Fields, s10' => \A f \in Fields \ s12' : s2'[f] = s1'[f],
             \A f \in Announced : s4'[f] = s1'[f],
             \A x \in Fields : s1'[x] = IF s3'[x] = Store!Unset THEN Default ELSE s3'[x],
             s5' # s7' => s13'
      PROVE  Store!StoreInv'
  BY <1>i DEF Store!StoreInv, Store!DialogTrue
\* A start with the values of the file, or with those in force.
<1>r. ASSUME NEW f \in [Fields -> Values \cup {Store!Unset}], NEW m, Store!read_settings(f, m),
             \A x \in Fields : s1[x] = IF f[x] = Store!Unset THEN Default ELSE f[x],
             s3' = f, s7' = m
      PROVE  Store!StoreInv' /\ s1' = s1 /\ s5' = m
  <2>1. s1' = [x \in Fields |-> IF f[x] = Store!Unset THEN Default ELSE f[x]]
    BY <1>r DEF Store!read_settings
  <2>2. s1' = s1
    BY <2>1, <1>r, <1>t
  <2>3. /\ s2' = s1' /\ s4' = [x \in Announced |-> s1'[x]] /\ s5' = m /\ s12' = {} /\ ~s10'
    BY <1>r DEF Store!read_settings
  <2>4. s4' \in [Announced -> Values] /\ \A x \in Announced : s4'[x] = s1'[x]
    BY <2>2, <2>3, <1>t
  <2> QED BY <2>2, <2>3, <2>4, <1>r, <1>t, <1>i
<1>1. CASE Store!exits
  <2>1. /\ s3' = s1 /\ s7' = s5 /\ Store!read_settings(s1, s5)
    BY <1>1 DEF Store!exits, Store!write_settings
  <2>2. \A x \in Fields : s1[x] # Store!Unset
    BY <1>t
  <2> QED BY <2>1, <2>2, <1>r, <1>t DEF Store!KeptAtStart
<1>2. CASE Store!crashes
  <2>1. s3' = s3 /\ s7' = s7 /\ Store!read_settings(s3, s7)
    BY <1>2 DEF Store!crashes
  <2>2. Store!StoreInv' /\ s1' = s1 /\ s5' = s7
    BY <2>1, <1>r, <1>t
  <2> QED BY <2>2, <1>2, <1>t DEF Store!KeptAtStart
<1>3. CASE ~Store!exits /\ ~Store!crashes
  <2>0. Store!KeptAtStart
    BY <1>3 DEF Store!KeptAtStart
  <2>1. CASE Store!exec \/ Store!reject
    BY <2>0, <2>1, <1>t, <1>i DEF Store!exec, Store!reject, Store!initialize_models
  <2>2. CASE Store!macros_edited
    BY <2>0, <2>2, <1>t, <1>i DEF Store!macros_edited
  <2>3. CASE Store!accept
    <3>1. /\ ~s10' /\ s1' = s2 /\ s3' = s2 /\ s7' = s5' /\ s2' = s2 /\ s12' = s12
          /\ s4' = [x \in Announced |-> IF s2[x] # s1[x] THEN s2[x] ELSE s4[x]]
      BY <2>3 DEF Store!accept, Store!write_settings
    <3>2. s4' \in [Announced -> Values] /\ \A f \in Announced : s4'[f] = s1'[f]
      BY <3>1, <1>t
    <3>3. \A x \in Fields : s2[x] # Store!Unset
      BY <1>t
    <3> QED BY <2>0, <3>1, <3>2, <3>3, <1>t, <1>i
  <2>4. CASE Store!dxCallEntry_changed
    BY <2>0, <2>4, <1>t, <1>i DEF Store!dxCallEntry_changed
  <2>5. ASSUME NEW f \in Fields, NEW v \in Values, Store!edited(f, v) PROVE Store!StoreInv'
    <3>1. /\ s2' = [s2 EXCEPT ![f] = v] /\ s12' = s12 \cup {f} /\ s10' = s10 /\ s10
          /\ UNCHANGED <<s1, s3, s4, s5, s7, s13>>
      BY <2>5 DEF Store!edited
    <3>2. s2' \in [Fields -> Values] /\ \A x \in Fields \ s12' : s2'[x] = s2[x]
      BY <3>1, <1>t
    <3> QED BY <3>1, <3>2, <1>t, <1>i
  <2>6. ASSUME NEW m, Store!message_entered(m) PROVE Store!StoreInv'
    BY <2>6, <1>t, <1>i DEF Store!message_entered
  <2> QED BY <1>3, <2>0, <2>1, <2>2, <2>3, <2>4, <2>5, <2>6 DEF Store!Next
<1> QED BY <1>1, <1>2, <1>3

----------------------------------------------------------------------------
\* Sound.
LEMMA SoundInitial ==
  ASSUME Sound!Init PROVE Sound!SoundInv
<1>1. PICK d \in Devices, c \in Channels :
        /\ s1 = Devices /\ s2 \in Devices /\ s5 = [name |-> d, channel |-> c] /\ s3 = d /\ s4 = c
        /\ s6 = d /\ s7 = c /\ s8 = FALSE /\ s9 = FALSE /\ s10 = s5 /\ s11 = FALSE /\ s12 = 0
        /\ s13 = FALSE /\ s14 = FALSE
  BY DEF Sound!Init
<1>2. s5 \in [name : Devices, channel : Channels] /\ s12 \in 0..MaxEdits
  BY <1>1, MCAssumption DEF MCAssumption, Sound!SoundAssumption
<1>3. Sound!TypeOK
  BY <1>1, <1>2 DEF Sound!TypeOK
<1> QED BY <1>1, <1>3 DEF Sound!SoundInv, Sound!StreamAsSet

LEMMA SoundHolds ==
  ASSUME Sound!SoundInv, Sound!Next PROVE Sound!SoundInv' /\ Sound!KeptAtStart
<1>t. /\ s1 \subseteq Devices /\ s2 \in Devices /\ s3 \in Devices /\ s6 \in Devices
      /\ s4 \in Channels /\ s7 \in Channels /\ MaxEdits \in Nat
      /\ s5 \in [name : Devices, channel : Channels] /\ s10 \in [name : Devices, channel : Channels]
      /\ s8 \in BOOLEAN /\ s9 \in BOOLEAN /\ s11 \in BOOLEAN /\ s13 \in BOOLEAN /\ s14 \in BOOLEAN
      /\ s12 \in 0..MaxEdits
      /\ s10 = [name |-> s3, channel |-> s4]
      /\ s8 => s6 = s2
      /\ ~s13 /\ ~s14 => s5 = [name |-> s3, channel |-> s4]
      /\ ~s11 /\ ~s13 /\ ~s14 => s6 = s3
  BY MCAssumption DEF MCAssumption, Sound!SoundAssumption, Sound!SoundInv, Sound!TypeOK, Sound!StreamAsSet
<1>i. ASSUME s1' \subseteq Devices, s2' \in Devices, s3' \in Devices, s6' \in Devices,
             s4' \in Channels, s7' \in Channels, s8' \in BOOLEAN, s9' \in BOOLEAN, s11' \in BOOLEAN,
             s13' \in BOOLEAN, s14' \in BOOLEAN, s12' \in 0..MaxEdits,
             s5' \in [name : Devices, channel : Channels], s10' = [name |-> s3', channel |-> s4'],
             s8' => s6' = s2', ~s13' /\ ~s14' => s5' = [name |-> s3', channel |-> s4'],
             ~s11' /\ ~s13' /\ ~s14' => s6' = s3'
      PROVE  Sound!SoundInv'
  <2>1. s10' \in [name : Devices, channel : Channels]
    BY <1>i
  <2>2. Sound!TypeOK'
    BY <1>i, <2>1 DEF Sound!TypeOK
  <2> QED BY <1>i, <2>2 DEF Sound!SoundInv, Sound!StreamAsSet
<1>1. ASSUME Sound!exec PROVE Sound!SoundInv'
  BY <1>1, <1>t, <1>i DEF Sound!exec, Sound!world, Sound!conf
<1>2. ASSUME Sound!accept PROVE Sound!SoundInv'
  <2>1. /\ s11' = FALSE /\ s3' = IF s6 = s3 THEN s3 ELSE IF s6 \in s1 THEN s6 ELSE s2
        /\ s4' = s7 /\ s9' = (s9 \/ (s6 # s3 \/ s7 # s4)) /\ s14' = FALSE
        /\ s10' = IF s9' THEN [name |-> s3', channel |-> s4'] ELSE s10
        /\ s5' = [name |-> IF s8 THEN s2 ELSE s3', channel |-> s4'] /\ s13' = (s6 # s3')
        /\ UNCHANGED <<s1, s2, s6, s7, s8, s12>>
    BY <1>2 DEF Sound!accept, Sound!Restarted, Sound!Written, Sound!world
  <2>2. /\ s3' \in Devices /\ s9' \in BOOLEAN /\ s13' \in BOOLEAN
        /\ s5' \in [name : Devices, channel : Channels]
    BY <2>1, <1>t
  <2>3. s10' = [name |-> s3', channel |-> s4']
    <3>1. CASE s9'
      BY <3>1, <2>1
    <3>2. CASE ~s9'
      <4>1. s6 = s3 /\ s7 = s4
        BY <3>2, <2>1
      <4> QED BY <4>1, <3>2, <2>1, <1>t
    <3> QED BY <3>1, <3>2
  <2>4. ~s13' => s5' = [name |-> s3', channel |-> s4']
    BY <2>1, <1>t
  <2> QED BY <2>1, <2>2, <2>3, <2>4, <1>t, <1>i
<1>3. ASSUME Sound!reject PROVE Sound!SoundInv'
  <2>1. /\ s11' = FALSE /\ s13' = (s13 \/ s6 # s3 \/ s7 # s4)
        /\ UNCHANGED <<s1, s2, s3, s4, s5, s6, s7, s8, s9, s10, s12, s14>>
    BY <1>3 DEF Sound!reject, Sound!world, Sound!conf
  <2>2. s13' \in BOOLEAN
    BY <2>1, <1>t
  <2>3. ~s13' => ~s13 /\ s6 = s3
    BY <2>1
  <2> QED BY <2>1, <2>2, <2>3, <1>t, <1>i
<1>4. CASE Sound!restarts
  <2>1. PICK f \in {Sound!Written(s3, s4), s5} : s5' = f /\ Sound!Loaded(f)
    BY <1>4 DEF Sound!restarts
  <2>2. /\ ~s11 /\ s11' = s11 /\ s1' \subseteq Devices /\ s2' \in s1' /\ s13' = FALSE
        /\ s12' \in {s12, s12 + 1} /\ (s12' # s12 => s12 < MaxEdits)
    BY <1>4 DEF Sound!restarts, Sound!world
  <2>3. f \in [name : Devices, channel : Channels]
    BY <2>1, <1>t DEF Sound!Written
  <2>4. /\ s3' = (IF f.name \in s1' THEN f.name ELSE s2') /\ s4' = f.channel /\ s6' = s3' /\ s7' = f.channel
        /\ s8' = (f.name \notin s1') /\ s14' = s8' /\ s9' = FALSE
        /\ s10' = [name |-> s3', channel |-> f.channel]
    BY <2>1 DEF Sound!Loaded
  <2>5. /\ s3' \in Devices /\ s6' \in Devices /\ s4' \in Channels /\ s7' \in Channels /\ s2' \in Devices
        /\ s8' \in BOOLEAN /\ s14' \in BOOLEAN /\ s9' \in BOOLEAN /\ s13' \in BOOLEAN
    BY <2>2, <2>3, <2>4
  <2>6. s12' \in 0..MaxEdits
    BY <2>2, <1>t
  <2>7. ~s14' => f = [name |-> s3', channel |-> s4']
    BY <2>3, <2>4
  <2>8. s8' => s6' = s2'
    BY <2>4
  <2>9. Sound!SoundInv'
    <3>1. s5' \in [name : Devices, channel : Channels] /\ s11' \in BOOLEAN
      BY <2>1, <2>2, <2>3, <1>t
    <3>2. ~s14' => s5' = [name |-> s3', channel |-> s4']
      BY <2>1, <2>7
    <3>3. s10' = [name |-> s3', channel |-> s4'] /\ s6' = s3'
      BY <2>4
    <3> QED BY <3>1, <3>2, <3>3, <2>2, <2>5, <2>6, <2>8, <1>i
  <2>10. ASSUME ~s13, ~s14, s3 \in s1' PROVE s3' = s3 /\ s4' = s4
    <3>1. s5 = [name |-> s3, channel |-> s4] /\ s6 = s3
      BY <2>10, <2>2, <1>t
    <3>2. Sound!Written(s3, s4) = [name |-> s3, channel |-> s4]
      BY <3>1, <1>t DEF Sound!Written
    <3>3. f = [name |-> s3, channel |-> s4]
      BY <2>1, <3>1, <3>2
    <3> QED BY <3>3, <2>4, <2>10
  <2> QED BY <2>9, <2>10 DEF Sound!KeptAtStart
<1>5. ASSUME NEW d \in Devices, Sound!device_chosen(d) PROVE Sound!SoundInv'
  <2>1. /\ s11 /\ s11' = s11 /\ s12' = s12 + 1 /\ s12 < MaxEdits /\ s6' = d /\ s8' = (d = s2)
        /\ UNCHANGED <<s1, s2, s3, s4, s5, s7, s9, s10, s13, s14>>
    BY <1>5 DEF Sound!device_chosen, Sound!Edit, Sound!world
  <2>2. s8' \in BOOLEAN /\ (s8' => s6' = s2')
    BY <2>1, Zenon
  <2>3. s12' \in 0..MaxEdits
    BY <2>1, <1>t
  <2> QED BY <2>1, <2>2, <2>3, <1>t, <1>i
<1>6. ASSUME NEW c \in Channels, Sound!channel_chosen(c) PROVE Sound!SoundInv'
  <2>1. /\ s11' = s11 /\ s12' = s12 + 1 /\ s12 < MaxEdits /\ s7' = c
        /\ UNCHANGED <<s1, s2, s3, s4, s5, s6, s8, s9, s10, s13, s14>>
    BY <1>6 DEF Sound!channel_chosen, Sound!Edit, Sound!world
  <2>2. s12' \in 0..MaxEdits
    BY <2>1, <1>t
  <2> QED BY <2>1, <2>2, <1>t, <1>i
<1>7. ~Sound!restarts => Sound!KeptAtStart
  BY DEF Sound!KeptAtStart
<1> QED BY <1>1, <1>2, <1>3, <1>4, <1>5, <1>6, <1>7 DEF Sound!Next
----------------------------------------------------------------------------
\* Steps that leave a part alone
LEMMA OptStutter ==
  ASSUME Opt!OptionsInv, UNCHANGED Opt!vars PROVE Opt!OptionsInv'
<1>1. UNCHANGED <<s1, s2, s3, s4, s5, s6, s7, s8, s9, s10, s11, s12, s13, s14>>
  BY DEF Opt!vars, Opt!inForce, Opt!formVars, Opt!history
<1>2. Opt!TypeOK' = Opt!TypeOK
  BY <1>1 DEF Opt!TypeOK
<1>3. Opt!Tended' = Opt!Tended
  BY <1>1 DEF Opt!Tended, Opt!InStep, Opt!Enabled
<1>4. Opt!Decorated' = Opt!Decorated
  BY <1>1 DEF Opt!Decorated
<1> QED BY <1>1, <1>2, <1>3, <1>4 DEF Opt!OptionsInv

LEMMA StoreStutter ==
  ASSUME Store!StoreInv, UNCHANGED Store!vars PROVE Store!StoreInv'
BY DEF Store!StoreInv, Store!vars, Store!DialogTrue

LEMMA SoundStutter ==
  ASSUME Sound!SoundInv, UNCHANGED Sound!vars PROVE Sound!SoundInv'
BY DEF Sound!SoundInv, Sound!vars, Sound!world, Sound!conf, Sound!TypeOK, Sound!StreamAsSet

----------------------------------------------------------------------------
\* The rig's page.  A widget is set, and nothing else.
FormFields == {"rig", "cat", "hw", "dtr", "rts", "method", "pport", "rear", "rest"}
LEMMA PutIs ==
  ASSUME NEW p \in Rig!Pages, NEW f \in FormFields, NEW v
  PROVE  LET q == Rig!Put(p, f, v) IN
         /\ q.on = p.on /\ q.last = p.last /\ q.form[f] = v
         /\ \A g \in FormFields \ {f} : q.form[g] = p.form[g]
BY DEF Rig!Put, Rig!Pages, FormFields, Rig!Forms

LEMMA PutPage ==
  ASSUME NEW p \in Rig!Pages
  PROVE  /\ \A v \in Rig!Rigs : Rig!Put(p, "rig", v) \in Rig!Pages
         /\ \A v \in Rig!Texts : Rig!Put(p, "cat", v) \in Rig!Pages
         /\ \A v \in BOOLEAN : \A f \in {"hw", "dtr", "rts", "rear"} : Rig!Put(p, f, v) \in Rig!Pages
         /\ \A v \in Rig!Methods : Rig!Put(p, "method", v) \in Rig!Pages
         /\ \A v \in Rig!Ports \cup {"", "CAT"} : Rig!Put(p, "pport", v) \in Rig!Pages
         /\ \A v \in 0..1 : Rig!Put(p, "rest", v) \in Rig!Pages
<1>1. ASSUME NEW f \in FormFields, NEW v, [p.form EXCEPT ![f] = v] \in Rig!Forms
      PROVE  Rig!Put(p, f, v) \in Rig!Pages
  BY <1>1 DEF Rig!Put, Rig!Pages
<1>2. p.form \in Rig!Forms
  BY DEF Rig!Pages
<1>3. \A v \in Rig!Rigs : [p.form EXCEPT !["rig"] = v] \in Rig!Forms
  BY <1>2 DEF Rig!Forms
<1>4. \A v \in Rig!Texts : [p.form EXCEPT !["cat"] = v] \in Rig!Forms
  BY <1>2 DEF Rig!Forms
<1>5. \A v \in BOOLEAN : [p.form EXCEPT !["hw"] = v] \in Rig!Forms
  BY <1>2 DEF Rig!Forms
<1>6. \A v \in BOOLEAN : [p.form EXCEPT !["dtr"] = v] \in Rig!Forms
  BY <1>2 DEF Rig!Forms
<1>7. \A v \in BOOLEAN : [p.form EXCEPT !["rts"] = v] \in Rig!Forms
  BY <1>2 DEF Rig!Forms
<1>8. \A v \in BOOLEAN : [p.form EXCEPT !["rear"] = v] \in Rig!Forms
  BY <1>2 DEF Rig!Forms
<1>9. \A v \in Rig!Methods : [p.form EXCEPT !["method"] = v] \in Rig!Forms
  BY <1>2 DEF Rig!Forms
<1>10. \A v \in Rig!Ports \cup {"", "CAT"} : [p.form EXCEPT !["pport"] = v] \in Rig!Forms
  BY <1>2 DEF Rig!Forms
<1>11. \A v \in 0..1 : [p.form EXCEPT !["rest"] = v] \in Rig!Forms
  BY <1>2 DEF Rig!Forms
<1> QED BY <1>1, <1>3, <1>4, <1>5, <1>6, <1>7, <1>8, <1>9, <1>10, <1>11 DEF FormFields

\* set_rig_invariants: what it leaves alone, what it shows and what it enables.
Shares(p) == p.form.pport = p.form.cat
LineFree(p) == ~(RigTypes[p.form.rig] = "serial" /\ Shares(p) /\ Rig!Hardware(p))
LEMMA SettledOn ==
  ASSUME NEW prm \in Rig!Params, NEW p \in Rig!Pages
  PROVE  LET q == Rig!Settled(prm, p) IN
         /\ q.on \in [Rig!Widgets -> BOOLEAN]
         /\ q.on["CAT"] = (p.form.rig \in CatPtt) /\ q.on["catItem"] = (p.form.rig \in Indirect)
         /\ q.on["RTS"] = LineFree(p)
         /\ p.form.rig = Rig!None => ~q.on["control"]
         /\ p.form.rig # Rig!None =>
              /\ q.on["control"]
              /\ q.on["serial"] = (RigTypes[p.form.rig] = "serial")
              /\ q.on["dtr"] = (RigTypes[p.form.rig] = "serial" /\ ~(Shares(p) /\ p.form.method = "DTR"))
              /\ q.on["rts"] = (/\ RigTypes[p.form.rig] = "serial" /\ ~Rig!Hardware(p)
                                /\ ~(Shares(p) /\ LineFree(p) /\ p.form.method = "RTS"))
<1>1. p.on \in [Rig!Widgets -> BOOLEAN] /\ p.form.rig \in Rig!Rigs
  BY DEF Rig!Pages, Rig!Forms
<1>2. CASE p.form.rig = Rig!None
  <2> DEFINE both == [w \in Rig!Widgets |->
                        CASE w = "CAT" -> p.form.rig \in CatPtt
                          [] w = "pport" -> p.form.method \notin {"CAT", "VOX"}
                          [] w = "catItem" -> p.form.rig \in Indirect
                          [] w = "RTS" -> LineFree(p)
                          [] OTHER -> p.on[w]]
  <2>1. Rig!Settled(prm, p).on = [both EXCEPT !["control"] = FALSE, !["source"] = FALSE]
    BY <1>2 DEF Rig!Settled, Shares, LineFree, Rig!Pages
  <2>2. both \in [Rig!Widgets -> BOOLEAN]
    <3>1. ASSUME NEW w \in Rig!Widgets PROVE both[w] \in BOOLEAN
      <4>1. CASE w = "CAT"
        BY <4>1
      <4>2. CASE w = "pport"
        BY <4>2
      <4>3. CASE w = "catItem"
        BY <4>3
      <4>4. CASE w = "RTS"
        BY <4>4 DEF LineFree
      <4>5. CASE w \notin {"CAT", "pport", "catItem", "RTS"}
        BY <4>5, <1>1
      <4> QED BY <4>1, <4>2, <4>3, <4>4, <4>5
    <3> QED BY <3>1
  <2>3. both["CAT"] = (p.form.rig \in CatPtt) /\ both["catItem"] = (p.form.rig \in Indirect)
        /\ both["RTS"] = LineFree(p)
    BY DEF Rig!Widgets
  <2> HIDE DEF both
  <2>4. {"control", "source", "CAT", "catItem", "RTS"} \subseteq Rig!Widgets
    BY DEF Rig!Widgets
  <2> QED BY <2>1, <2>2, <2>3, <2>4, <1>2
<1>3. CASE p.form.rig # Rig!None
  BY <1>1, <1>3 DEF Rig!Settled, Rig!Widgets, Shares, LineFree
<1> QED BY <1>2, <1>3

LEMMA SettledForm ==
  ASSUME NEW prm \in Rig!Params, NEW p \in Rig!Pages
  PROVE  LET q == Rig!Settled(prm, p) IN
         /\ q \in Rig!Pages
         /\ \A f \in FormFields \ {"pport", "cat"} : q.form[f] = p.form[f]
         /\ q.form.pport = IF p.form.pport = "CAT" /\ p.form.rig \notin Indirect THEN "USB"
                           ELSE p.form.pport
         /\ p.form.rig = Rig!None => q.form.cat = p.form.cat /\ q.last = p.last
         /\ p.form.rig # Rig!None =>
              /\ q.last = RigTypes[p.form.rig]
              /\ q.form.cat = Rig!AddressShown(prm, p, RigTypes[p.form.rig])
<1>1. /\ p.form \in Rig!Forms /\ p.last \in Rig!Kinds \cup {"none"} /\ p.form.rig \in Rig!Rigs
      /\ Rig!Settled(prm, p).on \in [Rig!Widgets -> BOOLEAN]
  BY SettledOn DEF Rig!Pages, Rig!Forms
<1>2. RigTypes[p.form.rig] \in Rig!Kinds \cup {"none"} /\ Rig!FirstPort \in Serial
  BY <1>1, MCAssumption DEF MCAssumption, Rig!FormAssumption, Rig!FirstPort
<1> DEFINE port == IF p.form.pport = "CAT" /\ p.form.rig \notin Indirect THEN "USB" ELSE p.form.pport
<1>3. port \in Rig!Ports \cup {"", "CAT"}
  BY <1>1 DEF Rig!Forms, Rig!Ports
<1>4. CASE p.form.rig = Rig!None
  <2>1. /\ Rig!Settled(prm, p).form = [p.form EXCEPT !.pport = port]
        /\ Rig!Settled(prm, p).last = p.last
        /\ DOMAIN Rig!Settled(prm, p) = {"form", "on", "last"}
    BY <1>4 DEF Rig!Settled, Rig!Pages
  <2> HIDE DEF port
  <2>2. [p.form EXCEPT !.pport = port] \in Rig!Forms
    BY <1>1, <1>3 DEF Rig!Forms
  <2>3. Rig!Settled(prm, p) = [form |-> [p.form EXCEPT !.pport = port], last |-> p.last,
                               on |-> Rig!Settled(prm, p).on]
    BY <1>4 DEF Rig!Settled, Rig!Pages, port
  <2>4. Rig!Settled(prm, p) \in Rig!Pages
    BY <2>2, <2>3, <1>1 DEF Rig!Pages
  <2>5. \A f \in FormFields \ {"pport", "cat"} : Rig!Settled(prm, p).form[f] = p.form[f]
    BY <2>1, <1>1 DEF FormFields, Rig!Forms
  <2>6. Rig!Settled(prm, p).form.pport = port /\ Rig!Settled(prm, p).form.cat = p.form.cat
    BY <2>1, <1>1 DEF Rig!Forms
  <2> QED BY <2>1, <2>4, <2>5, <2>6, <1>4 DEF port
<1>5. CASE p.form.rig # Rig!None
  <2> DEFINE cat == Rig!AddressShown(prm, p, RigTypes[p.form.rig])
  <2>1. Rig!Settled(prm, p) = [form |-> [p.form EXCEPT !.pport = port, !.cat = cat],
                               last |-> RigTypes[p.form.rig], on |-> Rig!Settled(prm, p).on]
    BY <1>5 DEF Rig!Settled
  <2>2. /\ Rig!Settled(prm, p).form = [p.form EXCEPT !.pport = port, !.cat = cat]
        /\ Rig!Settled(prm, p).last = RigTypes[p.form.rig]
    BY <2>1
  <2>3. cat \in Rig!Texts
    BY <1>1, <1>2 DEF Rig!AddressShown, Rig!Texts, Rig!Ports, Rig!Params, Rig!Forms, Rig!Kinds
  <2> HIDE DEF cat
  <2>4. [p.form EXCEPT !.pport = port, !.cat = cat] \in Rig!Forms
    BY <1>1, <1>3, <2>3 DEF Rig!Forms
  <2> HIDE DEF port
  <2>5. Rig!Settled(prm, p) \in Rig!Pages
    BY <2>1, <2>4, <1>1, <1>2 DEF Rig!Pages
  <2>6. \A f \in FormFields \ {"pport", "cat"} : Rig!Settled(prm, p).form[f] = p.form[f]
    BY <2>2, <1>1 DEF FormFields, Rig!Forms
  <2>7. /\ Rig!Settled(prm, p).form.pport = port /\ Rig!Settled(prm, p).form.cat = cat
        /\ Rig!Settled(prm, p).last = RigTypes[p.form.rig]
    BY <2>2, <1>1 DEF Rig!Forms
  <2> QED BY <2>5, <2>6, <2>7, <1>5 DEF port, cat
<1> QED BY <1>4, <1>5
\* A settled page is sound, if it was but for the kind of its rig.
LEMMA SettledSound ==
  ASSUME NEW prm \in Rig!Params, NEW p \in Rig!Pages,
         p.last = "none" => p.form.cat = "", p.form.pport # ""
  PROVE  Rig!PageSound(Rig!Settled(prm, p))
<1> DEFINE q == Rig!Settled(prm, p)
<1>0. \A f \in FormFields \ {"pport", "cat"} : q.form[f] = p.form[f]
  BY SettledForm
<1>1. /\ q.form.pport = IF p.form.pport = "CAT" /\ p.form.rig \notin Indirect THEN "USB" ELSE p.form.pport
      /\ p.form.rig = Rig!None => q.form.cat = p.form.cat /\ q.last = p.last
      /\ p.form.rig # Rig!None =>
           /\ q.last = RigTypes[p.form.rig]
           /\ q.form.cat = Rig!AddressShown(prm, p, RigTypes[p.form.rig])
  BY SettledForm
<1> HIDE DEF q
<1>r. q.form["rig"] = p.form["rig"]
  BY <1>0 DEF FormFields
<1>2. q.form.pport # ""
  BY <1>1
<1>3. CASE p.form.rig = Rig!None
  BY <1>r, <1>1, <1>2, <1>3 DEF Rig!PageSound, q
<1>4. CASE p.form.rig # Rig!None
  <2>1. RigTypes[p.form.rig] = "none" => q.form.cat = ""
    BY <1>1, <1>4 DEF Rig!AddressShown
  <2> QED BY <2>1, <1>r, <1>1, <1>2, <1>4 DEF Rig!PageSound, q
<1> QED BY <1>3, <1>4

\* A widget set by the program leaves a sound page, with its address but for a new rig.
LEMMA ChangedIs ==
  ASSUME NEW prm \in Rig!Params, NEW p \in Rig!Pages, Rig!PageSound(p),
         NEW f \in FormFields \ {"pport", "cat"}, NEW v, Rig!Put(p, f, v) \in Rig!Pages
  PROVE  LET q == Rig!Changed(prm, p, f, v) IN
         /\ q \in Rig!Pages /\ Rig!PageSound(q) /\ q.form[f] = v
         /\ \A g \in FormFields \ {"pport", "cat", f} : q.form[g] = p.form[g]
         /\ f # "rig" => q.form.cat = p.form.cat
         /\ f = "rig" /\ v = Rig!None => q.form.cat = p.form.cat
         /\ f = "rig" /\ v # Rig!None /\ v # p.form.rig =>
              q.form.cat = Rig!AddressShown(prm, p, RigTypes[v])
<1>1. CASE p.form[f] = v
  BY <1>1 DEF Rig!Changed
<1>2. CASE p.form[f] # v
  <2> DEFINE m == Rig!Put(p, f, v)
             q == Rig!Settled(prm, m)
  <2>1. Rig!Changed(prm, p, f, v) = q
    BY <1>2 DEF Rig!Changed
  <2>2. /\ m \in Rig!Pages /\ m.on = p.on /\ m.last = p.last /\ m.form[f] = v
        /\ \A g \in FormFields \ {f} : m.form[g] = p.form[g]
    BY PutIs
  <2>3. m.form["cat"] = p.form["cat"] /\ m.form["pport"] = p.form["pport"]
    BY <2>2 DEF FormFields
  <2> HIDE DEF m
  <2>4. Rig!PageSound(q)
    BY <2>2, <2>3, SettledSound DEF Rig!PageSound
  <2>5. /\ q \in Rig!Pages /\ \A g \in FormFields \ {"pport", "cat"} : q.form[g] = m.form[g]
        /\ m.form.rig = Rig!None => q.form.cat = m.form.cat
        /\ m.form.rig # Rig!None => q.form.cat = Rig!AddressShown(prm, m, RigTypes[m.form.rig])
    BY <2>2, SettledForm
  <2> HIDE DEF q
  <2>6. q.form[f] = v /\ \A g \in FormFields \ {"pport", "cat", f} : q.form[g] = p.form[g]
    BY <2>2, <2>5
  <2>7. ASSUME f # "rig" PROVE q.form.cat = p.form.cat
    <3>1. m.form["rig"] = p.form["rig"]
      BY <2>7, <2>2 DEF FormFields
    <3>2. m.form.rig # Rig!None => Rig!AddressShown(prm, m, RigTypes[m.form.rig]) = m.form.cat
      BY <3>1, <2>2 DEF Rig!AddressShown, Rig!PageSound
    <3> QED BY <3>2, <2>3, <2>5
  <2>8. f = "rig" => m.form.rig = v
    BY <2>2
  <2>9. Rig!AddressShown(prm, m, RigTypes[v]) = Rig!AddressShown(prm, p, RigTypes[v])
    BY <2>2, <2>3 DEF Rig!AddressShown
  <2> QED BY <2>1, <2>3, <2>4, <2>5, <2>6, <2>7, <2>8, <2>9
<1> QED BY <1>1, <1>2

\* The parameters the page holds.
LEMMA GatherIs ==
  ASSUME NEW prm \in Rig!Params, NEW p \in Rig!Pages
  PROVE  LET d == Rig!gather_rig_data(prm, p)
             k == Rig!AddressFor(RigTypes[p.form.rig]) IN
         /\ d \in Rig!Params /\ k \in Rig!Kinds
         /\ d.rig = p.form.rig /\ d.hw = p.form.hw /\ d.method = p.form.method
         /\ d.pport = p.form.pport /\ d.rear = p.form.rear /\ d.rest = p.form.rest
         /\ d.dtr = (Rig!Can(p, "dtr") /\ p.form.dtr) /\ d.rts = (Rig!Can(p, "rts") /\ p.form.rts)
         /\ d.address = [prm.address EXCEPT ![k] = p.form.cat]
         /\ Rig!gather_rig_data(d, p) = d
<1> DEFINE d == Rig!gather_rig_data(prm, p)
           k == Rig!AddressFor(RigTypes[p.form.rig])
<1>1. k \in Rig!Kinds
  BY DEF Rig!AddressFor, Rig!Kinds
<1>2. p.form \in Rig!Forms /\ prm.address \in [Rig!Kinds -> Rig!Texts]
  BY DEF Rig!Pages, Rig!Params
<1> HIDE DEF k
<1>3. d = [rig |-> p.form.rig, address |-> [prm.address EXCEPT ![k] = p.form.cat], hw |-> p.form.hw,
           dtr |-> Rig!Can(p, "dtr") /\ p.form.dtr, rts |-> Rig!Can(p, "rts") /\ p.form.rts,
           method |-> p.form.method, pport |-> p.form.pport, rear |-> p.form.rear, rest |-> p.form.rest]
  BY DEF Rig!gather_rig_data, k
<1> HIDE DEF d
<1>4. d \in Rig!Params
  <2>1. [prm.address EXCEPT ![k] = p.form.cat] \in [Rig!Kinds -> Rig!Texts]
    BY <1>1, <1>2 DEF Rig!Forms
  <2>2. (Rig!Can(p, "dtr") /\ p.form.dtr) \in BOOLEAN /\ (Rig!Can(p, "rts") /\ p.form.rts) \in BOOLEAN
    BY Zenon
  <2> QED BY <1>2, <1>3, <2>1, <2>2 DEF Rig!Forms, Rig!Params
<1>5. [d.address EXCEPT ![k] = p.form.cat] = d.address
  BY <1>1, <1>2, <1>3
<1>6. Rig!gather_rig_data(d, p) = d
  BY <1>3, <1>5 DEF Rig!gather_rig_data, k
<1> QED BY <1>1, <1>3, <1>4, <1>6 DEF d, k
\* A settled page that validate accepts holds proper parameters.
LEMMA AcceptedProper ==
  ASSUME NEW prm \in Rig!Params, NEW d \in Rig!Params, NEW p \in Rig!Pages,
         Rig!PageSound(p), Rig!Settled(d, p) = p, Rig!Valid(p)
  PROVE  Rig!Proper(Rig!gather_rig_data(prm, p))
<1> DEFINE g == Rig!gather_rig_data(prm, p)
           type == RigTypes[p.form.rig]
<1>1. /\ p.on["CAT"] = (p.form.rig \in CatPtt)
      /\ p.on["RTS"] = LineFree(p)
      /\ p.form.rig = Rig!None => ~p.on["control"]
      /\ p.form.rig # Rig!None =>
           /\ p.on["control"]
           /\ p.on["serial"] = (type = "serial")
           /\ p.on["dtr"] = (type = "serial" /\ ~(Shares(p) /\ p.form.method = "DTR"))
           /\ p.on["rts"] = (type = "serial" /\ ~Rig!Hardware(p)
                             /\ ~(Shares(p) /\ LineFree(p) /\ p.form.method = "RTS"))
  BY SettledOn
<1>2. p.form.pport = IF p.form.pport = "CAT" /\ p.form.rig \notin Indirect THEN "USB" ELSE p.form.pport
  BY SettledForm
<1>3. /\ g.rig = p.form.rig /\ g.hw = p.form.hw /\ g.method = p.form.method /\ g.pport = p.form.pport
      /\ g.dtr = (Rig!Can(p, "dtr") /\ p.form.dtr) /\ g.rts = (Rig!Can(p, "rts") /\ p.form.rts)
      /\ g.address = [prm.address EXCEPT ![Rig!AddressFor(type)] = p.form.cat]
  BY GatherIs
<1>4. prm.address \in [Rig!Kinds -> Rig!Texts] /\ p.form.rig \in Rig!Rigs
  BY DEF Rig!Params, Rig!Pages, Rig!Forms
<1> HIDE DEF g
<1>5. type \in {"serial", "none"} => g.address["serial"] = p.form.cat
  BY <1>3, <1>4 DEF Rig!AddressFor, Rig!Kinds
<1>6. type = "serial" => p.form.rig # Rig!None
  BY MCAssumption DEF MCAssumption, Rig!FormAssumption
<1> HIDE DEF type
<1>7. type = "serial" => (Rig!Hardware(p) <=> p.form.hw)
  BY <1>1, <1>6 DEF Rig!Hardware, Rig!Can
<1>8. g.method = "CAT" => g.rig \in CatPtt
  BY <1>1, <1>3 DEF Rig!Valid
<1>9. ~(g.method = "RTS" /\ type = "serial" /\ g.hw /\ g.pport = g.address["serial"])
  <2>1. ASSUME g.method = "RTS", type = "serial", g.hw, g.pport = g.address["serial"] PROVE FALSE
    <3>1. p.on["RTS"]
      BY <2>1, <1>3 DEF Rig!Valid
    <3>2. Shares(p) /\ Rig!Hardware(p)
      BY <2>1, <1>3, <1>5, <1>7 DEF Shares
    <3> QED BY <3>1, <3>2, <2>1, <1>1 DEF LineFree, type
  <2> QED BY <2>1
<1>10. g.dtr => type = "serial" /\ ~Rig!OwnLine(g, "DTR")
  <2>1. ASSUME g.dtr PROVE p.on["dtr"] /\ p.on["control"]
    BY <2>1, <1>3 DEF Rig!Can
  <2>2. ASSUME g.dtr PROVE type = "serial" /\ ~(Shares(p) /\ p.form.method = "DTR")
    BY <2>1, <2>2, <1>1
  <2> QED BY <2>2, <1>3, <1>5 DEF Rig!OwnLine, Shares
<1>11. g.rts => type = "serial" /\ ~Rig!OwnLine(g, "RTS") /\ ~g.hw
  <2>1. ASSUME g.rts PROVE p.on["rts"] /\ p.on["control"]
    BY <2>1, <1>3 DEF Rig!Can
  <2>2. ASSUME g.rts
        PROVE  /\ type = "serial" /\ ~Rig!Hardware(p)
               /\ ~(Shares(p) /\ LineFree(p) /\ p.form.method = "RTS")
    BY <2>1, <2>2, <1>1
  <2>3. g.rts => LineFree(p)
    BY <2>2 DEF LineFree
  <2> QED BY <2>2, <2>3, <1>3, <1>5, <1>7 DEF Rig!OwnLine, Shares
<1>12. g.pport = "CAT" => g.rig \in Indirect
  BY <1>2, <1>3
<1>13. g.rig # Rig!None /\ type = "none" => g.address["serial"] = ""
  BY <1>3, <1>5 DEF Rig!PageSound, type
<1> QED BY <1>3, <1>8, <1>9, <1>10, <1>11, <1>12, <1>13 DEF Rig!Proper, Rig!Keyed, type, g

\* initialize_models: a page that shows the parameters, but perhaps for the address.
LEMMA InitializedIs ==
  ASSUME NEW prm \in Rig!Params, NEW p \in Rig!Pages, Rig!PageSound(p)
  PROVE  \E q \in Rig!Pages :
           /\ Rig!PageSound(q) /\ Rig!initialize_models(prm, p) = Rig!Settled(prm, q)
           /\ q.form.rig = prm.rig /\ q.form.method = prm.method /\ q.form.rest = prm.rest
           /\ q.form.hw = prm.hw /\ q.form.dtr = prm.dtr /\ q.form.rts = prm.rts /\ q.form.rear = prm.rear
           /\ q.form.pport = IF prm.pport = "" THEN Rig!FirstPort ELSE prm.pport
           /\ p.form.rig = prm.rig => q.form.cat = p.form.cat
<1> DEFINE p0 == Rig!Put(p, "method", prm.method)
           p1 == Rig!Changed(prm, p0, "rig", prm.rig)
           p2 == Rig!Changed(prm, p1, "rest", prm.rest)
           p3 == Rig!Put(p2, "hw", prm.hw)
           p4 == Rig!Changed(prm, p3, "dtr", prm.dtr)
           p5 == Rig!Changed(prm, p4, "rts", prm.rts)
           p6 == Rig!Put(p5, "rear", prm.rear)
           port == IF prm.pport = "" THEN Rig!FirstPort ELSE prm.pport
           p7 == Rig!Put(p6, "pport", port)
<1>0. /\ prm.rig \in Rig!Rigs /\ prm.method \in Rig!Methods /\ prm.rest \in 0..1 /\ prm.hw \in BOOLEAN
      /\ prm.dtr \in BOOLEAN /\ prm.rts \in BOOLEAN /\ prm.rear \in BOOLEAN
      /\ prm.pport \in Rig!Ports \cup {"", "CAT"}
  BY DEF Rig!Params
<1>f. Rig!FirstPort \in Serial /\ "" \notin Serial
  BY MCAssumption DEF MCAssumption, Rig!FormAssumption, Rig!FirstPort
<1>n. /\ "rig" \in FormFields /\ "cat" \in FormFields /\ "hw" \in FormFields /\ "dtr" \in FormFields
      /\ "rts" \in FormFields /\ "method" \in FormFields /\ "pport" \in FormFields
      /\ "rear" \in FormFields /\ "rest" \in FormFields
  BY DEF FormFields
<1>p. port \in Rig!Ports \cup {"", "CAT"} /\ port # ""
  BY <1>0, <1>f DEF Rig!Ports
<1>m. Rig!initialize_models(prm, p) = Rig!Settled(prm, p7)
  BY DEF Rig!initialize_models
<1> HIDE DEF port
<1>a. /\ p0 \in Rig!Pages /\ p0.last = p.last /\ p0.form["method"] = prm.method
      /\ \A g \in FormFields \ {"method"} : p0.form[g] = p.form[g]
  <2>1. p0 \in Rig!Pages
    BY <1>0, PutPage
  <2> QED BY <2>1, <1>n, PutIs
<1> HIDE DEF p0
<1>b. Rig!PageSound(p0)
  BY <1>a, <1>n DEF Rig!PageSound
<1>1. /\ p1 \in Rig!Pages /\ Rig!PageSound(p1) /\ p1.form["rig"] = prm.rig
      /\ \A g \in FormFields \ {"pport", "cat", "rig"} : p1.form[g] = p0.form[g]
  <2>1. Rig!Put(p0, "rig", prm.rig) \in Rig!Pages
    BY <1>0, <1>a, PutPage
  <2> QED BY <2>1, <1>a, <1>b, <1>n, ChangedIs
<1>c. p.form.rig = prm.rig => p1.form.cat = p.form.cat
  BY <1>a, <1>n DEF Rig!Changed
<1> HIDE DEF p1
<1>2. /\ p2 \in Rig!Pages /\ Rig!PageSound(p2) /\ p2.form["rest"] = prm.rest
      /\ \A g \in FormFields \ {"pport", "cat", "rest"} : p2.form[g] = p1.form[g]
      /\ p2.form.cat = p1.form.cat
  <2>1. Rig!Put(p1, "rest", prm.rest) \in Rig!Pages
    BY <1>0, <1>1, PutPage
  <2> QED BY <2>1, <1>1, <1>n, ChangedIs
<1> HIDE DEF p2
<1>3. /\ p3 \in Rig!Pages /\ p3.last = p2.last /\ p3.form["hw"] = prm.hw
      /\ \A g \in FormFields \ {"hw"} : p3.form[g] = p2.form[g]
  <2>1. p3 \in Rig!Pages
    BY <1>0, <1>2, PutPage
  <2> QED BY <2>1, <1>2, <1>n, PutIs
<1> HIDE DEF p3
<1>d. Rig!PageSound(p3)
  BY <1>2, <1>3, <1>n DEF Rig!PageSound
<1>4. /\ p4 \in Rig!Pages /\ Rig!PageSound(p4) /\ p4.form["dtr"] = prm.dtr
      /\ \A g \in FormFields \ {"pport", "cat", "dtr"} : p4.form[g] = p3.form[g]
      /\ p4.form.cat = p3.form.cat
  <2>1. Rig!Put(p3, "dtr", prm.dtr) \in Rig!Pages
    BY <1>0, <1>3, PutPage
  <2> QED BY <2>1, <1>3, <1>d, <1>n, ChangedIs
<1> HIDE DEF p4
<1>5. /\ p5 \in Rig!Pages /\ Rig!PageSound(p5) /\ p5.form["rts"] = prm.rts
      /\ \A g \in FormFields \ {"pport", "cat", "rts"} : p5.form[g] = p4.form[g]
      /\ p5.form.cat = p4.form.cat
  <2>1. Rig!Put(p4, "rts", prm.rts) \in Rig!Pages
    BY <1>0, <1>4, PutPage
  <2> QED BY <2>1, <1>4, <1>n, ChangedIs
<1> HIDE DEF p5
<1>6. /\ p6 \in Rig!Pages /\ p6.last = p5.last /\ p6.form["rear"] = prm.rear
      /\ \A g \in FormFields \ {"rear"} : p6.form[g] = p5.form[g]
  <2>1. p6 \in Rig!Pages
    BY <1>0, <1>5, PutPage
  <2> QED BY <2>1, <1>5, <1>n, PutIs
<1> HIDE DEF p6
<1>7. /\ p7 \in Rig!Pages /\ p7.last = p6.last /\ p7.form["pport"] = port
      /\ \A g \in FormFields \ {"pport"} : p7.form[g] = p6.form[g]
  <2>1. Rig!Put(p6, "pport", port) \in Rig!Pages
    BY <1>p, <1>6, PutPage
  <2>2. /\ p7.on = p6.on /\ p7.last = p6.last /\ p7.form["pport"] = port
        /\ \A g \in FormFields \ {"pport"} : p7.form[g] = p6.form[g]
    BY <1>6, <1>n, PutIs
  <2> QED BY <2>1, <2>2
<1> HIDE DEF p7
<1>8. p7.form["cat"] = p1.form["cat"] /\ p7.form["rig"] = prm.rig
  BY <1>1, <1>2, <1>3, <1>4, <1>5, <1>6, <1>7, <1>n
<1>9. p7.form["method"] = prm.method /\ p7.form["rest"] = prm.rest
  BY <1>a, <1>1, <1>2, <1>3, <1>4, <1>5, <1>6, <1>7, <1>n
<1>10. p7.form["hw"] = prm.hw /\ p7.form["dtr"] = prm.dtr
  BY <1>3, <1>4, <1>5, <1>6, <1>7, <1>n
<1>11. p7.form["rts"] = prm.rts /\ p7.form["rear"] = prm.rear
  BY <1>5, <1>6, <1>7, <1>n
<1>12. p7.form["rig"] = p5.form["rig"] /\ p7.form["cat"] = p5.form["cat"] /\ p7.last = p5.last
  BY <1>6, <1>7, <1>n
<1>13. Rig!PageSound(p7)
  BY <1>5, <1>7, <1>12, <1>p DEF Rig!PageSound
<1> QED BY <1>m, <1>c, <1>7, <1>8, <1>9, <1>10, <1>11, <1>13 DEF port
\* Parameters are what their fields are.
LEMMA ParamsAre ==
  ASSUME NEW d \in Rig!Params, NEW prm \in Rig!Params, d.rig = prm.rig, d.address = prm.address,
         d.hw = prm.hw, d.dtr = prm.dtr, d.rts = prm.rts, d.method = prm.method,
         d.pport = prm.pport, d.rear = prm.rear, d.rest = prm.rest
  PROVE  d = prm
<1>1. ASSUME NEW x \in Rig!Params
      PROVE  x = [rig |-> x.rig, address |-> x.address, hw |-> x.hw, dtr |-> x.dtr, rts |-> x.rts,
                  method |-> x.method, pport |-> x.pport, rear |-> x.rear, rest |-> x.rest]
  BY Zenon DEF Rig!Params
<1> QED BY <1>1, Zenon

LEMMA FreshForm ==
  ASSUME NEW r \in Rig!Rigs, NEW port \in Serial
  PROVE  [rig |-> r, cat |-> "", hw |-> FALSE, dtr |-> FALSE, rts |-> FALSE,
          method |-> "VOX", pport |-> port, rear |-> FALSE, rest |-> 0] \in Rig!Forms
<1>1. "" \in Rig!Texts
  BY DEF Rig!Texts
<1>2. "VOX" \in Rig!Methods
  BY DEF Rig!Methods
<1>3. port \in Rig!Ports \cup {"", "CAT"}
  BY DEF Rig!Ports
<1>4. ASSUME NEW c \in Rig!Texts, NEW m \in Rig!Methods, NEW p \in Rig!Ports \cup {"", "CAT"},
             NEW n \in 0..1
      PROVE  [rig |-> r, cat |-> c, hw |-> FALSE, dtr |-> FALSE, rts |-> FALSE,
              method |-> m, pport |-> p, rear |-> FALSE, rest |-> n] \in Rig!Forms
  BY DEF Rig!Forms
<1>5. 0 \in 0..1
  OBVIOUS
<1> QED BY <1>1, <1>2, <1>3, <1>4, <1>5

LEMMA InitializedSound ==
  ASSUME NEW prm \in Rig!Params, NEW p \in Rig!Pages, Rig!PageSound(p)
  PROVE  LET r == Rig!initialize_models(prm, p) IN
         /\ r \in Rig!Pages /\ Rig!PageSound(r) /\ r.form.rig = prm.rig
         /\ p.form.rig = prm.rig => r.form.cat = p.form.cat
<1> DEFINE r == Rig!initialize_models(prm, p)
<1>1. PICK q \in Rig!Pages :
        /\ Rig!PageSound(q) /\ r = Rig!Settled(prm, q) /\ q.form.rig = prm.rig
        /\ p.form.rig = prm.rig => q.form.cat = p.form.cat
  BY InitializedIs
<1> HIDE DEF r
<1>2. Rig!PageSound(r)
  BY <1>1, SettledSound DEF Rig!PageSound
<1>3. /\ r \in Rig!Pages /\ \A f \in FormFields \ {"pport", "cat"} : r.form[f] = q.form[f]
      /\ q.form.rig = Rig!None => r.form.cat = q.form.cat
      /\ q.form.rig # Rig!None => r.form.cat = Rig!AddressShown(prm, q, RigTypes[q.form.rig])
  BY <1>1, SettledForm
<1>4. r.form["rig"] = q.form["rig"]
  BY <1>3 DEF FormFields
<1>5. r.form.cat = q.form.cat
  BY <1>1, <1>3 DEF Rig!AddressShown, Rig!PageSound
<1> QED BY <1>1, <1>2, <1>3, <1>4, <1>5 DEF r

\* If its address is the one in force, it holds what is in force.
LEMMA InitializedShows ==
  ASSUME NEW prm \in Rig!Params, NEW p \in Rig!Pages, Rig!PageSound(p), Rig!Proper(prm),
         prm.pport # "",
         Rig!gather_rig_data(prm, Rig!initialize_models(prm, p)).address = prm.address
  PROVE  Rig!gather_rig_data(prm, Rig!initialize_models(prm, p)) = prm
<1> DEFINE r == Rig!initialize_models(prm, p)
           d == Rig!gather_rig_data(prm, r)
           type == RigTypes[prm.rig]
<1>1. PICK q \in Rig!Pages :
        /\ Rig!PageSound(q) /\ r = Rig!Settled(prm, q)
        /\ q.form.rig = prm.rig /\ q.form.method = prm.method /\ q.form.rest = prm.rest
        /\ q.form.hw = prm.hw /\ q.form.dtr = prm.dtr /\ q.form.rts = prm.rts /\ q.form.rear = prm.rear
        /\ q.form.pport = prm.pport
  BY InitializedIs
<1>6. d.address = prm.address
  OBVIOUS
<1> HIDE DEF r
<1>2. r \in Rig!Pages
  BY <1>1, SettledForm
<1>3. /\ \A f \in FormFields \ {"pport", "cat"} : r.form[f] = q.form[f]
      /\ r.form.pport = IF q.form.pport = "CAT" /\ q.form.rig \notin Indirect THEN "USB" ELSE q.form.pport
      /\ q.form.rig # Rig!None => r.form.cat = Rig!AddressShown(prm, q, RigTypes[q.form.rig])
  BY <1>1, SettledForm
<1>4. q.form.rig # Rig!None =>
        /\ r.on["control"]
        /\ r.on["serial"] = (RigTypes[q.form.rig] = "serial")
        /\ r.on["dtr"] = (RigTypes[q.form.rig] = "serial" /\ ~(Shares(q) /\ q.form.method = "DTR"))
        /\ r.on["rts"] = (/\ RigTypes[q.form.rig] = "serial" /\ ~Rig!Hardware(q)
                          /\ ~(Shares(q) /\ LineFree(q) /\ q.form.method = "RTS"))
  BY <1>1, SettledOn
<1>5. /\ d \in Rig!Params
      /\ d.rig = r.form.rig /\ d.hw = r.form.hw /\ d.method = r.form.method
      /\ d.pport = r.form.pport /\ d.rear = r.form.rear /\ d.rest = r.form.rest
      /\ d.dtr = (Rig!Can(r, "dtr") /\ r.form.dtr) /\ d.rts = (Rig!Can(r, "rts") /\ r.form.rts)
      /\ d.address = [prm.address EXCEPT ![Rig!AddressFor(RigTypes[r.form.rig])] = r.form.cat]
  BY <1>2, GatherIs
<1> HIDE DEF d
<1>7. /\ r.form["rig"] = prm.rig /\ r.form["hw"] = prm.hw /\ r.form["method"] = prm.method
      /\ r.form["rear"] = prm.rear /\ r.form["rest"] = prm.rest /\ r.form["dtr"] = prm.dtr
      /\ r.form["rts"] = prm.rts
  BY <1>1, <1>3 DEF FormFields
<1>8. r.form.pport = prm.pport
  BY <1>1, <1>3 DEF Rig!Proper
<1> HIDE DEF type
<1>9. ASSUME type = "serial"
      PROVE  prm.rig # Rig!None /\ (Shares(q) => prm.pport = prm.address["serial"])
  <2>1. prm.rig # Rig!None
    BY <1>9, MCAssumption DEF MCAssumption, Rig!FormAssumption, type
  <2>2. r.form.cat = q.form.cat
    BY <2>1, <1>1, <1>3 DEF Rig!AddressShown, Rig!PageSound
  <2>3. d.address["serial"] = r.form.cat
    <3>1. prm.address \in [Rig!Kinds -> Rig!Texts]
      BY DEF Rig!Params
    <3>2. Rig!AddressFor(RigTypes[r.form.rig]) = "serial"
      BY <1>7, <1>9 DEF Rig!AddressFor, type
    <3> QED BY <3>1, <3>2, <1>5 DEF Rig!Kinds
  <2> QED BY <2>1, <2>2, <2>3, <1>1, <1>6 DEF Shares
<1>10. d.dtr = prm.dtr
  <2>1. prm.dtr \in BOOLEAN
    BY DEF Rig!Params
  <2>2. ASSUME prm.dtr PROVE Rig!Can(r, "dtr")
    <3>1. type = "serial" /\ ~Rig!OwnLine(prm, "DTR")
      BY <2>2 DEF Rig!Proper, type
    <3>2. ~(Shares(q) /\ q.form.method = "DTR")
      BY <3>1, <1>1, <1>9 DEF Rig!OwnLine
    <3> QED BY <3>1, <3>2, <1>1, <1>4, <1>9 DEF Rig!Can, type
  <2> QED BY <2>1, <2>2, <1>5, <1>7, Zenon
<1>11. d.rts = prm.rts
  <2>1. prm.rts \in BOOLEAN
    BY DEF Rig!Params
  <2>2. ASSUME prm.rts PROVE Rig!Can(r, "rts")
    <3>1. type = "serial" /\ ~Rig!OwnLine(prm, "RTS") /\ ~prm.hw
      BY <2>2 DEF Rig!Proper, type
    <3>2. ~(Shares(q) /\ q.form.method = "RTS") /\ ~Rig!Hardware(q)
      BY <3>1, <1>1, <1>9 DEF Rig!OwnLine, Rig!Hardware
    <3> QED BY <3>1, <3>2, <1>1, <1>4, <1>9 DEF Rig!Can, type
  <2> QED BY <2>1, <2>2, <1>5, <1>7, Zenon
<1>12. d = prm
  <2>1. d \in Rig!Params /\ d.rig = prm.rig /\ d.address = prm.address /\ d.hw = prm.hw
        /\ d.dtr = prm.dtr /\ d.rts = prm.rts /\ d.method = prm.method /\ d.pport = prm.pport
        /\ d.rear = prm.rear /\ d.rest = prm.rest
    BY <1>5, <1>6, <1>7, <1>8, <1>10, <1>11
  <2> QED BY <2>1, ParamsAre
<1> QED BY <1>12 DEF d, r

\* The page of a program that starts.
LEMMA BuiltIs ==
  ASSUME NEW prm \in Rig!Params
  PROVE  /\ Rig!Built(prm) \in Rig!Pages /\ Rig!PageSound(Rig!Built(prm))
         /\ Rig!Proper(prm) /\ ~Rig!NamesNoPort(prm) =>
              Rig!gather_rig_data(prm, Rig!Built(prm)) = prm
<1> DEFINE s0 == Rig!Settled(prm, Rig!Fresh)
           s1_ == Rig!Changed(prm, s0, "rig", prm.rig)
           r == Rig!initialize_models(prm, s1_)
<1>a. /\ FirstRig \in Rig!Rigs /\ RigTypes[FirstRig] = "serial" /\ RigTypes[Rig!None] = "none"
      /\ Rig!FirstPort \in Serial /\ "" \notin Serial
  BY MCAssumption DEF MCAssumption, Rig!FormAssumption, Rig!FirstPort
<1>b. /\ prm.rig \in Rig!Rigs /\ prm.address \in [Rig!Kinds -> Rig!Texts]
      /\ RigTypes[prm.rig] \in Rig!Kinds \cup {"none"}
  BY MCAssumption DEF MCAssumption, Rig!FormAssumption, Rig!Params
<1>1. /\ Rig!Fresh \in Rig!Pages /\ Rig!Fresh.form.rig = FirstRig /\ Rig!Fresh.form.cat = ""
      /\ Rig!Fresh.last = "none" /\ Rig!Fresh.form.pport # ""
  <2>1. /\ "" \in Rig!Texts /\ "VOX" \in Rig!Methods /\ Rig!FirstPort \in Rig!Ports \cup {"", "CAT"}
        /\ "none" \in Rig!Kinds \cup {"none"} /\ Rig!FirstPort # ""
    BY <1>a DEF Rig!Texts, Rig!Ports, Rig!Methods
  <2>2. Rig!Fresh.form \in Rig!Forms
    BY <1>a, FreshForm DEF Rig!Fresh
  <2>3. [w \in Rig!Widgets |-> TRUE] \in [Rig!Widgets -> BOOLEAN]
    OBVIOUS
  <2>4. Rig!Fresh \in Rig!Pages
    BY <2>1, <2>2, <2>3 DEF Rig!Fresh, Rig!Pages
  <2> QED BY <2>1, <2>4 DEF Rig!Fresh
<1>2. Rig!PageSound(s0)
  BY <1>1, SettledSound
<1>3. /\ s0 \in Rig!Pages /\ \A f \in FormFields \ {"pport", "cat"} : s0.form[f] = Rig!Fresh.form[f]
      /\ s0.last = "serial" /\ s0.form.cat = Rig!AddressShown(prm, Rig!Fresh, "serial")
  BY <1>1, <1>a, SettledForm
<1> HIDE DEF s0
<1>4. s0.form["rig"] = FirstRig
  BY <1>1, <1>3 DEF FormFields
<1>5. s0.form.cat = IF prm.address["serial"] = "" THEN Rig!FirstPort ELSE prm.address["serial"]
  BY <1>1, <1>3 DEF Rig!AddressShown
<1>6. Rig!Put(s0, "rig", prm.rig) \in Rig!Pages /\ "rig" \in FormFields \ {"pport", "cat"}
  BY <1>b, <1>3, PutPage DEF FormFields
<1>7. /\ s1_ \in Rig!Pages /\ Rig!PageSound(s1_) /\ s1_.form["rig"] = prm.rig
      /\ prm.rig = Rig!None => s1_.form.cat = s0.form.cat
      /\ prm.rig # Rig!None /\ prm.rig # s0.form.rig =>
           s1_.form.cat = Rig!AddressShown(prm, s0, RigTypes[prm.rig])
  BY <1>2, <1>3, <1>6, ChangedIs
<1>8. prm.rig = s0.form.rig => s1_.form.cat = s0.form.cat
  BY DEF Rig!Changed
<1> HIDE DEF s1_
<1>9. /\ r \in Rig!Pages /\ Rig!PageSound(r) /\ r.form.rig = prm.rig /\ r.form.cat = s1_.form.cat
  BY <1>7, InitializedSound
<1>10. Rig!Built(prm) = r
  BY DEF Rig!Built, s1_, s0
<1>11. ASSUME Rig!Proper(prm), ~Rig!NamesNoPort(prm) PROVE Rig!gather_rig_data(prm, r) = prm
  <2> DEFINE k == Rig!AddressFor(RigTypes[prm.rig])
  <2>1. prm.pport # "" /\ (prm.rig = Rig!None \/ RigTypes[prm.rig] = "serial" => prm.address["serial"] # "")
    BY <1>11 DEF Rig!NamesNoPort
  <2>2. r.form.cat = prm.address[k]
    <3>1. CASE prm.rig = Rig!None
      BY <3>1, <2>1, <1>a, <1>5, <1>7, <1>9 DEF Rig!AddressFor
    <3>2. CASE RigTypes[prm.rig] = "serial"
      BY <3>2, <2>1, <1>a, <1>3, <1>4, <1>5, <1>7, <1>8, <1>9 DEF Rig!AddressFor, Rig!AddressShown
    <3>3. CASE prm.rig # Rig!None /\ RigTypes[prm.rig] = "none"
      BY <3>3, <1>11, <1>a, <1>3, <1>4, <1>7, <1>9 DEF Rig!AddressFor, Rig!AddressShown, Rig!Proper
    <3>4. CASE RigTypes[prm.rig] \in {"network", "usb"}
      BY <3>4, <1>a, <1>3, <1>4, <1>7, <1>9 DEF Rig!AddressFor, Rig!AddressShown
    <3> QED BY <3>1, <3>2, <3>3, <3>4, <1>b DEF Rig!Kinds
  <2>3. Rig!gather_rig_data(prm, r).address = [prm.address EXCEPT ![k] = r.form.cat]
    BY <1>9, GatherIs
  <2>4. Rig!gather_rig_data(prm, r).address = prm.address
    BY <2>2, <2>3, <1>b
  <2> QED BY <2>1, <2>4, <1>7, <1>11, InitializedShows
<1> QED BY <1>9, <1>10, <1>11
\* open_rig: as it was, with what it was opened with, or with the new parameters.
Forced(c, data) == Rig!Opened(c, data, TRUE)
Asked(c, data) == Rig!Opened(c, data, FALSE)
LEMMA OpenedIs ==
  ASSUME NEW c \in Rig!Connections, NEW data \in Rig!Params
  PROVE  /\ \A r \in Forced(c, data) : r \in Rig!Connections /\ r.with = data /\ r.saved = data
         /\ \A r \in Asked(c, data) :
              /\ r \in Rig!Connections
              /\ (r = c /\ c.active /\ c.saved = data) \/ (r.with = data /\ r.saved = data)
<1>1. ASSUME NEW b \in BOOLEAN
      PROVE  LET r == [active |-> b, with |-> data, saved |-> data, changed |-> TRUE] IN
             r \in Rig!Connections /\ r.with = data /\ r.saved = data
  BY DEF Rig!Connections
<1>2. ASSUME NEW r \in Forced(c, data)
      PROVE  \E b \in BOOLEAN : r = [active |-> b, with |-> data, saved |-> data, changed |-> TRUE]
  BY <1>2 DEF Forced, Rig!Opened
<1>3. ASSUME NEW r \in Asked(c, data), ~(r = c /\ c.active /\ c.saved = data)
      PROVE  \E b \in BOOLEAN : r = [active |-> b, with |-> data, saved |-> data, changed |-> TRUE]
  BY <1>3 DEF Asked, Rig!Opened
<1> QED BY <1>1, <1>2, <1>3

LEMMA RigPlain ==
  ASSUME Rig!RigInv
  PROVE  /\ s1 \in Rig!Params /\ s2 \in Rig!Pages /\ s3 \in Rig!Connections
         /\ s4 \in BOOLEAN /\ s5 \in BOOLEAN /\ s6 \in 0..MaxEdits /\ s7 \in BOOLEAN /\ s8 \in BOOLEAN
         /\ Rig!PageSound(s2)
         /\ s3.active /\ s5 => s3.with = s3.saved \/ (s3.saved = s1 /\ (s8 \/ ~Rig!Proper(s1)))
         /\ s3.active /\ ~s5 => s3.with = s1 \/ s8 \/ ~Rig!Proper(s1)
         /\ ~s8 => s1.pport # ""
         /\ ~s7 => Rig!Proper(s1)
         /\ ~s5 /\ ~s8 /\ Rig!Proper(s1) => Rig!gather_rig_data(s1, s2) = s1
         /\ Rig!gather_rig_data(s1, s2) \in Rig!Params /\ MaxEdits \in Nat
BY GatherIs, MCAssumption DEF MCAssumption, Rig!FormAssumption, Rig!RigInv, Rig!RigTypeOK, Rig!Connected,
   Rig!Excused

LEMMA RigPlainNext ==
  ASSUME s1' \in Rig!Params, s2' \in Rig!Pages, s3' \in Rig!Connections,
         s4' \in BOOLEAN, s5' \in BOOLEAN, s6' \in 0..MaxEdits, s7' \in BOOLEAN, s8' \in BOOLEAN,
         Rig!PageSound(s2'),
         s3'.active /\ s5' => s3'.with = s3'.saved \/ (s3'.saved = s1' /\ (s8' \/ ~Rig!Proper(s1'))),
         s3'.active /\ ~s5' => s3'.with = s1' \/ s8' \/ ~Rig!Proper(s1'),
         ~s8' => s1'.pport # "",
         ~s7' => Rig!Proper(s1'),
         ~s5' /\ ~s8' /\ Rig!Proper(s1') => Rig!gather_rig_data(s1', s2') = s1'
  PROVE  Rig!RigInv'
BY DEF Rig!RigInv, Rig!RigTypeOK, Rig!Connected, Rig!Excused

LEMMA RigInitial ==
  ASSUME Rig!Init PROVE Rig!RigInv
<1>1. s1 \in Rig!Params /\ Rig!Proper(s1) /\ s2 = Rig!Built(s1) /\ MaxEdits \in Nat
  BY MCAssumption DEF MCAssumption, Rig!FormAssumption, Rig!Init
<1>2. /\ s2 \in Rig!Pages /\ Rig!PageSound(s2)
      /\ ~s8 => s1.pport # "" /\ Rig!gather_rig_data(s1, s2) = s1
  BY <1>1, BuiltIs DEF Rig!Init, Rig!NamesNoPort
<1>3. Rig!gather_rig_data(s1, s2) \in Rig!Params
  BY <1>1, <1>2, GatherIs
<1>4. PICK b \in BOOLEAN : s3 = [active |-> b, with |-> Rig!gather_rig_data(s1, s2),
                                 saved |-> Rig!gather_rig_data(s1, s2), changed |-> TRUE]
  BY DEF Rig!Init
<1>5. s3 \in Rig!Connections /\ s3.with = Rig!gather_rig_data(s1, s2)
  BY <1>3, <1>4 DEF Rig!Connections
<1>6. s8 \in BOOLEAN /\ s4 = FALSE /\ s5 = FALSE /\ s6 = 0 /\ s7 = FALSE
  BY DEF Rig!Init, Rig!NamesNoPort
<1>7. Rig!RigTypeOK
  <2>1. s6 \in 0..MaxEdits
    BY <1>1, <1>6
  <2>2. s4 \in BOOLEAN /\ s5 \in BOOLEAN /\ s7 \in BOOLEAN /\ s8 \in BOOLEAN
    BY <1>6, Zenon
  <2> QED BY <1>1, <1>2, <1>5, <2>1, <2>2 DEF Rig!RigTypeOK
<1> QED BY <1>1, <1>2, <1>5, <1>6, <1>7 DEF Rig!RigInv, Rig!Connected, Rig!Excused

\* A click.
LEMMA RigEdited ==
  ASSUME Rig!RigInv, NEW p \in Rig!Pages, Rig!PageSound(p), Rig!Edit(p) PROVE Rig!RigInv'
<1>1. /\ s5 /\ s6 < MaxEdits /\ s6' = s6 + 1 /\ s2' = p
      /\ UNCHANGED <<s1, s3, s4, s5, s7, s8>>
  BY DEF Rig!Edit
<1>2. s6' \in 0..MaxEdits
  <2>1. s6 \in 0..MaxEdits /\ MaxEdits \in Nat
    BY RigPlain
  <2> QED BY <1>1, <2>1
<1> QED BY <1>1, <1>2, RigPlain, RigPlainNext

LEMMA RigSettled ==
  ASSUME Rig!RigInv, NEW p \in Rig!Pages, p.last = "none" => p.form.cat = "", p.form.pport # ""
  PROVE  Rig!Settled(s1, p) \in Rig!Pages /\ Rig!PageSound(Rig!Settled(s1, p))
BY RigPlain, SettledForm, SettledSound

LEMMA RigClicked ==
  ASSUME Rig!RigInv,
         \/ Rig!on_rig_combo_box \/ Rig!on_PTT_method \/ Rig!on_PTT_port_combo_box
         \/ Rig!on_CAT_port_combo_box \/ Rig!CAT_port_typed \/ Rig!on_CAT_handshake
         \/ Rig!on_force_DTR \/ Rig!on_force_RTS \/ Rig!on_audio_source \/ Rig!on_others
  PROVE  Rig!RigInv'
<1>1. s2 \in Rig!Pages /\ Rig!PageSound(s2)
  BY RigPlain
<1>2. s2.form \in Rig!Forms /\ (s2.last = "none" => s2.form["cat"] = "") /\ s2.form["pport"] # ""
  BY <1>1 DEF Rig!Pages, Rig!PageSound
<1>3. \A f \in {"rig", "hw", "dtr", "rts", "method", "rear", "rest"} : f \in FormFields
  BY DEF FormFields
<1>n. "cat" \in FormFields /\ "pport" \in FormFields
  BY DEF FormFields
<1>4. ASSUME NEW f \in {"rig", "hw", "dtr", "rts", "method", "rest"}, NEW v, Rig!Put(s2, f, v) \in Rig!Pages,
             Rig!Edit(Rig!Settled(s1, Rig!Put(s2, f, v)))
      PROVE  Rig!RigInv'
  <2> DEFINE m == Rig!Put(s2, f, v)
  <2>1. m.last = s2.last /\ \A g \in FormFields \ {f} : m.form[g] = s2.form[g]
    BY <1>1, <1>3, PutIs
  <2>2. m.form["cat"] = s2.form["cat"] /\ m.form["pport"] = s2.form["pport"]
    BY <2>1, <1>n
  <2> HIDE DEF m
  <2>3. Rig!Settled(s1, m) \in Rig!Pages /\ Rig!PageSound(Rig!Settled(s1, m))
    BY <1>2, <1>4, <2>1, <2>2, RigSettled DEF m
  <2> QED BY <1>4, <2>3, RigEdited DEF m
<1>5. CASE Rig!on_rig_combo_box
  BY <1>5, <1>1, <1>4, PutPage DEF Rig!on_rig_combo_box
<1>6. CASE Rig!on_PTT_method
  BY <1>6, <1>1, <1>4, PutPage DEF Rig!on_PTT_method
<1>7. CASE Rig!on_CAT_handshake
  BY <1>7, <1>1, <1>2, <1>4, PutPage DEF Rig!on_CAT_handshake, Rig!Forms
<1>8. CASE Rig!on_force_DTR
  BY <1>8, <1>1, <1>2, <1>4, PutPage DEF Rig!on_force_DTR, Rig!Forms
<1>9. CASE Rig!on_force_RTS
  BY <1>9, <1>1, <1>2, <1>4, PutPage DEF Rig!on_force_RTS, Rig!Forms
<1>10. CASE Rig!on_others
  <2>1. 1 - s2.form.rest \in 0..1
    <3>1. s2.form.rest \in 0..1
      BY <1>2 DEF Rig!Forms
    <3>2. \A n \in 0..1 : 1 - n \in 0..1
      OBVIOUS
    <3> QED BY <3>1, <3>2
  <2> QED BY <2>1, <1>10, <1>1, <1>4, PutPage DEF Rig!on_others
<1>11. CASE Rig!on_audio_source
  <2> DEFINE m == Rig!Put(s2, "rear", ~s2.form.rear)
  <2>1. Rig!Edit(m) /\ m \in Rig!Pages
    BY <1>11, <1>1, <1>2, PutPage DEF Rig!on_audio_source, Rig!Forms
  <2>2. m.last = s2.last /\ \A g \in FormFields \ {"rear"} : m.form[g] = s2.form[g]
    BY <1>1, <1>3, PutIs
  <2>3. m.form["cat"] = s2.form["cat"] /\ m.form["pport"] = s2.form["pport"] /\ m.form["rig"] = s2.form["rig"]
    BY <2>2, <1>n, <1>3
  <2> HIDE DEF m
  <2>4. Rig!PageSound(m)
    BY <1>1, <2>2, <2>3 DEF Rig!PageSound
  <2> QED BY <2>1, <2>4, RigEdited
<1>12. CASE Rig!on_PTT_port_combo_box
  <2>1. PICK port \in Rig!Ports \cup {"CAT"} : Rig!Edit(Rig!Settled(s1, Rig!Put(s2, "pport", port)))
    BY <1>12 DEF Rig!on_PTT_port_combo_box
  <2>2. port # ""
    BY MCAssumption DEF MCAssumption, Rig!FormAssumption, Rig!Ports
  <2> DEFINE m == Rig!Put(s2, "pport", port)
  <2>3. m \in Rig!Pages
    BY <1>1, PutPage
  <2>4. m.last = s2.last /\ m.form["pport"] = port /\ \A g \in FormFields \ {"pport"} : m.form[g] = s2.form[g]
    BY <1>1, <1>n, PutIs
  <2>5. m.form["cat"] = s2.form["cat"]
    BY <2>4, <1>n
  <2> HIDE DEF m
  <2>6. Rig!Settled(s1, m) \in Rig!Pages /\ Rig!PageSound(Rig!Settled(s1, m))
    BY <1>2, <2>2, <2>3, <2>4, <2>5, RigSettled
  <2> QED BY <2>1, <2>6, RigEdited DEF m
\* An address is chosen or typed.
<1>13. ASSUME NEW text \in Rig!Texts, s2.last # "none"
       PROVE  /\ Rig!Put(s2, "cat", text) \in Rig!Pages /\ Rig!PageSound(Rig!Put(s2, "cat", text))
              /\ Rig!Settled(s1, Rig!Put(s2, "cat", text)) \in Rig!Pages
              /\ Rig!PageSound(Rig!Settled(s1, Rig!Put(s2, "cat", text)))
  <2> DEFINE m == Rig!Put(s2, "cat", text)
  <2>1. m \in Rig!Pages
    BY <1>1, PutPage
  <2>2. m.last = s2.last /\ \A g \in FormFields \ {"cat"} : m.form[g] = s2.form[g]
    BY <1>1, <1>n, PutIs
  <2>3. m.form["pport"] = s2.form["pport"] /\ m.form["rig"] = s2.form["rig"]
    BY <2>2, <1>n, <1>3
  <2> HIDE DEF m
  <2>4. Rig!PageSound(m)
    BY <1>1, <1>13, <2>2, <2>3 DEF Rig!PageSound
  <2>5. Rig!Settled(s1, m) \in Rig!Pages /\ Rig!PageSound(Rig!Settled(s1, m))
    BY <1>2, <1>13, <2>1, <2>2, <2>3, RigSettled
  <2> QED BY <2>1, <2>4, <2>5 DEF m
<1>14. CASE Rig!on_CAT_port_combo_box
  BY <1>14, <1>13, RigEdited DEF Rig!on_CAT_port_combo_box, Rig!Texts
<1>15. CASE Rig!CAT_port_typed
  BY <1>15, <1>13, RigEdited DEF Rig!CAT_port_typed
<1> QED BY <1>5, <1>6, <1>7, <1>8, <1>9, <1>10, <1>11, <1>12, <1>14, <1>15
\* The dialog is opened, left, or the connection tested.
LEMMA RigOpened ==
  ASSUME Rig!RigInv, Rig!exec PROVE Rig!RigInv'
<1>1. /\ ~s5 /\ s5' = TRUE /\ s4' = s3.active /\ s3' = [s3 EXCEPT !.saved = s1, !.changed = FALSE]
      /\ s2' = Rig!initialize_models(s1, s2) /\ UNCHANGED <<s1, s6, s7, s8>>
  BY DEF Rig!exec
<1>2. s1 \in Rig!Params /\ s3 \in Rig!Connections
  BY RigPlain
<1>3. s3' \in Rig!Connections /\ s3'.saved = s1 /\ s3'.with = s3.with /\ s3'.active = s3.active
      /\ s4' \in BOOLEAN
  BY <1>1, <1>2 DEF Rig!Connections
<1>4. s2' \in Rig!Pages /\ Rig!PageSound(s2')
  BY <1>1, RigPlain, InitializedSound
<1> QED BY <1>1, <1>3, <1>4, RigPlain, RigPlainNext

LEMMA RigTested ==
  ASSUME Rig!RigInv, Rig!on_test_CAT \/ Rig!on_test_PTT \/ Rig!transceiver_online
  PROVE  Rig!RigInv'
<1> DEFINE data == Rig!gather_rig_data(s1, s2)
<1>1. data \in Rig!Params /\ s3 \in Rig!Connections
  BY RigPlain
<1>2. CASE Rig!on_test_CAT
  <2>1. /\ s5 /\ s6 < MaxEdits /\ s6' = s6 + 1 /\ s3' \in Forced(s3, data)
        /\ s2' = Rig!Settled(s1, s2) /\ UNCHANGED <<s1, s4, s5, s7, s8>>
    BY <1>2 DEF Rig!on_test_CAT, Forced
  <2> HIDE DEF data
  <2>2. s3' \in Rig!Connections /\ s3'.with = data /\ s3'.saved = data
    BY <1>1, <2>1, OpenedIs
  <2>3. s2' \in Rig!Pages /\ Rig!PageSound(s2')
    BY <2>1, RigPlain, RigSettled DEF Rig!PageSound
  <2>4. s6' \in 0..MaxEdits
    <3>1. s6 \in 0..MaxEdits /\ MaxEdits \in Nat
      BY RigPlain
    <3> QED BY <2>1, <3>1
  <2> QED BY <2>1, <2>2, <2>3, <2>4, RigPlain, RigPlainNext
<1>3. CASE Rig!on_test_PTT
  <2>1. s5 /\ s3' \in Asked(s3, data) /\ UNCHANGED <<s1, s2, s4, s5, s6, s7, s8>>
    BY <1>3 DEF Rig!on_test_PTT, Asked
  <2> HIDE DEF data
  <2>2. s3' \in Rig!Connections /\ (s3' = s3 \/ (s3'.with = data /\ s3'.saved = data))
    BY <1>1, <2>1, OpenedIs
  <2> QED BY <2>1, <2>2, RigPlain, RigPlainNext
<1>4. CASE Rig!transceiver_online
  <2>1. ~s5 /\ s3' \in Asked(s3, data) /\ UNCHANGED <<s1, s2, s4, s5, s6, s7, s8>>
    BY <1>4 DEF Rig!transceiver_online, Asked
  <2>2. ~s8 /\ Rig!Proper(s1) => data = s1
    BY <2>1, RigPlain
  <2> HIDE DEF data
  <2>3. s3' \in Rig!Connections /\ (s3' = s3 \/ (s3'.with = data /\ s3'.saved = data))
    BY <1>1, <2>1, OpenedIs
  <2> QED BY <2>1, <2>2, <2>3, RigPlain, RigPlainNext DEF data
<1> QED BY <1>2, <1>3, <1>4

LEMMA RigAccepted ==
  ASSUME Rig!RigInv, Rig!accept PROVE Rig!RigInv'
<1> DEFINE data == Rig!gather_rig_data(s1, s2)
<1>1. /\ s1 \in Rig!Params /\ s2 \in Rig!Pages /\ s3 \in Rig!Connections /\ data \in Rig!Params
      /\ Rig!PageSound(s2) /\ data.pport # "" /\ Rig!gather_rig_data(data, s2) = data
  BY RigPlain, GatherIs DEF Rig!PageSound
<1>2. s5 /\ Rig!Valid(s2) /\ UNCHANGED <<s2, s4, s6>>
  BY DEF Rig!accept
<1>3. PICK r \in Rig!Reopened(data) :
        IF data # s1 /\ ~r.active
        THEN s3' = r /\ UNCHANGED <<s1, s5, s7, s8>>
        ELSE /\ s1' = data /\ s5' = FALSE /\ s8' = (s8 /\ data = s1)
             /\ s7' = (Rig!Settled(data, s2) # s2)
             /\ s3' \in Asked(r, Rig!gather_rig_data(data, s2))
  BY DEF Rig!accept, Asked
<1>4. Rig!Settled(data, s2) = s2 => Rig!Proper(data)
  BY <1>1, <1>2, AcceptedProper
<1> HIDE DEF data
<1>5. /\ r \in Rig!Connections
      /\ data = s1 => r = s3
      /\ data # s1 => (r = s3 /\ s3.active /\ s3.saved = data) \/ (r.with = data /\ r.saved = data)
  <2>1. (data = s1 /\ r = s3) \/ (data # s1 /\ r \in Asked(s3, data))
    BY <1>3 DEF Rig!Reopened, Asked
  <2>2. CASE data = s1 /\ r = s3
    BY <2>2, <1>1
  <2>3. CASE data # s1 /\ r \in Asked(s3, data)
    <3>1. data \in Rig!Params /\ s3 \in Rig!Connections /\ r \in Asked(s3, data)
      BY <2>3, <1>1
    <3>2. /\ r \in Rig!Connections
          /\ (r = s3 /\ s3.active /\ s3.saved = data) \/ (r.with = data /\ r.saved = data)
      BY <3>1, OpenedIs
    <3> QED BY <2>3, <3>2
  <2> QED BY <2>1, <2>2, <2>3
<1>6. CASE data # s1 /\ ~r.active
  BY <1>2, <1>3, <1>5, <1>6, RigPlain, RigPlainNext
<1>7. CASE ~(data # s1 /\ ~r.active)
  <2>1. /\ s1' = data /\ s5' = FALSE /\ s8' = (s8 /\ data = s1) /\ s7' = (Rig!Settled(data, s2) # s2)
        /\ s3' \in Asked(r, data)
    BY <1>1, <1>3, <1>7
  <2>2. /\ s3' \in Rig!Connections
        /\ (s3' = r /\ r.active /\ r.saved = data) \/ (s3'.with = data /\ s3'.saved = data)
    <3>1. data \in Rig!Params /\ r \in Rig!Connections
      BY <1>1, <1>5
    <3>2. s3' \in Asked(r, data)
      BY <2>1
    <3> QED BY <3>1, <3>2, OpenedIs
  <2>3. s7' \in BOOLEAN /\ s8' \in BOOLEAN /\ (~s7' => Rig!Settled(data, s2) = s2)
    BY <2>1, Zenon
  <2>4. s3'.active => s3'.with = data \/ s8' \/ ~Rig!Proper(data)
    <3>1. CASE data = s1
      BY <3>1, <1>2, <1>5, <2>1, <2>2, RigPlain
    <3>2. CASE data # s1
      BY <3>2, <1>2, <1>5, <2>2, RigPlain
    <3> QED BY <3>1, <3>2
  <2> QED BY <1>1, <1>2, <1>4, <2>1, <2>2, <2>3, <2>4, RigPlain, RigPlainNext
<1> QED BY <1>6, <1>7

LEMMA RigRejected ==
  ASSUME Rig!RigInv, Rig!reject PROVE Rig!RigInv'
<1> DEFINE data == Rig!gather_rig_data(s1, s2')
<1>1. s5 /\ s5' = FALSE /\ s2' = Rig!initialize_models(s1, s2) /\ UNCHANGED <<s1, s4, s6, s7>>
      /\ s8' = (s8 \/ data.address # s1.address)
  BY DEF Rig!reject
<1>2. s2' \in Rig!Pages /\ Rig!PageSound(s2')
  BY <1>1, RigPlain, InitializedSound
<1>3. data \in Rig!Params /\ s1 \in Rig!Params /\ s3 \in Rig!Connections
  BY <1>2, RigPlain, GatherIs
<1>4. ~s8' /\ Rig!Proper(s1) => data = s1 /\ ~s8
  BY <1>1, RigPlain, InitializedShows
<1>5. PICK r \in IF ~s3.changed THEN {s3}
                 ELSE IF s4 THEN Asked(s3, data) ELSE {[s3 EXCEPT !.active = FALSE]} :
        s3' \in Asked(r, data)
  BY DEF Rig!reject, Asked
<1> HIDE DEF data
<1>6. r \in Rig!Connections /\ (r = s3 \/ ~r.active \/ (r.with = data /\ r.saved = data))
  <2>1. CASE r = s3
    BY <2>1, <1>3
  <2>2. CASE r \in Asked(s3, data)
    BY <2>2, <1>3, OpenedIs
  <2>3. CASE r = [s3 EXCEPT !.active = FALSE]
    BY <2>3, <1>3 DEF Rig!Connections
  <2> QED BY <1>5, <2>1, <2>2, <2>3
<1>7. /\ s3' \in Rig!Connections
      /\ (s3' = r /\ r.active /\ r.saved = data) \/ (s3'.with = data /\ s3'.saved = data)
  BY <1>3, <1>5, <1>6, OpenedIs
<1>8. s3'.active => s3'.with = s1 \/ s8' \/ ~Rig!Proper(s1)
  BY <1>1, <1>4, <1>6, <1>7, RigPlain
<1>9. s8' \in BOOLEAN /\ (~s8' => ~s8)
  BY <1>1, RigPlain, Zenon
<1> QED BY <1>1, <1>2, <1>4, <1>7, <1>8, <1>9, RigPlain, RigPlainNext DEF data

LEMMA RigRestarted ==
  ASSUME Rig!RigInv, Rig!restart PROVE Rig!RigInv'
<1> DEFINE data == Rig!gather_rig_data(s1, s2')
<1>1. ~s5 /\ s2' = Rig!Built(s1) /\ s8' = Rig!NamesNoPort(s1) /\ s4' = FALSE /\ UNCHANGED <<s1, s5, s6, s7>>
  BY DEF Rig!restart
<1>2. PICK b \in BOOLEAN : s3' = [active |-> b, with |-> data, saved |-> data, changed |-> TRUE]
  BY DEF Rig!restart
<1>3. /\ s2' \in Rig!Pages /\ Rig!PageSound(s2') /\ data \in Rig!Params
      /\ ~s8' /\ Rig!Proper(s1) => data = s1
  BY <1>1, RigPlain, BuiltIs, GatherIs
<1> HIDE DEF data
<1>4. s3' \in Rig!Connections /\ s3'.with = data
  BY <1>2, <1>3 DEF Rig!Connections
<1>5. s8' \in BOOLEAN /\ (~s8' => s1.pport # "")
  BY <1>1 DEF Rig!NamesNoPort
<1> QED BY <1>1, <1>3, <1>4, <1>5, RigPlain, RigPlainNext DEF data

LEMMA RigHolds ==
  ASSUME Rig!RigInv, Rig!Next PROVE Rig!RigInv'
<1>1. CASE Rig!handle_transceiver_failure
  <2>1. s3' = [s3 EXCEPT !.active = FALSE] /\ UNCHANGED <<s1, s2, s4, s5, s6, s7, s8>>
    BY <1>1 DEF Rig!handle_transceiver_failure
  <2>2. s3 \in Rig!Connections
    BY RigPlain
  <2>3. s3' \in Rig!Connections /\ ~s3'.active
    BY <2>1, <2>2 DEF Rig!Connections
  <2> QED BY <2>1, <2>3, RigPlain, RigPlainNext
<1> QED BY <1>1, RigOpened, RigTested, RigAccepted, RigRejected, RigRestarted, RigClicked DEF Rig!Next

LEMMA RigStutter ==
  ASSUME Rig!RigInv, UNCHANGED Rig!vars PROVE Rig!RigInv'
<1>1. UNCHANGED <<s1, s2, s3, s4, s5, s6, s7, s8>>
  BY DEF Rig!vars
<1> QED BY <1>1, RigPlain, RigPlainNext

LEMMA RigShows ==
  ASSUME Rig!RigInv PROVE Rig!RigAsSet /\ Rig!KeyingPossible
BY RigPlain DEF Rig!RigAsSet, Rig!KeyingPossible, Rig!Proper
----------------------------------------------------------------------------
\* The mode menu.  The window of v is that of w but for its periods (Kept), and for its Tx
\* mode (Aside).
Aside(w, v) ==
  /\ v \in Menu!Windows
  /\ v.mode = w.mode /\ v.sub = w.sub /\ v.fast = w.fast
  /\ v.fast9 = w.fast9 /\ v.shown = w.shown /\ v.txOn = w.txOn /\ v.nsps = w.nsps
  /\ v.simplex = w.simplex
Kept(w, v) == Aside(w, v) /\ v.modeTx = w.modeTx
Agrees(w) == w.det = w.period /\ w.mod = w.period

LEMMA TimedIs ==
  ASSUME NEW w \in Menu!Windows, NEW p \in Int
  PROVE  Kept(w, Menu!Timed(w, p)) /\ Agrees(Menu!Timed(w, p))
BY DEF Menu!Timed, Menu!Windows, Kept, Aside, Agrees

LEMMA SetTRIs ==
  ASSUME NEW w \in Menu!Windows, NEW n \in Int, ~w.fast, Agrees(w)
  PROVE  Kept(w, Menu!SetTR(w, n)) /\ Agrees(Menu!SetTR(w, n))
<1> DEFINE k == Menu!Clamped(n)
           t == [w EXCEPT !.box9 = k, !.tr = k, !.fastPeriod = IF w.fast THEN w.period ELSE @]
<1>1. k \in Int
  BY DEF Menu!Clamped
<1> HIDE DEF k
<1>2. w.period \in Int
  BY DEF Menu!Windows
<1>3. Kept(w, t)
  BY <1>1 DEF Menu!Windows, Kept, Aside
<1> HIDE DEF t
<1>4. Menu!SetTR(w, n) \in {w, Menu!Timed(t, w.period)}
  BY DEF Menu!SetTR, k, t
<1>5. Kept(t, Menu!Timed(t, w.period)) /\ Agrees(Menu!Timed(t, w.period))
  BY <1>2, <1>3, TimedIs DEF Kept, Aside
<1>6. Kept(w, w) /\ Kept(w, Menu!Timed(t, w.period))
  BY <1>3, <1>5 DEF Kept, Aside
<1> QED BY <1>4, <1>5, <1>6

LEMMA FlipIs ==
  ASSUME NEW w \in Menu!Windows
  PROVE  /\ Aside(w, Menu!Flip(w)) /\ (Agrees(w) => Agrees(Menu!Flip(w)))
         /\ Menu!Flip(w).modeTx = (IF w.modeTx = "JT9" THEN "JT65" ELSE "JT9")
<1>1. "JT9" \in Older /\ "JT65" \in Older
  BY DEF Older
<1> QED BY <1>1 DEF Menu!Flip, Menu!Windows, Aside, Agrees

LEMMA UntilIs ==
  ASSUME NEW w \in Menu!Windows, NEW tx \in {"JT9", "JT65"},
         tx = "JT9" \/ w.modeTx \in {"JT9", "JT65"}
  PROVE  Aside(w, Menu!Until(w, tx)) /\ Menu!Until(w, tx).modeTx = tx
BY FlipIs DEF Menu!Until, Aside

LEMMA FastIs ==
  ASSUME NEW w \in Menu!Windows, NEW b \in BOOLEAN, ~b
  PROVE  LET v == Menu!Fast(w, b) IN
         /\ v \in Menu!Windows /\ ~v.fast /\ v.txOn
         /\ v.mode = w.mode /\ v.modeTx = w.modeTx /\ v.sub = w.sub
         /\ v.fast9 = w.fast9 /\ v.shown = w.shown /\ v.nsps = w.nsps
         /\ v.simplex = w.simplex /\ (Agrees(w) => Agrees(v))
BY DEF Menu!Fast, Menu!Windows, Agrees

LEMMA NoVhfIs ==
  ASSUME NEW w \in Menu!Windows, ~w.fast, w.sub = 0, Agrees(w)
  PROVE  Kept(w, Menu!NoVhf(w)) /\ Agrees(Menu!NoVhf(w))
<1>1. Menu!SetSub(w, 0) = w
  BY DEF Menu!SetSub
<1> QED BY <1>1, SetTRIs DEF Menu!NoVhf

LEMMA SubMaxIs ==
  ASSUME NEW w \in Menu!Windows, NEW n \in Nat, w.sub = 0, Agrees(w)
  PROVE  Kept(w, Menu!SubMax(w, n)) /\ Agrees(Menu!SubMax(w, n))
<1>1. Menu!SubMax(w, n) = [w EXCEPT !.subMax = n]
  BY DEF Menu!SubMax
<1> QED BY <1>1 DEF Menu!Windows, Kept, Aside, Agrees

LEMMA Names ==
  /\ "JT9" \in Older /\ "JT65" \in Older /\ "T10" \in Older /\ "WSPR-2" \in Older /\ "JT9+JT65" \in Older
  /\ Menu!Slow \in Int
BY DEF Older, Menu!Slow

\* Each entry of the menu leaves a plain window in its mode.
LEMMA EntersJT9 ==
  ASSUME NEW w, Menu!Plain(w) PROVE Menu!InMode(Menu!JT9(w), "JT9")
<1> DEFINE a == [w EXCEPT !.mode = "JT9", !.on9 = FALSE, !.set9 = FALSE, !.fast9 = FALSE]
           t == [a EXCEPT !.fast = FALSE, !.simplex = FALSE, !.nsps = Menu!Slow]
           u == Menu!Until(t, "JT9")
           v == Menu!Timed(u, 60)
<1>1. w \in Menu!Windows /\ w.sub = 0 /\ ~w.shown /\ w.txOn
  BY DEF Menu!Plain
<1>2. /\ a \in Menu!Windows /\ a.mode = "JT9" /\ a.sub = 0 /\ ~a.fast9 /\ ~a.shown /\ a.txOn
  BY <1>1, Names DEF Menu!Windows
<1>3. Menu!JT9(w) = v
  BY DEF Menu!JT9
<1> HIDE DEF a
<1>4. /\ t \in Menu!Windows /\ t.mode = "JT9" /\ t.sub = 0 /\ ~t.fast /\ ~t.fast9 /\ ~t.simplex
      /\ t.nsps = Menu!Slow /\ ~t.shown /\ t.txOn
  BY <1>2, Names DEF Menu!Windows
<1> HIDE DEF t
<1>5. Aside(t, u) /\ u.modeTx = "JT9"
  BY <1>4, UntilIs
<1> HIDE DEF u
<1>6. Kept(u, v) /\ Agrees(v)
  BY <1>5, TimedIs DEF Aside
<1> HIDE DEF v
<1>7. Menu!Plain(v) /\ ~v.simplex /\ v.mode = "JT9" /\ v.modeTx = "JT9"
  BY <1>4, <1>5, <1>6 DEF Kept, Aside, Menu!Plain
<1>8. Menu!InMode(v, "JT9")
  BY <1>6, <1>7 DEF Menu!InMode, Agrees
<1> QED BY <1>3, <1>8

LEMMA EntersT10 ==
  ASSUME NEW w, Menu!Plain(w) PROVE Menu!InMode(Menu!T10(w), "T10")
<1> DEFINE t == [w EXCEPT !.mode = "T10", !.simplex = FALSE, !.modeTx = "T10", !.nsps = Menu!Slow]
           v == Menu!Timed(t, 60)
<1>1. w \in Menu!Windows /\ w.sub = 0 /\ ~w.fast /\ ~w.fast9 /\ ~w.shown /\ w.txOn
  BY DEF Menu!Plain
<1>2. /\ t \in Menu!Windows /\ t.mode = "T10" /\ t.modeTx = "T10" /\ t.sub = 0 /\ ~t.fast /\ ~t.fast9
      /\ ~t.simplex /\ t.nsps = Menu!Slow /\ ~t.shown /\ t.txOn
  BY <1>1, Names DEF Menu!Windows
<1>3. Menu!T10(w) = v
  BY DEF Menu!T10
<1> HIDE DEF t
<1>4. Kept(t, v) /\ Agrees(v)
  BY <1>2, TimedIs
<1> HIDE DEF v
<1>5. Menu!Plain(v) /\ ~v.simplex /\ v.mode = "T10" /\ v.modeTx = "T10"
  BY <1>2, <1>4 DEF Kept, Aside, Menu!Plain
<1>6. Menu!InMode(v, "T10")
  BY <1>4, <1>5 DEF Menu!InMode, Agrees
<1> QED BY <1>3, <1>6

LEMMA EntersWSPR ==
  ASSUME NEW w, Menu!Plain(w) PROVE Menu!InMode(Menu!WSPR(w), "WSPR-2")
<1> DEFINE a == [w EXCEPT !.mode = "WSPR-2", !.simplex = TRUE, !.modeTx = "WSPR-2"]
           t == [a EXCEPT !.nsps = Menu!Slow, !.fast9 = FALSE]
           u == Menu!Timed(t, 120)
           v == Menu!Fast(u, FALSE)
<1>1. w \in Menu!Windows /\ w.sub = 0 /\ ~w.shown
  BY DEF Menu!Plain
<1>2. /\ a \in Menu!Windows /\ a.mode = "WSPR-2" /\ a.modeTx = "WSPR-2" /\ a.sub = 0 /\ ~a.shown /\ a.simplex
  BY <1>1, Names DEF Menu!Windows
<1>3. Menu!WSPR(w) = v
  BY DEF Menu!WSPR
<1> HIDE DEF a
<1>4. /\ t \in Menu!Windows /\ t.mode = "WSPR-2" /\ t.modeTx = "WSPR-2" /\ t.sub = 0 /\ ~t.fast9
      /\ t.simplex /\ t.nsps = Menu!Slow /\ ~t.shown
  BY <1>2, Names DEF Menu!Windows
<1> HIDE DEF t
<1>5. Kept(t, u) /\ Agrees(u)
  BY <1>4, TimedIs
<1> HIDE DEF u
<1>6. /\ v \in Menu!Windows /\ ~v.fast /\ v.txOn /\ v.mode = u.mode /\ v.modeTx = u.modeTx
      /\ v.sub = u.sub /\ v.fast9 = u.fast9 /\ v.shown = u.shown /\ v.nsps = u.nsps
      /\ v.simplex = u.simplex /\ Agrees(v)
  BY <1>5, FastIs DEF Kept, Aside
<1> HIDE DEF v
<1>7. Menu!Plain(v) /\ v.simplex /\ v.mode = "WSPR-2" /\ v.modeTx = "WSPR-2"
  BY <1>4, <1>5, <1>6 DEF Kept, Aside, Menu!Plain
<1>8. Menu!InMode(v, "WSPR-2")
  BY <1>6, <1>7 DEF Menu!InMode, Agrees
<1> QED BY <1>3, <1>8

LEMMA EntersBoth ==
  ASSUME NEW w, Menu!Plain(w) PROVE Menu!InMode(Menu!Both(w), "JT9+JT65")
<1> DEFINE a == [w EXCEPT !.mode = "JT9+JT65", !.simplex = FALSE, !.modeTx = "JT65"]
           b == [a EXCEPT !.nsps = Menu!Slow, !.fast9 = FALSE, !.shown = FALSE]
           d == Menu!Timed(b, 60)
           t == [d EXCEPT !.fast = FALSE]
           u == Menu!Fast(t, FALSE)
           n == Menu!NoVhf(u)
           v == [n EXCEPT !.sub = 0]
<1>1. w \in Menu!Windows /\ w.sub = 0
  BY DEF Menu!Plain
<1>2. a \in Menu!Windows /\ a.mode = "JT9+JT65" /\ a.modeTx = "JT65" /\ a.sub = 0 /\ ~a.simplex
  BY <1>1, Names DEF Menu!Windows
<1>3. Menu!Both(w) = v
  BY DEF Menu!Both
<1> HIDE DEF a
<1>4. /\ b \in Menu!Windows /\ b.mode = "JT9+JT65" /\ b.modeTx = "JT65" /\ b.sub = 0 /\ ~b.simplex
      /\ b.nsps = Menu!Slow /\ ~b.fast9 /\ ~b.shown
  BY <1>2, Names DEF Menu!Windows
<1> HIDE DEF b
<1>5. Kept(b, d) /\ Agrees(d)
  BY <1>4, TimedIs
<1> HIDE DEF d
<1>6. /\ t \in Menu!Windows /\ t.mode = "JT9+JT65" /\ t.modeTx = "JT65" /\ t.sub = 0 /\ ~t.simplex
      /\ t.nsps = Menu!Slow /\ ~t.fast9 /\ ~t.shown /\ Agrees(t)
  BY <1>4, <1>5 DEF Kept, Aside, Agrees, Menu!Windows
<1> HIDE DEF t
<1>7. /\ u \in Menu!Windows /\ ~u.fast /\ u.txOn /\ u.mode = t.mode /\ u.modeTx = t.modeTx
      /\ u.sub = t.sub /\ u.fast9 = t.fast9 /\ u.shown = t.shown /\ u.nsps = t.nsps
      /\ u.simplex = t.simplex /\ Agrees(u)
  BY <1>6, FastIs
<1> HIDE DEF u
<1>8. Kept(u, n) /\ Agrees(n)
  BY <1>6, <1>7, NoVhfIs
<1> HIDE DEF n
<1>9. Kept(n, v) /\ Agrees(v)
  BY <1>6, <1>7, <1>8 DEF Kept, Aside, Agrees, Menu!Windows
<1> HIDE DEF v
<1>10. Menu!Plain(v) /\ ~v.simplex /\ v.mode = "JT9+JT65" /\ v.modeTx = "JT65"
  BY <1>6, <1>7, <1>8, <1>9 DEF Kept, Aside, Menu!Plain
<1>11. Menu!InMode(v, "JT9+JT65")
  BY <1>9, <1>10 DEF Menu!InMode, Agrees
<1> QED BY <1>3, <1>11

LEMMA EntersJT65 ==
  ASSUME NEW w, Menu!Plain(w), w.mode \in {"T10", "WSPR-2"} \/ w.modeTx \in {"JT9", "JT65"}, s3 = FALSE
  PROVE  Menu!InMode(Menu!JT65(w), "JT65")
<1> DEFINE f == IF w.mode \in {"T10", "WSPR-2", "WSPR-15"} THEN Menu!Flip([w EXCEPT !.modeTx = "JT9"]) ELSE w
           a == [f EXCEPT !.mode = "JT65", !.simplex = FALSE, !.nsps = Menu!Slow]
           t == Menu!Timed(Menu!Until(a, "JT65"), 60)
           b == [t EXCEPT !.fast9 = FALSE, !.shown = s3]
           u == Menu!Fast(b, FALSE)
           c == Menu!SubMax(u, 2)
           v == Menu!NoVhf(c)
<1>1. w \in Menu!Windows /\ w.sub = 0
  BY DEF Menu!Plain
<1>2. Menu!JT65(w) = v
  BY DEF Menu!JT65
<1>3. f \in Menu!Windows /\ f.sub = 0 /\ f.modeTx \in {"JT9", "JT65"}
  <2>1. [w EXCEPT !.modeTx = "JT9"] \in Menu!Windows /\ [w EXCEPT !.modeTx = "JT9"].sub = 0
    BY <1>1, Names DEF Menu!Windows
  <2>2. /\ Menu!Flip([w EXCEPT !.modeTx = "JT9"]) \in Menu!Windows
        /\ Menu!Flip([w EXCEPT !.modeTx = "JT9"]).sub = 0
        /\ Menu!Flip([w EXCEPT !.modeTx = "JT9"]).modeTx \in {"JT9", "JT65"}
    BY <2>1, FlipIs DEF Aside
  <2> QED BY <1>1, <2>2
<1> HIDE DEF f
<1>4. a \in Menu!Windows /\ a.mode = "JT65" /\ a.sub = 0 /\ ~a.simplex /\ a.nsps = Menu!Slow /\ a.modeTx \in {"JT9", "JT65"}
  BY <1>3, Names DEF Menu!Windows
<1> HIDE DEF a
<1>5. /\ t \in Menu!Windows /\ t.mode = "JT65" /\ t.modeTx = "JT65" /\ t.sub = 0 /\ ~t.simplex /\ t.nsps = Menu!Slow /\ Agrees(t)
  <2>1. Aside(a, Menu!Until(a, "JT65")) /\ Menu!Until(a, "JT65").modeTx = "JT65"
    BY <1>4, UntilIs
  <2>2. Kept(Menu!Until(a, "JT65"), t) /\ Agrees(t)
    BY <2>1, TimedIs DEF Aside
  <2> QED BY <1>4, <2>1, <2>2 DEF Kept, Aside
<1> HIDE DEF t
<1>6. /\ b \in Menu!Windows /\ b.mode = "JT65" /\ b.modeTx = "JT65" /\ b.sub = 0 /\ ~b.simplex /\ b.nsps = Menu!Slow
      /\ ~b.fast9 /\ ~b.shown /\ Agrees(b)
  <2>1. s3 \in BOOLEAN
    OBVIOUS
  <2> QED BY <1>5, <2>1 DEF Menu!Windows, Agrees
<1> HIDE DEF b
<1>7. /\ u \in Menu!Windows /\ ~u.fast /\ u.txOn /\ u.mode = b.mode /\ u.modeTx = b.modeTx
      /\ u.sub = b.sub /\ u.fast9 = b.fast9 /\ u.shown = b.shown /\ u.nsps = b.nsps
      /\ u.simplex = b.simplex /\ Agrees(u)
  BY <1>6, FastIs
<1> HIDE DEF u
<1>8. Kept(u, c) /\ Agrees(c)
  BY <1>6, <1>7, SubMaxIs
<1> HIDE DEF c
<1>9. Kept(c, v) /\ Agrees(v)
  BY <1>6, <1>7, <1>8, NoVhfIs DEF Kept, Aside
<1> HIDE DEF v
<1>10. Menu!Plain(v) /\ ~v.simplex /\ v.mode = "JT65" /\ v.modeTx = "JT65"
  BY <1>6, <1>7, <1>8, <1>9 DEF Kept, Aside, Menu!Plain
<1>11. Menu!InMode(v, "JT65")
  BY <1>9, <1>10 DEF Menu!InMode, Agrees
<1> QED BY <1>2, <1>11

LEMMA Enters ==
  ASSUME NEW w, NEW x \in {"JT9", "JT65", "JT9+JT65", "T10", "WSPR-2"}, Menu!Plain(w), s3 = FALSE,
         w.mode \in {"T10", "WSPR-2"} \/ w.modeTx \in {"JT9", "JT65"}
  PROVE  Menu!InMode(Menu!Enter(w, x), x)
BY EntersJT9, EntersJT65, EntersBoth, EntersT10, EntersWSPR DEF Menu!Enter

LEMMA Starts ==
  ASSUME NEW f, NEW x \in {"JT9", "JT65", "JT9+JT65", "T10", "WSPR-2"}, f.mode = x,
         f.modeTx \in IF x = "JT9+JT65" THEN {"JT9", "JT65"} ELSE {x},
         f.sub = 0, ~f.fast, ~f.fast9, f.fast \in BOOLEAN, f.fast9 \in BOOLEAN, f.tr \in Int, s3 = FALSE
  PROVE  Menu!InMode(Menu!Started(f), x)
<1> DEFINE w == [mode |-> f.mode, modeTx |-> f.modeTx, sub |-> f.sub, subMax |-> 7, tr |-> f.tr,
                 period |-> 60, fastPeriod |-> 0, nsps |-> Menu!Slow, fast |-> f.fast \/ f.fast9,
                 fast9 |-> f.fast9, on9 |-> TRUE, set9 |-> f.fast9, box9 |-> 14,
                 shown |-> Menu!Controls(f.mode), txOn |-> TRUE, simplex |-> FALSE, det |-> 60,
                 mod |-> 60]
           e == Menu!Enter(w, x)
           t == Menu!SetTR(e, e.tr)
           v == [t EXCEPT !.mod = t.period, !.period = IF t.fast THEN Menu!Seconds(t.tr) ELSE @]
<1>1. Menu!Started(f) = v
  BY DEF Menu!Started
<1>2. Menu!Controls(f.mode) = FALSE /\ (f.fast \/ f.fast9) = FALSE
  BY DEF Menu!Controls
<1>3. w \in Menu!Windows
  <2>1. x \in Older /\ f.modeTx \in Older
    BY DEF Older
  <2>2. f.mode \in Older /\ f.sub \in Int /\ 7 \in Int /\ f.tr \in Int /\ 60 \in Int /\ 0 \in Int
        /\ Menu!Slow \in Int /\ 14 \in Int
    BY <2>1, Names
  <2>3. (f.fast \/ f.fast9) \in BOOLEAN /\ f.fast9 \in BOOLEAN /\ Menu!Controls(f.mode) \in BOOLEAN
    BY <1>2
  <2> QED BY <2>1, <2>2, <2>3, Zenon DEF Menu!Windows
<1>4. /\ w.sub = 0 /\ ~w.fast /\ ~w.fast9 /\ ~w.shown /\ w.txOn /\ w.nsps = Menu!Slow
      /\ w.mode = x /\ w.modeTx = f.modeTx
  BY <1>2
<1>5. Menu!Plain(w) /\ (w.mode \in {"T10", "WSPR-2"} \/ w.modeTx \in {"JT9", "JT65"})
  BY <1>3, <1>4 DEF Menu!Plain
<1> HIDE DEF w
<1>6. Menu!InMode(e, x)
  BY <1>5, Enters
<1> HIDE DEF e
<1>7. e \in Menu!Windows /\ e.tr \in Int /\ ~e.fast /\ Agrees(e)
  BY <1>6 DEF Menu!InMode, Menu!Plain, Menu!Windows, Agrees
<1>8. Kept(e, t) /\ Agrees(t)
  BY <1>7, SetTRIs
<1> HIDE DEF t
<1>9. ~t.fast
  BY <1>7, <1>8 DEF Kept, Aside
<1>10. v = [t EXCEPT !.mod = t.period, !.period = t.period]
  BY <1>9
<1> HIDE DEF v
<1>11. Kept(t, v) /\ Agrees(v)
  BY <1>8, <1>10 DEF Kept, Aside, Agrees, Menu!Windows
<1> QED BY <1>1, <1>6, <1>8, <1>11 DEF Menu!InMode, Menu!Plain, Kept, Aside, Agrees

LEMMA MenuInitial ==
  ASSUME Menu!Init PROVE Menu!MenuInv
<1>1. PICK f \in Menu!Files : s2 = f /\ s1 = Menu!Started(f)
  BY DEF Menu!Init
<1>2. s5 \in BOOLEAN /\ (~s5 => s3 = FALSE /\ f.mode \in {"JT9", "JT65", "JT9+JT65", "T10", "WSPR-2"})
  BY <1>1 DEF Menu!Init
<1>3. ASSUME ~s5 PROVE Menu!InMode(s1, f.mode)
  <2>0. f = Menu!Fresh \/ \E x \in Older \ {Menu!Fresh.mode} : f = [Menu!Fresh EXCEPT !.mode = x, !.modeTx = x]
    BY DEF Menu!Files
  <2>1. /\ Menu!Fresh.mode = "JT9+JT65" /\ Menu!Fresh.modeTx = "JT65" /\ Menu!Fresh.sub = 0
        /\ ~Menu!Fresh.fast /\ ~Menu!Fresh.fast9 /\ Menu!Fresh.tr \in Int
    BY DEF Menu!Fresh
  <2>2. Menu!Fresh \in [mode : Older, modeTx : Older, sub : Int, tr : Int, fast : BOOLEAN, fast9 : BOOLEAN]
    <3>1. 0 \in Int /\ 4 \in Int
      OBVIOUS
    <3> QED BY <3>1, Names, Zenon DEF Menu!Fresh
  <2>3. /\ f.sub = 0 /\ ~f.fast /\ ~f.fast9 /\ f.tr \in Int /\ f.fast \in BOOLEAN /\ f.fast9 \in BOOLEAN
        /\ f.modeTx \in IF f.mode = "JT9+JT65" THEN {"JT9", "JT65"} ELSE {f.mode}
    <3>1. CASE f = Menu!Fresh
      BY <2>1, <2>2, <3>1
    <3>2. CASE \E x \in Older \ {Menu!Fresh.mode} : f = [Menu!Fresh EXCEPT !.mode = x, !.modeTx = x]
      <4>1. PICK x \in Older : f = [Menu!Fresh EXCEPT !.mode = x, !.modeTx = x] /\ x # "JT9+JT65"
        BY <2>1, <3>2
      <4>2. /\ f.mode = x /\ f.modeTx = x /\ f.sub = Menu!Fresh.sub /\ f.tr = Menu!Fresh.tr
            /\ f.fast = Menu!Fresh.fast /\ f.fast9 = Menu!Fresh.fast9
        BY <2>2, <4>1
      <4>3. Menu!Fresh.fast \in BOOLEAN /\ Menu!Fresh.fast9 \in BOOLEAN
        BY <2>2
      <4>4. f.fast \in BOOLEAN /\ f.fast9 \in BOOLEAN /\ ~f.fast /\ ~f.fast9
        BY <2>1, <4>2, <4>3
      <4> QED BY <2>1, <4>1, <4>2, <4>4
    <3> QED BY <2>0, <3>1, <3>2
  <2> QED BY <1>1, <1>2, <1>3, <2>3, Starts
<1> QED BY <1>2, <1>3 DEF Menu!MenuInv, Menu!InMode

LEMMA MenuHolds ==
  ASSUME Menu!MenuInv, Menu!Next PROVE Menu!MenuInv'
<1>1. s5' = s5 /\ s3' = s3 /\ s5 \in BOOLEAN
  BY DEF Menu!MenuInv, Menu!Next, Menu!ChooseMode, Menu!SpinSubmode, Menu!SpinTR, Menu!TickFast9,
     Menu!ClickTxMode, Menu!NewSettings, Menu!Restart, Menu!Op
<1>2. SUFFICES ASSUME ~s5 PROVE s1'.mode \in {"JT9", "JT65", "JT9+JT65", "T10", "WSPR-2"} /\ Menu!InMode(s1', s1'.mode)
  BY <1>1 DEF Menu!MenuInv, Menu!InMode, Menu!Plain
<1>3. /\ s3 = FALSE /\ s1.mode \in {"JT9", "JT65", "JT9+JT65", "T10", "WSPR-2"}
      /\ Menu!InMode(s1, s1.mode)
  BY <1>2 DEF Menu!MenuInv
<1>4. /\ Menu!Plain(s1) /\ ~s1.shown /\ s1 \in Menu!Windows /\ ~s1.fast /\ ~s1.fast9 /\ s1.sub = 0
      /\ s1.modeTx \in IF s1.mode = "JT9+JT65" THEN {"JT9", "JT65"} ELSE {s1.mode}
      /\ s1.mode \in {"T10", "WSPR-2"} \/ s1.modeTx \in {"JT9", "JT65"}
  BY <1>3 DEF Menu!InMode, Menu!Plain
<1>5. ASSUME NEW x \in {"JT9", "JT65", "JT9+JT65", "T10", "WSPR-2"}, s1' = Menu!Enter(s1, x)
      PROVE  s1'.mode = x /\ Menu!InMode(s1', x)
  BY <1>3, <1>4, <1>5, Enters DEF Menu!InMode
<1>6. ASSUME Menu!ClickTxMode PROVE s1'.mode = s1.mode /\ Menu!InMode(s1', s1.mode)
  <2>1. s1' = Menu!Flip(s1) /\ s1.mode = "JT9+JT65"
    BY <1>6 DEF Menu!ClickTxMode
  <2>2. Aside(s1, s1') /\ s1'.modeTx \in {"JT9", "JT65"} /\ Agrees(s1')
    BY <1>3, <1>4, <2>1, FlipIs DEF Menu!InMode, Agrees
  <2> QED BY <1>3, <2>1, <2>2 DEF Aside, Agrees, Menu!InMode, Menu!Plain
<1>7. ASSUME Menu!NewSettings PROVE s1'.mode = s1.mode /\ Menu!InMode(s1', s1.mode)
  <2>1. s1' = [s1 EXCEPT !.shown = FALSE]
    BY <1>3, <1>7 DEF Menu!NewSettings, Menu!Controls
  <2>2. Kept(s1, s1') /\ s1'.det = s1.det /\ s1'.mod = s1.mod /\ s1'.period = s1.period
    BY <1>4, <2>1 DEF Kept, Aside, Menu!Windows
  <2> QED BY <1>3, <2>2 DEF Kept, Aside, Menu!InMode, Menu!Plain
<1>8. ASSUME Menu!Restart PROVE s1'.mode = s1.mode /\ Menu!InMode(s1', s1.mode)
  <2> DEFINE f == [mode |-> s1.mode, modeTx |-> s1.modeTx, sub |-> s1.sub, tr |-> s1.tr,
                   fast |-> s1.fast, fast9 |-> s1.fast9]
  <2>1. s1' = Menu!Started(f)
    BY <1>8 DEF Menu!Restart
  <2>2. /\ f.sub = 0 /\ ~f.fast /\ ~f.fast9 /\ f.fast \in BOOLEAN /\ f.fast9 \in BOOLEAN /\ f.tr \in Int
        /\ f.mode = s1.mode /\ f.modeTx = s1.modeTx
    BY <1>4 DEF Menu!Windows
  <2> HIDE DEF f
  <2>3. Menu!InMode(s1', s1.mode)
    BY <1>3, <1>4, <2>1, <2>2, Starts
  <2> QED BY <2>3 DEF Menu!InMode
<1>9. CASE \E x \in {"JT9", "JT65", "JT9+JT65", "T10", "WSPR-2"} : Menu!ChooseMode(x)
  BY <1>5, <1>9 DEF Menu!ChooseMode
<1>10. ~\E n \in {0, 1, 4} : Menu!SpinSubmode(n)
  BY <1>4 DEF Menu!SpinSubmode
<1>11. ~(\E n \in {11, 13} : Menu!SpinTR(n)) /\ ~Menu!TickFast9
  BY <1>4 DEF Menu!SpinTR, Menu!TickFast9
<1> QED BY <1>3, <1>6, <1>7, <1>8, <1>9, <1>10, <1>11 DEF Menu!Next

LEMMA MenuStutter ==
  ASSUME Menu!MenuInv, UNCHANGED Menu!vars PROVE Menu!MenuInv'
BY DEF Menu!MenuInv, Menu!vars

LEMMA MenuShows ==
  ASSUME Menu!MenuInv PROVE Menu!PeriodsAgree /\ Menu!SignalTrue
BY DEF Menu!MenuInv, Menu!InMode, Menu!Plain, Menu!PeriodsAgree, Menu!SignalTrue, Menu!Sent

----------------------------------------------------------------------------
\* The power.  Recalling writes a memory only where there was nothing.
LEMMA KeyIs ==
  ASSUME NEW b \in PowerBands, NEW m \in PowerModes, NEW x PROVE Power!Key(b, m, x) \in Power!Keys
BY DEF Power!Key, Power!Keys

LEMMA RecalledIs ==
  ASSUME NEW mem \in Power!Memories, NEW k \in Power!Keys, NEW l \in Nat
  PROVE  /\ Power!Recalled(l, mem, k) \in Nat /\ Power!Noted(l, mem, k) \in Power!Memories
         /\ Power!Recalled(l, mem, k) \in {l, mem[k]} /\ (mem[k] # Power!None => Power!Recalled(l, mem, k) = mem[k])
         /\ Power!Noted(l, mem, k)[k] = Power!Recalled(l, mem, k) /\ Power!Recalled(l, mem, k) # Power!None
         /\ \A j \in Power!Keys : /\ j # k \/ mem[j] # Power!None => Power!Noted(l, mem, k)[j] = mem[j]
                                  /\ Power!Noted(l, mem, k)[j] \in {l, mem[j]}
BY DEF Power!Memories, Power!Recalled, Power!Noted, Power!None

LEMMA SetIs ==
  ASSUME NEW mem \in Power!Memories, NEW k \in Power!Keys, NEW l \in Nat \cup {Power!None}
  PROVE  LET q == [mem EXCEPT ![k] = l] IN
         q \in Power!Memories /\ q[k] = l /\ \A j \in Power!Keys : j # k => q[j] = mem[j]
BY DEF Power!Memories

LEMMA PowerPlain ==
  ASSUME Power!PowerInv
  PROVE  /\ s1 \in PowerBands /\ s2 \in PowerModes /\ s4 \in Nat /\ s12 \in Nat
         /\ s5 \in Power!Memories /\ s6 \in Power!Memories /\ s13 \in Power!Memories
         /\ s7 \in BOOLEAN /\ s8 \in BOOLEAN /\ s9 \in BOOLEAN /\ s10 \in BOOLEAN /\ s11 \in BOOLEAN
         /\ s14 \in BOOLEAN /\ s15 \in BOOLEAN
         /\ s10 => s9
         /\ ~s7 => \A k \in Power!Keys : s13[k] = Power!None
         /\ ~s14 => /\ s4 # 0 /\ \A k \in Power!Keys : s5[k] # 0 /\ s6[k] # 0
                    /\ \A k \in Power!Keys : s13[k] # Power!None => s5[k] = s13[k]
                    /\ (s7 /\ ~s15) \/ (s10 /\ s8) => s5[Power!Here] # Power!None
                    /\ s7 /\ ~s10 /\ ~s15 /\ s13[Power!Here] # Power!None => s4 = s13[Power!Here]
         /\ Power!Here \in Power!Keys
BY KeyIs DEF Power!PowerInv, Power!TypeOK, Power!NoFullPower, Power!ChoicesNoted, Power!Written, Power!BackInPlace,
   Power!Here

LEMMA PowerNext ==
  ASSUME s1' \in PowerBands, s2' \in PowerModes, s4' \in Nat, s12' \in Nat,
         s5' \in Power!Memories, s6' \in Power!Memories, s13' \in Power!Memories,
         s7' \in BOOLEAN, s8' \in BOOLEAN, s9' \in BOOLEAN, s10' \in BOOLEAN, s11' \in BOOLEAN,
         s14' \in BOOLEAN, s15' \in BOOLEAN,
         s10' => s9',
         ~s7' => \A k \in Power!Keys : s13'[k] = Power!None,
         ~s14' => /\ s4' # 0 /\ \A k \in Power!Keys : s5'[k] # 0 /\ s6'[k] # 0
                  /\ \A k \in Power!Keys : s13'[k] # Power!None => s5'[k] = s13'[k]
                  /\ (s7' /\ ~s15') \/ (s10' /\ s8') => s5'[Power!Here'] # Power!None
                  /\ s7' /\ ~s10' /\ ~s15' /\ s13'[Power!Here'] # Power!None => s4' = s13'[Power!Here']
  PROVE  Power!PowerInv'
BY DEF Power!PowerInv, Power!TypeOK, Power!NoFullPower, Power!ChoicesNoted, Power!Written, Power!BackInPlace

LEMMA PowerInitial ==
  ASSUME Power!Init PROVE Power!PowerInv
<1>1. /\ s1 \in PowerBands /\ s2 \in PowerModes /\ s4 \in Levels /\ s12 = 0
      /\ s5 = [k \in Power!Keys |-> Power!None] /\ s6 = s5 /\ s13 = s5
      /\ s7 = FALSE /\ s8 \in BOOLEAN /\ s9 = FALSE /\ s10 = FALSE /\ s11 = FALSE /\ s14 = FALSE /\ s15 = TRUE
  BY DEF Power!Init
<1>2. s5 \in Power!Memories /\ s6 \in Power!Memories /\ s13 \in Power!Memories
  BY <1>1 DEF Power!Memories
<1>3. Power!None # 0
  BY DEF Power!None
<1>4. {s7, s8, s9, s10, s11, s14, s15} \subseteq BOOLEAN /\ s4 \in Nat /\ s4 # 0
  BY <1>1, MCAssumption DEF Power!PowerAssumption
<1>5. Power!TypeOK
  BY <1>1, <1>2, <1>4 DEF Power!TypeOK
<1>6. \A k \in Power!Keys : s5[k] = Power!None /\ s6[k] = Power!None /\ s13[k] = Power!None
  BY <1>1
<1>7. Power!NoFullPower /\ Power!ChoicesNoted /\ Power!Written /\ Power!BackInPlace
  BY <1>1, <1>3, <1>4, <1>6 DEF Power!NoFullPower, Power!ChoicesNoted, Power!Written, Power!BackInPlace
<1> QED BY <1>1, <1>5, <1>6, <1>7 DEF Power!PowerInv

LEMMA PowerMoved ==
  ASSUME Power!PowerInv, NEW l \in Nat, l # 0, Power!MoveSlider(l) PROVE Power!PowerInv'
<1>1. /\ s4' = l /\ s12' = s12 + 1 /\ UNCHANGED <<s1, s2, s3, s7, s8, s9, s10, s11>>
      /\ s5' = (IF ~s9 /\ s7 THEN [s5 EXCEPT ![Power!Here] = l] ELSE s5)
      /\ s6' = (IF s9 /\ s8 THEN [s6 EXCEPT ![Power!Here] = l] ELSE s6)
      /\ s13' = (IF ~s9 /\ s7 THEN [s13 EXCEPT ![Power!Here] = l] ELSE s13)
      /\ s15' = (s15 /\ (s9 \/ ~s7)) /\ s14' = (s14 \/ (s9 /\ ~s10))
  BY DEF Power!MoveSlider, Power!Op
<1>2. Power!Here' = Power!Here
  BY <1>1 DEF Power!Here
<1>3. l \in Nat /\ l # 0 /\ l # Power!None
  BY DEF Power!None
<1>4. CASE ~s9 /\ s7
  <2>1. /\ s5' = [s5 EXCEPT ![Power!Here] = l] /\ s6' = s6 /\ s13' = [s13 EXCEPT ![Power!Here] = l] /\ ~s15'
        /\ s14' = s14
    BY <1>1, <1>4, PowerPlain
  <2>2. /\ s5' \in Power!Memories /\ s13' \in Power!Memories /\ s5'[Power!Here] = l /\ s13'[Power!Here] = l
        /\ \A k \in Power!Keys : k # Power!Here => s5'[k] = s5[k] /\ s13'[k] = s13[k]
    <3>1. s5 \in Power!Memories /\ s13 \in Power!Memories /\ Power!Here \in Power!Keys /\ l \in Nat \cup {Power!None}
      BY <1>3, PowerPlain
    <3> DEFINE h == Power!Here
    <3>2. h \in Power!Keys /\ s5' = [s5 EXCEPT ![h] = l] /\ s13' = [s13 EXCEPT ![h] = l]
      BY <2>1, <3>1
    <3> HIDE DEF h
    <3>3. s5' \in Power!Memories /\ s5'[h] = l /\ \A k \in Power!Keys : k # h => s5'[k] = s5[k]
      BY <3>1, <3>2 DEF Power!Memories
    <3>4. s13' \in Power!Memories /\ s13'[h] = l /\ \A k \in Power!Keys : k # h => s13'[k] = s13[k]
      BY <3>1, <3>2 DEF Power!Memories
    <3> QED BY <3>3, <3>4 DEF h
  <2>3. s12' \in Nat /\ s4' \in Nat /\ s4' # 0 /\ s15' \in BOOLEAN
    BY <1>1, <1>3, <2>1, PowerPlain
  <2>4. ASSUME ~s14'
        PROVE  /\ \A k \in Power!Keys : s5'[k] # 0 /\ s6'[k] # 0
               /\ \A k \in Power!Keys : s13'[k] # Power!None => s5'[k] = s13'[k]
               /\ (s7' /\ ~s15') \/ (s10' /\ s8') => s5'[Power!Here'] # Power!None
               /\ s7' /\ ~s10' /\ ~s15' /\ s13'[Power!Here'] # Power!None => s4' = s13'[Power!Here']
    BY <1>1, <1>2, <1>3, <2>1, <2>2, <2>4, PowerPlain
  <2> QED BY <1>1, <1>4, <2>1, <2>2, <2>3, <2>4, PowerPlain, PowerNext
<1>5. CASE ~(~s9 /\ s7)
  <2>1. s5' = s5 /\ s13' = s13 /\ s6' \in {s6, [s6 EXCEPT ![Power!Here] = l]}
    BY <1>1, <1>5
  <2>2. s15' = s15 /\ s15' \in BOOLEAN /\ s14' \in BOOLEAN
    BY <1>1, <1>5, PowerPlain
  <2>3. s6' \in Power!Memories /\ \A k \in Power!Keys : s6'[k] \in {s6[k], l}
    BY <1>3, <2>1, PowerPlain, SetIs
  <2>4. s7 => s9
    BY <1>5
  <2>5. s12' \in Nat /\ s4' \in Nat /\ s4' # 0
    BY <1>1, <1>3, PowerPlain
  <2>6. ASSUME ~s14' PROVE ~s14 /\ (s9 => s10)
    BY <1>1, <2>6, PowerPlain
  <2>7. ~s7' => \A k \in Power!Keys : s13'[k] = Power!None
    BY <1>1, <2>1, PowerPlain
  <2>8. ASSUME ~s14'
        PROVE  /\ \A k \in Power!Keys : s5'[k] # 0 /\ s6'[k] # 0
               /\ \A k \in Power!Keys : s13'[k] # Power!None => s5'[k] = s13'[k]
               /\ (s7' /\ ~s15') \/ (s10' /\ s8') => s5'[Power!Here'] # Power!None
               /\ s7' /\ ~s10' /\ ~s15' /\ s13'[Power!Here'] # Power!None => s4' = s13'[Power!Here']
    BY <1>1, <1>2, <1>3, <2>1, <2>2, <2>3, <2>4, <2>6, <2>8, PowerPlain
  <2> QED BY <1>1, <2>1, <2>2, <2>3, <2>5, <2>7, <2>8, PowerPlain, PowerNext
<1> QED BY <1>4, <1>5

\* The key of the memories changes, or does not, and what is remembered there is recalled.
LEMMA PowerRecalls ==
  ASSUME Power!PowerInv, NEW k \in Power!Keys, s1' \in PowerBands, s2' \in PowerModes, ~s9,
         UNCHANGED <<s6, s7, s8, s9, s11, s13, s14>>, s10' \in BOOLEAN, s10' => s10, s12' = s12 + 1,
         ~s7 => s4' = s4 /\ s5' = s5,
         s7 => s4' = Power!Recalled(s4, s5, k) /\ s5' = Power!Noted(s4, s5, k),
         s15' \in BOOLEAN, s7 /\ ~s15' => k = Power!Here'
  PROVE  Power!PowerInv'
<1>1. /\ s4' \in Nat /\ s5' \in Power!Memories /\ s4' \in {s4, s5[k]}
      /\ (s4' # s4 => s5[k] = s4')
      /\ \A j \in Power!Keys : s5'[j] \in {s4, s5[j]} /\ (s5[j] # Power!None => s5'[j] = s5[j])
      /\ s7 => s5'[k] = s4' /\ s4' # Power!None
  <2>1. s4 \in Nat /\ s5 \in Power!Memories
    BY PowerPlain
  <2>2. CASE s7
    <3> DEFINE l == Power!Recalled(s4, s5, k)
               q == Power!Noted(s4, s5, k)
    <3>1. /\ l \in Nat /\ q \in Power!Memories /\ l \in {s4, s5[k]} /\ (s5[k] # Power!None => l = s5[k])
          /\ q[k] = l /\ l # Power!None
          /\ \A j \in Power!Keys : (j # k \/ s5[j] # Power!None => q[j] = s5[j]) /\ q[j] \in {s4, s5[j]}
      BY <2>1, RecalledIs
    <3>2. s4' = l /\ s5' = q
      BY <2>2
    <3> HIDE DEF l, q
    <3> QED BY <3>1, <3>2
  <2>3. CASE ~s7
    <3>1. s4' = s4 /\ s5' = s5
      BY <2>3
    <3> QED BY <2>1, <2>3, <3>1
  <2> QED BY <2>2, <2>3
<1>2. ~s10 /\ ~s10' /\ s12' \in Nat
  BY PowerPlain
<1>3. ~s7' => \A j \in Power!Keys : s13'[j] = Power!None
  BY PowerPlain
<1>4. ASSUME ~s14'
      PROVE  /\ s4' # 0 /\ \A j \in Power!Keys : s5'[j] # 0 /\ s6'[j] # 0
             /\ \A j \in Power!Keys : s13'[j] # Power!None => s5'[j] = s13'[j]
             /\ (s7' /\ ~s15') \/ (s10' /\ s8') => s5'[Power!Here'] # Power!None
             /\ s7' /\ ~s10' /\ ~s15' /\ s13'[Power!Here'] # Power!None => s4' = s13'[Power!Here']
  <2>1. /\ s4 # 0 /\ \A j \in Power!Keys : s5[j] # 0 /\ s6[j] # 0
        /\ \A j \in Power!Keys : s13[j] # Power!None => s5[j] = s13[j]
    BY <1>4, PowerPlain
  <2>2. s4' # 0 /\ \A j \in Power!Keys : s5'[j] # 0 /\ s6'[j] # 0
    BY <1>1, <2>1
  <2>3. \A j \in Power!Keys : s13'[j] # Power!None => s5'[j] = s13'[j]
    BY <1>1, <2>1
  <2>4. s7' /\ ~s15' => s5'[Power!Here'] # Power!None
    BY <1>1
  <2>5. s7' /\ ~s10' /\ ~s15' /\ s13'[Power!Here'] # Power!None => s4' = s13'[Power!Here']
    BY <1>1, <2>3
  <2> QED BY <1>2, <2>2, <2>3, <2>4, <2>5
<1>5. /\ s6' \in Power!Memories /\ s13' \in Power!Memories /\ s7' \in BOOLEAN /\ s8' \in BOOLEAN
      /\ s9' \in BOOLEAN /\ s11' \in BOOLEAN /\ s14' \in BOOLEAN
  BY PowerPlain
<1> QED BY <1>1, <1>2, <1>3, <1>4, <1>5, PowerNext

LEMMA ReleasedIs ==
  ASSUME Power!PowerInv, NEW k \in Power!Keys
  PROVE  LET r == Power!Released(k) IN
         /\ r.tune \in Power!Memories /\ r.level \in Nat /\ r.tx \in Power!Memories
         /\ \A j \in Power!Keys : r.tune[j] \in {s6[j], s4}
         /\ (s7 \/ s8 => s5[k] # Power!None) =>
               r.level \in {s4, s5[k]} /\ (s7 \/ s8 => r.level = s5[k]) /\ r.tx = s5
<1>1. s4 \in Nat /\ s5 \in Power!Memories /\ s6 \in Power!Memories
  BY PowerPlain
<1>2. Power!Read(s5[k]) \in Nat /\ (s5[k] # Power!None => Power!Read(s5[k]) = s5[k])
  BY <1>1 DEF Power!Memories, Power!Read, Power!None
<1>3. CASE s7 \/ s8
  <2>1. Power!Released(k) = [tune |-> [s6 EXCEPT ![k] = s4], level |-> Power!Read(s5[k]),
                             tx |-> [s5 EXCEPT ![k] = Power!Read(s5[k])]]
    BY <1>3 DEF Power!Released
  <2>2. [s6 EXCEPT ![k] = s4] \in Power!Memories /\ \A j \in Power!Keys : [s6 EXCEPT ![k] = s4][j] \in {s6[j], s4}
    BY <1>1 DEF Power!Memories
  <2>3. [s5 EXCEPT ![k] = Power!Read(s5[k])] \in Power!Memories
    BY <1>1, <1>2 DEF Power!Memories
  <2>4. s5[k] # Power!None => [s5 EXCEPT ![k] = Power!Read(s5[k])] = s5
    BY <1>1, <1>2 DEF Power!Memories
  <2> QED BY <1>2, <1>3, <2>1, <2>2, <2>3, <2>4
<1>4. CASE ~(s7 \/ s8)
  <2>1. Power!Released(k) = [tune |-> s6, level |-> s4, tx |-> s5]
    BY <1>4 DEF Power!Released
  <2> QED BY <1>1, <1>4, <2>1
<1> QED BY <1>3, <1>4

LEMMA PowerBandChanged ==
  ASSUME Power!PowerInv, NEW b \in PowerBands, NEW x \in BOOLEAN, Power!ChangeBand(b, x) PROVE Power!PowerInv'
<1> DEFINE k == Power!Key(b, s2, s3)
           halted == x /\ s9
           off == halted /\ s10
           r == IF off THEN Power!Released(k) ELSE [tune |-> s6, level |-> s4, tx |-> s5]
           recall == s7 /\ (~s9 \/ halted)
<1>1. /\ s1' = b /\ s12' = s12 + 1 /\ s9' = (s9 /\ ~halted) /\ s10' = (s10 /\ ~halted)
      /\ s11' = (s11 \/ off) /\ s6' = r.tune
      /\ s4' = (IF recall THEN Power!Recalled(r.level, r.tx, k) ELSE r.level)
      /\ s5' = (IF recall THEN Power!Noted(r.level, r.tx, k) ELSE r.tx)
      /\ s14' = (s14 \/ s9) /\ s15' = (s15 /\ ~recall) /\ UNCHANGED <<s2, s3, s7, s8, s13>>
  BY DEF Power!ChangeBand, Power!Op
<1>2. k \in Power!Keys /\ Power!Here' = k
  BY <1>1, PowerPlain, KeyIs DEF Power!Here
<1> HIDE DEF k
<1>3. CASE ~s9
  <2>1. /\ r = [tune |-> s6, level |-> s4, tx |-> s5] /\ (recall <=> s7) /\ s9' = s9 /\ s14' = s14
        /\ s11' = s11 /\ s10' \in BOOLEAN /\ (s10' => s10) /\ s15' \in BOOLEAN
    BY <1>1, <1>3, PowerPlain
  <2>2. /\ s6' = s6 /\ (~s7 => s4' = s4 /\ s5' = s5)
        /\ (s7 => s4' = Power!Recalled(s4, s5, k) /\ s5' = Power!Noted(s4, s5, k))
    BY <1>1, <2>1
  <2> QED BY <1>1, <1>2, <1>3, <2>1, <2>2, PowerPlain, PowerRecalls
<1>4. CASE s9
  <2>1. r.tune \in Power!Memories /\ r.level \in Nat /\ r.tx \in Power!Memories
    BY <1>2, PowerPlain, ReleasedIs
  <2>2. s4' \in Nat /\ s5' \in Power!Memories /\ s6' \in Power!Memories
    BY <1>1, <1>2, <2>1, RecalledIs
  <2>6. s14'
    BY <1>1, <1>4
  <2>7. s12' \in Nat
    BY <1>1, PowerPlain
  <2>3. s14' /\ s12' \in Nat /\ s14' \in BOOLEAN
    BY <1>1, <2>6, <2>7
  <2>4. s9' \in BOOLEAN /\ s10' \in BOOLEAN /\ s11' \in BOOLEAN /\ s15' \in BOOLEAN
    BY <1>1
  <2>5. s10' => s9'
    BY <1>1, <1>4
  <2> QED BY <1>1, <2>2, <2>3, <2>4, <2>5, PowerPlain, PowerNext
<1> QED BY <1>3, <1>4

LEMMA PowerModeChanged ==
  ASSUME Power!PowerInv, NEW n \in PowerModes, Power!ChangeMode(n) PROVE Power!PowerInv'
<1> DEFINE k == Power!Key(s1, n, s3)
<1>1. /\ ~s9 /\ s2' = n /\ s12' = s12 + 1 /\ s15' = (s15 \/ k # Power!Key(s1, n, s3'))
      /\ UNCHANGED <<s1, s6, s7, s8, s9, s10, s11, s13, s14>>
      /\ s7 => s4' = Power!Recalled(s4, s5, k) /\ s5' = Power!Noted(s4, s5, k)
      /\ ~s7 => s4' = s4 /\ s5' = s5
  BY DEF Power!ChangeMode, Power!Op, Power!Recall
<1>2. k \in Power!Keys /\ Power!Here' = Power!Key(s1, n, s3')
  BY <1>1, PowerPlain, KeyIs DEF Power!Here
<1> HIDE DEF k
<1>3. s15' \in BOOLEAN /\ (~s15' => k = Power!Here')
  BY <1>1, <1>2, PowerPlain
<1> QED BY <1>1, <1>2, <1>3, PowerPlain, PowerRecalls

LEMMA PowerTxModeChanged ==
  ASSUME Power!PowerInv, Power!ChangeTxMode PROVE Power!PowerInv'
<1> DEFINE k == Power!Key(s1, s2, s3')
<1>1. /\ s12' = s12 + 1 /\ s14' = (s14 \/ s9) /\ s15' = (s15 /\ ~(s7 /\ ~s9))
      /\ UNCHANGED <<s1, s2, s6, s7, s8, s9, s10, s11, s13>>
      /\ s7 /\ ~s9 => s4' = Power!Recalled(s4, s5, k) /\ s5' = Power!Noted(s4, s5, k)
      /\ ~(s7 /\ ~s9) => s4' = s4 /\ s5' = s5
  BY DEF Power!ChangeTxMode, Power!Op, Power!Recall
<1>2. k \in Power!Keys /\ Power!Here' = k
  BY <1>1, PowerPlain, KeyIs DEF Power!Here
<1> HIDE DEF k
<1>3. s15' \in BOOLEAN /\ s12' \in Nat
  BY <1>1, PowerPlain
<1>4. CASE ~s9
  <2>1. s14' = s14
    BY <1>1, <1>4, PowerPlain
  <2> QED BY <1>1, <1>2, <1>3, <1>4, <2>1, PowerPlain, PowerRecalls
<1>5. CASE s9
  BY <1>1, <1>3, <1>5, PowerPlain, PowerNext
<1> QED BY <1>4, <1>5

LEMMA PowerAnswered ==
  ASSUME Power!PowerInv, Power!AnswerOtherMode PROVE Power!PowerInv'
<1> DEFINE k == Power!Key(s1, s2, IF s3 = "JT9" THEN "JT65" ELSE "JT9")
           l == IF s7 /\ ~s9 THEN Power!Recalled(s4, s5, k) ELSE s4
<1>1. /\ s12' = s12 + 1 /\ s4' = l /\ s14' = (s14 \/ s9 \/ l # s4) /\ s15' = (s15 /\ ~(s7 /\ ~s9))
      /\ s5' = (IF ~s7 \/ s9 THEN s5
                ELSE IF l # s4 THEN [s5 EXCEPT ![Power!Here] = l] ELSE Power!Noted(s4, s5, k))
      /\ s3' = (IF s3 = "JT9" THEN "JT65" ELSE "JT9")
      /\ UNCHANGED <<s1, s2, s6, s7, s8, s9, s10, s11, s13>>
  BY DEF Power!AnswerOtherMode, Power!Op
<1>2. k \in Power!Keys /\ Power!Here' = k
  BY <1>1, PowerPlain, KeyIs DEF Power!Here
<1>3. l \in Nat
  BY <1>2, PowerPlain, RecalledIs
<1>4. s15' \in BOOLEAN /\ s12' \in Nat /\ (s7 /\ ~s9 => ~s15')
  BY <1>1, PowerPlain
<1>5. CASE s9 \/ l # s4
  <2>1. s14' /\ s14' \in BOOLEAN
    BY <1>1, <1>5
  <2>2. Power!Noted(s4, s5, k) \in Power!Memories /\ [s5 EXCEPT ![Power!Here] = l] \in Power!Memories
    BY <1>2, <1>3, PowerPlain, RecalledIs, SetIs
  <2>3. s5' \in {s5, [s5 EXCEPT ![Power!Here] = l], Power!Noted(s4, s5, k)}
    BY <1>1
  <2>4. s5' \in Power!Memories
    BY <2>2, <2>3, PowerPlain
  <2> QED BY <1>1, <1>3, <1>4, <2>1, <2>4, PowerPlain, PowerNext
<1>6. CASE ~s9 /\ l = s4
  <2>1. s14' = s14 /\ s4' = s4
    BY <1>1, <1>6, PowerPlain
  <2>2. s7 => s4' = Power!Recalled(s4, s5, k) /\ s5' = Power!Noted(s4, s5, k)
    BY <1>1, <1>6
  <2>3. ~s7 => s4' = s4 /\ s5' = s5
    BY <1>1, <2>1
  <2> HIDE DEF k, l
  <2> QED BY <1>1, <1>2, <1>4, <1>6, <2>1, <2>2, <2>3, PowerPlain, PowerRecalls
<1> QED BY <1>5, <1>6

LEMMA PowerReleased ==
  ASSUME Power!PowerInv, s10, s9' \in BOOLEAN, s10' = FALSE, s11' \in BOOLEAN, s14' = (s14 \/ Power!Unwritten),
         s4' = Power!Released(Power!Here).level, s5' = Power!Released(Power!Here).tx,
         s6' = Power!Released(Power!Here).tune, UNCHANGED <<s1, s2, s3, s7, s8, s12, s13, s15>>
  PROVE  Power!PowerInv'
<1> DEFINE h == Power!Here
<1>1. h \in Power!Keys /\ Power!Here' = h
  BY PowerPlain DEF Power!Here
<1>2. s6' \in Power!Memories /\ s4' \in Nat /\ s5' \in Power!Memories /\ \A j \in Power!Keys : s6'[j] \in {s6[j], s4}
  BY <1>1, ReleasedIs
<1>3. (s7 \/ s8 => s5[h] # Power!None) => s4' \in {s4, s5[h]} /\ (s7 \/ s8 => s4' = s5[h]) /\ s5' = s5
  BY <1>1, ReleasedIs
<1> HIDE DEF h
<1>4. s14' \in BOOLEAN
  BY PowerPlain DEF Power!Unwritten
<1>5. ASSUME ~s14'
      PROVE  /\ s4' # 0 /\ \A j \in Power!Keys : s5'[j] # 0 /\ s6'[j] # 0
             /\ \A j \in Power!Keys : s13'[j] # Power!None => s5'[j] = s13'[j]
             /\ (s7' /\ ~s15') \/ (s10' /\ s8') => s5'[Power!Here'] # Power!None
             /\ s7' /\ ~s10' /\ ~s15' /\ s13'[Power!Here'] # Power!None => s4' = s13'[Power!Here']
  <2>1. ~s14 /\ ~(s7 /\ ~s8 /\ s15)
    BY <1>5 DEF Power!Unwritten
  <2>2. /\ s4 # 0 /\ \A j \in Power!Keys : s5[j] # 0 /\ s6[j] # 0
        /\ \A j \in Power!Keys : s13[j] # Power!None => s5[j] = s13[j]
        /\ (s7 /\ ~s15) \/ (s10 /\ s8) => s5[h] # Power!None
    BY <2>1, PowerPlain DEF h
  <2>3. s7 \/ s8 => s5[h] # Power!None
    BY <2>1, <2>2
  <2>4. s4' \in {s4, s5[h]} /\ (s7 \/ s8 => s4' = s5[h]) /\ s5' = s5
    BY <1>3, <2>3
  <2>5. s4' # 0 /\ \A j \in Power!Keys : s5'[j] # 0 /\ s6'[j] # 0
    BY <1>1, <1>2, <2>2, <2>4
  <2>6. s7' /\ ~s10' /\ ~s15' /\ s13'[Power!Here'] # Power!None => s4' = s13'[Power!Here']
    BY <1>1, <2>2, <2>4
  <2> QED BY <1>1, <2>2, <2>3, <2>4, <2>5, <2>6
<1> QED BY <1>2, <1>4, <1>5, PowerPlain, PowerNext

LEMMA PowerPressed ==
  ASSUME Power!PowerInv, Power!PressTune PROVE Power!PowerInv'
<1> DEFINE h == Power!Here
<1>1. ~s10 /\ s10' = TRUE /\ s12' = s12 + 1 /\ UNCHANGED <<s1, s2, s3, s7, s8, s13>>
  BY DEF Power!PressTune, Power!Op
<1>2. h \in Power!Keys /\ Power!Here' = h /\ s12' \in Nat
  BY <1>1, PowerPlain DEF Power!Here
<1>3. CASE s9' # s9
  <2>1. /\ ~s9 /\ s9' = TRUE /\ UNCHANGED <<s6, s11>>
        /\ s5' = (IF s8 THEN [s5 EXCEPT ![h] = s4] ELSE s5)
        /\ s4' = (IF s8 THEN Power!Recalled(s4, s6, h) ELSE s4)
        /\ s15' = (s15 /\ ~s8) /\ s14' = (s14 \/ (s15 /\ s8 /\ s13[h] # Power!None))
    BY <1>3 DEF Power!PressTune, Power!Remembered
  <2> HIDE DEF h
  <2>2. CASE s8
    <3>1. s5' = [s5 EXCEPT ![h] = s4] /\ s4' = Power!Recalled(s4, s6, h)
      BY <2>1, <2>2
    <3>2. ~s15' /\ s15' \in BOOLEAN
      BY <2>1, <2>2
    <3>3. s14' \in BOOLEAN
      BY <2>1
    <3>4. s4 \in Nat /\ s5 \in Power!Memories /\ s6 \in Power!Memories /\ s4 # Power!None
      BY PowerPlain DEF Power!None
    <3>5. s5' \in Power!Memories /\ s5'[h] = s4 /\ \A j \in Power!Keys : j # h => s5'[j] = s5[j]
      BY <1>2, <3>1, <3>4 DEF Power!Memories
    <3>6. s4' \in Nat /\ s4' \in {s4, s6[h]}
      BY <1>2, <3>1, <3>4, RecalledIs
    <3>7. ASSUME ~s14'
          PROVE  /\ s4' # 0 /\ \A j \in Power!Keys : s5'[j] # 0 /\ s6'[j] # 0
                 /\ \A j \in Power!Keys : s13'[j] # Power!None => s5'[j] = s13'[j]
                 /\ (s7' /\ ~s15') \/ (s10' /\ s8') => s5'[Power!Here'] # Power!None
                 /\ s7' /\ ~s10' /\ ~s15' /\ s13'[Power!Here'] # Power!None => s4' = s13'[Power!Here']
      <4>1. ~s14 /\ (s13[h] # Power!None => ~s15)
        BY <2>1, <2>2, <3>7
      <4>2. /\ s4 # 0 /\ \A j \in Power!Keys : s5[j] # 0 /\ s6[j] # 0
            /\ \A j \in Power!Keys : s13[j] # Power!None => s5[j] = s13[j]
            /\ s7 /\ ~s10 /\ ~s15 /\ s13[h] # Power!None => s4 = s13[h]
            /\ s13[h] # Power!None => s7
        BY <1>2, <4>1, PowerPlain DEF h
      <4>3. s13[h] # Power!None => s4 = s13[h]
        BY <1>1, <4>1, <4>2
      <4>4. s4' # 0 /\ \A j \in Power!Keys : s5'[j] # 0 /\ s6'[j] # 0
        BY <1>2, <2>1, <3>5, <3>6, <4>2
      <4>5. \A j \in Power!Keys : s13'[j] # Power!None => s5'[j] = s13'[j]
        BY <1>1, <3>5, <4>2, <4>3
      <4> QED BY <1>1, <1>2, <3>4, <3>5, <4>4, <4>5
    <3> QED BY <1>1, <1>2, <2>1, <3>2, <3>3, <3>5, <3>6, <3>7, PowerPlain, PowerNext
  <2>3. CASE ~s8
    <3>1. s5' = s5 /\ s4' = s4
      BY <2>1, <2>3
    <3>2. s15' = s15
      BY <2>1, <2>3, PowerPlain
    <3>3. s14' = s14
      BY <2>1, <2>3, PowerPlain
    <3>4. ASSUME ~s14'
          PROVE  /\ s4' # 0 /\ \A j \in Power!Keys : s5'[j] # 0 /\ s6'[j] # 0
                 /\ \A j \in Power!Keys : s13'[j] # Power!None => s5'[j] = s13'[j]
                 /\ (s7' /\ ~s15') \/ (s10' /\ s8') => s5'[Power!Here'] # Power!None
                 /\ s7' /\ ~s10' /\ ~s15' /\ s13'[Power!Here'] # Power!None => s4' = s13'[Power!Here']
      BY <1>1, <1>2, <2>1, <2>3, <3>1, <3>2, <3>3, <3>4, PowerPlain DEF h
    <3> QED BY <1>1, <1>2, <2>1, <3>1, <3>2, <3>3, <3>4, PowerPlain, PowerNext
  <2> QED BY <2>2, <2>3
<1>4. CASE s9' = s9
  <2>1. /\ s9 /\ s4' = Power!Released(h).level /\ s5' = Power!Released(h).tx /\ s6' = Power!Released(h).tune
        /\ s11' = TRUE /\ s14' = TRUE /\ UNCHANGED <<s9, s15>>
    BY <1>4, PowerPlain DEF Power!PressTune
  <2>2. s4' \in Nat /\ s5' \in Power!Memories /\ s6' \in Power!Memories
    BY <1>2, <2>1, ReleasedIs
  <2> QED BY <1>1, <1>2, <2>1, <2>2, PowerPlain, PowerNext
<1> QED BY <1>3, <1>4

LEMMA PowerTuneLeft ==
  ASSUME Power!PowerInv, Power!ReleaseTune \/ Power!StopTuning PROVE Power!PowerInv'
<1>1. CASE Power!ReleaseTune
  <2>1. /\ s10 /\ s10' = FALSE /\ s11' = (s11 \/ s9) /\ s14' = (s14 \/ Power!Unwritten)
        /\ s4' = Power!Released(Power!Here).level /\ s5' = Power!Released(Power!Here).tx
        /\ s6' = Power!Released(Power!Here).tune /\ UNCHANGED <<s1, s2, s3, s7, s8, s9, s12, s13, s15>>
    BY <1>1 DEF Power!ReleaseTune
  <2>2. s9' \in BOOLEAN /\ s11' \in BOOLEAN
    BY <2>1, PowerPlain
  <2> QED BY <2>1, <2>2, PowerReleased
<1>2. CASE Power!StopTuning
  <2>1. /\ s9' = FALSE /\ s10' = (s10 /\ ~s9) /\ s11' = FALSE /\ UNCHANGED <<s1, s2, s3, s7, s8, s12, s13, s15>>
    BY <1>2 DEF Power!StopTuning
  <2>2. s9' \in BOOLEAN /\ s11' \in BOOLEAN /\ s10' = FALSE
    BY <2>1, PowerPlain
  <2>3. CASE s9 /\ s10
    <3>1. /\ s14' = (s14 \/ Power!Unwritten)
          /\ s4' = Power!Released(Power!Here).level /\ s5' = Power!Released(Power!Here).tx
          /\ s6' = Power!Released(Power!Here).tune
      BY <1>2, <2>3 DEF Power!StopTuning
    <3> QED BY <2>1, <2>2, <2>3, <3>1, PowerReleased
  <2>4. CASE ~(s9 /\ s10)
    <3>1. UNCHANGED <<s4, s5, s6, s14>> /\ ~s10
      BY <1>2, <2>4, PowerPlain DEF Power!StopTuning, Power!memory
    <3>2. Power!Here' = Power!Here
      BY <2>1 DEF Power!Here
    <3>3. ASSUME ~s14'
          PROVE  /\ s4' # 0 /\ \A j \in Power!Keys : s5'[j] # 0 /\ s6'[j] # 0
                 /\ \A j \in Power!Keys : s13'[j] # Power!None => s5'[j] = s13'[j]
                 /\ (s7' /\ ~s15') \/ (s10' /\ s8') => s5'[Power!Here'] # Power!None
                 /\ s7' /\ ~s10' /\ ~s15' /\ s13'[Power!Here'] # Power!None => s4' = s13'[Power!Here']
      BY <2>1, <2>2, <3>1, <3>2, <3>3, PowerPlain
    <3> QED BY <2>1, <2>2, <3>1, <3>3, PowerPlain, PowerNext
  <2> QED BY <2>3, <2>4
<1> QED BY <1>1, <1>2

LEMMA PowerMemorySwitched ==
  ASSUME Power!PowerInv, Power!SwitchTxMemory PROVE Power!PowerInv'
<1>1. /\ ~s9 /\ s7' = ~s7 /\ s15' = TRUE /\ s13' = [k \in Power!Keys |-> Power!None] /\ s12' = s12 + 1
      /\ UNCHANGED <<s1, s2, s3, s4, s5, s6, s8, s9, s10, s11, s14>>
  BY DEF Power!SwitchTxMemory, Power!Op, Power!memory
<1>2. s13' \in Power!Memories /\ \A k \in Power!Keys : s13'[k] = Power!None
  BY <1>1 DEF Power!Memories
<1>3. ~s10 /\ s12' \in Nat
  BY <1>1, PowerPlain
<1>4. s7' \in BOOLEAN
  BY <1>1
<1>5. ASSUME ~s14'
      PROVE  /\ s4' # 0 /\ \A j \in Power!Keys : s5'[j] # 0 /\ s6'[j] # 0
             /\ \A j \in Power!Keys : s13'[j] # Power!None => s5'[j] = s13'[j]
             /\ (s7' /\ ~s15') \/ (s10' /\ s8') => s5'[Power!Here'] # Power!None
             /\ s7' /\ ~s10' /\ ~s15' /\ s13'[Power!Here'] # Power!None => s4' = s13'[Power!Here']
  BY <1>1, <1>2, <1>3, <1>5, PowerPlain
<1> QED BY <1>1, <1>2, <1>3, <1>4, <1>5, PowerPlain, PowerNext

LEMMA PowerRestarted ==
  ASSUME Power!PowerInv, Power!Restart PROVE Power!PowerInv'
<1> DEFINE h == Power!Here
<1>1. /\ ~s9 /\ s12' = s12 + 1 /\ s10' = FALSE /\ s15' = ((s15 /\ ~s7) \/ s3 # s3')
      /\ UNCHANGED <<s1, s2, s6, s7, s8, s9, s11, s13, s14>>
      /\ s7 => s4' = Power!Recalled(s4, s5, h) /\ s5' = Power!Noted(s4, s5, h)
      /\ ~s7 => s4' = s4 /\ s5' = s5
  BY DEF Power!Restart, Power!Op, Power!Recall
<1>2. h \in Power!Keys
  BY PowerPlain
<1>3. s15' \in BOOLEAN /\ (~s15' => s3' = s3)
  BY <1>1, PowerPlain
<1>4. s7 /\ ~s15' => h = Power!Here'
  BY <1>1, <1>3 DEF Power!Here
<1> HIDE DEF h
<1> QED BY <1>1, <1>2, <1>3, <1>4, PowerPlain, PowerRecalls

LEMMA PowerHolds ==
  ASSUME Power!PowerInv, Power!Next PROVE Power!PowerInv'
<1>1. CASE \E l \in Levels : Power!MoveSlider(l)
  <2>1. PICK l \in Levels : Power!MoveSlider(l)
    BY <1>1
  <2>2. l \in Nat /\ l # 0
    BY MCAssumption DEF Power!PowerAssumption
  <2> QED BY <2>1, <2>2, PowerMoved
<1>2. CASE \E b \in PowerBands, blind \in BOOLEAN : Power!ChangeBand(b, blind)
  BY <1>2, PowerBandChanged
<1>3. CASE \E n \in PowerModes : Power!ChangeMode(n)
  BY <1>3, PowerModeChanged
<1>4. CASE Power!ReleaseTune \/ Power!StopTuning
  BY <1>4, PowerTuneLeft
<1> QED BY <1>1, <1>2, <1>3, <1>4, PowerTxModeChanged, PowerAnswered, PowerPressed, PowerMemorySwitched,
           PowerRestarted DEF Power!Next

LEMMA PowerStutter ==
  ASSUME Power!PowerInv, UNCHANGED <<s1, s2, s3, s4, s5, s6, s7, s8, s9, s10, s11, s12, s13, s14, s15>>
  PROVE  Power!PowerInv'
<1>1. Power!Here' = Power!Here
  BY DEF Power!Here
<1>2. ASSUME ~s14'
      PROVE  /\ s4' # 0 /\ \A j \in Power!Keys : s5'[j] # 0 /\ s6'[j] # 0
             /\ \A j \in Power!Keys : s13'[j] # Power!None => s5'[j] = s13'[j]
             /\ (s7' /\ ~s15') \/ (s10' /\ s8') => s5'[Power!Here'] # Power!None
             /\ s7' /\ ~s10' /\ ~s15' /\ s13'[Power!Here'] # Power!None => s4' = s13'[Power!Here']
  BY <1>1, <1>2, PowerPlain
<1> QED BY <1>2, PowerPlain, PowerNext

LEMMA PowerShows ==
  ASSUME Power!PowerInv PROVE Power!PowerKept /\ Power!NotFullPower
BY DEF Power!PowerInv, Power!BackInPlace, Power!NoFullPower, Power!PowerKept, Power!NotFullPower

----------------------------------------------------------------------------
\* The frequency transmitted.
LEMMA DialConstants ==
  Offsets \subseteq 1..20 /\ Top65 \in Int /\ Fmin \in Int /\ Turned \subseteq Dial!Frequencies
<1>1. Offsets \subseteq 1..20 /\ Top65 \in Nat /\ Fmin \in Nat /\ Turned \subseteq Dial!Frequencies
  BY MCAssumption, Zenon DEF Dial!DialAssumption
<1> QED BY <1>1

LEMMA DialsAre ==
  \A i \in 1..Len(Dials) : Dials[i].f \in Dial!Frequencies /\ Dials[i].mode \in Dial!Tones
<1>1. Dials \in Seq([f : Dial!Frequencies, mode : Dial!Tones])
  BY MCAssumption DEF Dial!DialAssumption
<1> DEFINE rows == [f : Dial!Frequencies, mode : Dial!Tones]
<1>2. rows = [f : Dial!Frequencies, mode : Dial!Tones]
  OBVIOUS
<1> HIDE DEF rows
<1>3. Dials \in Seq(rows)
  BY <1>1, <1>2, Zenon
<1>4. \A i \in 1..Len(Dials) : Dials[i] \in rows
  BY <1>3
<1> QED BY <1>2, <1>4

LEMMA LeastIs ==
  ASSUME NEW S, S \subseteq Nat, S # {} PROVE \E i \in S : \A j \in S : i <= j
<1>1. PICK i \in S : \A j \in S : <<j, i>> \notin OpToRel(<, Nat)
  BY WFMin, NatLessThanWellFounded
<1>2. \A j \in S : ~(j < i)
  BY <1>1 DEF OpToRel
<1>3. \A j \in S : i <= j
  BY <1>2
<1> QED BY <1>3

LEMMA BestIs ==
  ASSUME NEW m, NEW f PROVE Dial!Best(m, f) \in Dial!Frequencies \cup {0}
<1> DEFINE ok == {i \in 1..Len(Dials) : Dials[i].mode \in {m, "any"} /\ Dial!Band(Dials[i].f) = Dial!Band(f)}
<1>1. Dials \in Seq([f : Dial!Frequencies, mode : Dial!Tones])
  BY MCAssumption DEF Dial!DialAssumption
<1>2. ok \subseteq Nat /\ ok \subseteq 1..Len(Dials)
  BY <1>1
<1>3. Dial!Best(m, f) = IF ok = {} THEN 0 ELSE Dials[CHOOSE i \in ok : \A j \in ok : i <= j].f
  BY DEF Dial!Best
<1> HIDE DEF ok
<1>4. ok # {} => (CHOOSE i \in ok : \A j \in ok : i <= j) \in ok
  BY <1>2, LeastIs
<1> QED BY <1>2, <1>3, <1>4, DialsAre

LEMMA ClampedIs ==
  ASSUME NEW n \in Int PROVE Dial!Clamped(n) \in Dial!Places /\ (n \in Dial!Places => Dial!Clamped(n) = n)
BY DEF Dial!Clamped, Dial!Places

\* What the handlers of the offsets leave as it is, and what is so when the rig is in simplex.
Steady(t, v) ==
  /\ v.mode = t.mode /\ v.oldmode = t.oldmode /\ v.nominal = t.nominal /\ v.lock = t.lock
  /\ v.simplex = t.simplex /\ v.monitoring = t.monitoring /\ v.transmitting = t.transmitting
  /\ v.split = t.split /\ v.qsy = t.qsy /\ v.last = t.last /\ v.txOn = t.txOn /\ v.rxOn = t.rxOn
  /\ v.dial = t.dial /\ (v.rigTx = t.rigTx \/ (~t.simplex /\ t.split))
Simple(t) == t.simplex \/ ~t.split => t.rigTx = 0

LEMMA SteadyAgain ==
  ASSUME NEW t, NEW u, NEW v, Steady(t, u), Steady(u, v) PROVE Steady(t, v)
BY DEF Steady

LEMMA FlippedIs ==
  ASSUME NEW m PROVE Dial!Flipped(m) \in Dial!Tones
BY DEF Dial!Flipped, Dial!Tones

LEMMA ShiftIs ==
  ASSUME NEW n \in Dial!Places PROVE Dial!Shift(n) \in Int /\ n - Dial!Shift(n) \in 6..7 /\ Dial!Shift(n) > -20
BY DEF Dial!Places, Dial!Shift

LEMMA XITIs ==
  ASSUME NEW t \in Dial!Windows, NEW n \in Dial!Places
  PROVE  LET v == Dial!XIT(t, n) IN
         /\ v \in Dial!Windows /\ Steady(t, v) /\ v.tx = t.tx /\ v.wspr = t.wspr
         /\ (t.transmitting /\ ~t.qsy => v = t)
         /\ (t.monitoring \/ t.transmitting) /\ (t.transmitting => t.qsy) /\ n = t.tx /\ Simple(t)
               => Dial!Together(v)
<1> DEFINE v == Dial!XIT(t, n)
<1>1. CASE t.transmitting /\ ~t.qsy
  <2>1. v = t
    BY <1>1 DEF Dial!XIT
  <2> QED BY <1>1, <2>1 DEF Steady
<1>2. CASE ~(t.transmitting /\ ~t.qsy)
  <2> DEFINE x == IF ~t.simplex /\ t.split THEN Dial!Shift(n) ELSE 0
             told == ~t.simplex /\ t.split /\ (t.monitoring \/ t.transmitting)
             y == t.tx - x
             g == IF told THEN t.nominal + x ELSE t.rigTx
             e == IF Dial!Crossed(t, n) THEN Dial!Flipped(t.modeTx) ELSE t.modeTx
             r == IF Dial!Crossed(t, n) /\ t.rxOn THEN t.tx ELSE t.rx
  <2>1. v = [t EXCEPT !.xit = x, !.tone = y, !.rigTx = g, !.modeTx = e, !.rx = r]
    BY <1>2 DEF Dial!XIT
  <2>2. x \in Int /\ y \in Int /\ g \in Int
    BY ShiftIs DEF Dial!Windows, Dial!Places, Dial!Frequencies
  <2>3. e \in Dial!Tones /\ r \in Dial!Places
    BY FlippedIs DEF Dial!Windows
  <2>4. /\ (t.simplex \/ ~t.split => x = 0 /\ g = t.rigTx)
        /\ (told => g = t.nominal + x) /\ (~t.simplex /\ t.split => x = Dial!Shift(n))
        /\ y = t.tx - x /\ (told <=> ~t.simplex /\ t.split /\ (t.monitoring \/ t.transmitting))
    OBVIOUS
  <2> HIDE DEF v, x, y, g, e, r, told
  <2>5. v \in Dial!Windows
    <3> DEFINE u == [t EXCEPT !.xit = x, !.tone = y, !.rigTx = g]
    <3>1. u \in Dial!Windows
      BY <2>2 DEF Dial!Windows
    <3>2. v = [u EXCEPT !.modeTx = e, !.rx = r]
      BY <2>1
    <3> HIDE DEF u
    <3> QED BY <2>3, <3>1, <3>2 DEF Dial!Windows
  <2>6. /\ v.xit = x /\ v.tone = y /\ v.rigTx = g /\ v.tx = t.tx /\ v.wspr = t.wspr
        /\ v.mode = t.mode /\ v.oldmode = t.oldmode /\ v.nominal = t.nominal /\ v.lock = t.lock
        /\ v.simplex = t.simplex /\ v.monitoring = t.monitoring /\ v.transmitting = t.transmitting
        /\ v.split = t.split /\ v.qsy = t.qsy /\ v.last = t.last /\ v.txOn = t.txOn /\ v.rxOn = t.rxOn
        /\ v.dial = t.dial
    BY <2>1 DEF Dial!Windows
  <2>7. Steady(t, v)
    BY <2>4, <2>6 DEF Steady
  <2>8. ASSUME t.monitoring \/ t.transmitting, n = t.tx, Simple(t) PROVE Dial!Together(v)
    BY <2>4, <2>6, <2>8 DEF Dial!Together, Simple
  <2> QED BY <1>2, <2>5, <2>6, <2>7, <2>8 DEF v
<1> QED BY <1>1, <1>2

\* The fields after those that an offset is set in.
LEMMA SetTxIs ==
  ASSUME NEW t \in Dial!Windows, NEW n \in Int
  PROVE  LET v == Dial!SetTx(t, n) IN
         /\ v \in Dial!Windows /\ Steady(t, v) /\ v.tx = Dial!Clamped(n) /\ v.wspr = t.wspr
         /\ t.transmitting /\ Dial!Together(t) /\ (t.qsy \/ ~t.split) => Dial!Together(v)
         /\ t.transmitting /\ Simple(t) /\ t.qsy /\ t.tx # Dial!Clamped(n) => Dial!Together(v)
<1> DEFINE c == Dial!Clamped(n)
           r == IF t.lock THEN c ELSE t.rx
           a == [t EXCEPT !.tx = c, !.rx = r]
           u == Dial!XIT(a, c)
           v == Dial!SetTx(t, n)
<1>1. c \in Dial!Places
  BY ClampedIs
<1>2. CASE c = t.tx
  <2>1. v = t
    BY <1>2 DEF Dial!SetTx
  <2> QED BY <1>2, <2>1 DEF Steady
<1>3. CASE c # t.tx
  <2>1. v = [u EXCEPT !.tone = c - u.xit]
    BY <1>3 DEF Dial!SetTx
  <2>2. r \in Dial!Places
    BY <1>1 DEF Dial!Windows
  <2>3. a = [t EXCEPT !.tx = c, !.rx = r]
    OBVIOUS
  <2> HIDE DEF c, r, a
  <2>4. a \in Dial!Windows /\ Steady(t, a) /\ a.tx = c /\ a.wspr = t.wspr /\ a.rigTx = t.rigTx /\ a.xit = t.xit
    BY <1>1, <2>2, <2>3 DEF Dial!Windows, Steady
  <2>5. /\ u \in Dial!Windows /\ Steady(a, u) /\ u.tx = c /\ u.wspr = t.wspr
        /\ (t.transmitting /\ ~t.qsy => u = a)
        /\ t.transmitting /\ t.qsy /\ Simple(t) => Dial!Together(u)
    BY <1>1, <2>4, XITIs DEF Steady, Simple
  <2> HIDE DEF u, v
  <2>6. c - u.xit \in Int
    BY <1>1, <2>5 DEF Dial!Windows, Dial!Places
  <2>7. /\ v \in Dial!Windows /\ v.tx = c /\ v.wspr = t.wspr /\ v.tone = c - u.xit /\ v.xit = u.xit
        /\ v.rigTx = u.rigTx /\ Steady(u, v)
    BY <2>1, <2>5, <2>6 DEF Dial!Windows, Steady
  <2>8. Steady(t, v) /\ Steady(t, u)
    BY <2>4, <2>5, <2>7, SteadyAgain
  <2>9. ASSUME t.transmitting, Simple(t), t.qsy PROVE Dial!Together(v)
    BY <2>5, <2>7, <2>8, <2>9 DEF Dial!Together, Steady
  <2>10. ASSUME t.transmitting, Dial!Together(t), ~t.qsy, ~t.split PROVE Dial!Together(v)
    BY <2>4, <2>5, <2>7, <2>8, <2>10 DEF Dial!Together, Steady
  <2>11. Dial!Together(t) => Simple(t)
    BY DEF Dial!Together, Simple
  <2> QED BY <2>7, <2>8, <2>9, <2>10, <2>11 DEF c, v
<1> QED BY <1>2, <1>3

LEMMA SetRxIs ==
  ASSUME NEW t \in Dial!Windows, NEW n \in Int
  PROVE  LET v == Dial!SetRx(t, n) IN
         /\ v \in Dial!Windows /\ Steady(t, v) /\ (~t.lock => v.tx = t.tx) /\ v.wspr = t.wspr
         /\ t.transmitting /\ Dial!Together(t) /\ (t.txOn <=> t.qsy \/ ~t.split) => Dial!Together(v)
<1> DEFINE c == Dial!Clamped(n)
           a == [t EXCEPT !.rx = c]
           u == Dial!XIT(a, c)
           v == Dial!SetRx(t, n)
<1>1. c \in Dial!Places /\ c \in Int
  BY ClampedIs DEF Dial!Places
<1>2. CASE c = t.rx
  <2>1. v = t
    BY <1>2 DEF Dial!SetRx
  <2> QED BY <2>1 DEF Steady
<1>3. CASE c # t.rx
  <2>1. v = IF ~t.lock THEN a ELSE IF t.txOn THEN Dial!SetTx(u, c) ELSE u
    BY <1>3 DEF Dial!SetRx
  <2>2. a = [t EXCEPT !.rx = c]
    OBVIOUS
  <2>3. Dial!Clamped(c) = c
    BY <1>1, ClampedIs
  <2> HIDE DEF c, a
  <2>4. /\ a \in Dial!Windows /\ Steady(t, a) /\ a.tx = t.tx /\ a.wspr = t.wspr /\ a.rigTx = t.rigTx
        /\ a.xit = t.xit /\ a.tone = t.tone
    BY <1>1, <2>2 DEF Dial!Windows, Steady
  <2>5. Dial!Together(t) => Dial!Together(a) /\ Simple(a)
    BY <2>4 DEF Dial!Together, Steady, Simple
  <2>6. /\ u \in Dial!Windows /\ Steady(a, u) /\ u.tx = a.tx /\ u.wspr = a.wspr
        /\ (a.transmitting /\ ~a.qsy => u = a)
        /\ a.transmitting /\ a.qsy /\ c = a.tx /\ Simple(a) => Dial!Together(u)
    BY <1>1, <2>4, XITIs
  <2> HIDE DEF u
  <2>7. Simple(a) => Simple(u)
    BY <2>6 DEF Steady, Simple
  <2>8. Steady(t, u)
    BY <2>4, <2>6, SteadyAgain
  <2>9. CASE ~t.lock
    BY <2>1, <2>4, <2>5, <2>9
  <2>10. CASE t.lock /\ t.txOn
    <3>1. v = Dial!SetTx(u, c)
      BY <2>1, <2>10
    <3>2. /\ v \in Dial!Windows /\ Steady(u, v) /\ v.wspr = u.wspr
          /\ u.transmitting /\ Dial!Together(u) /\ (u.qsy \/ ~u.split) => Dial!Together(v)
          /\ u.transmitting /\ Simple(u) /\ u.qsy /\ u.tx # c => Dial!Together(v)
      BY <1>1, <2>3, <2>6, <3>1, SetTxIs
    <3> HIDE DEF v
    <3>3. Steady(t, v)
      BY <2>8, <3>2, SteadyAgain
    <3>4. ASSUME t.transmitting, Dial!Together(t), t.qsy \/ ~t.split PROVE Dial!Together(v)
      <4>1. /\ a.transmitting /\ u.transmitting /\ (u.qsy <=> t.qsy) /\ (a.qsy <=> t.qsy)
            /\ (u.split <=> t.split)
        BY <2>4, <2>8, <3>4 DEF Steady
      <4>2. CASE ~t.qsy
        BY <2>5, <2>6, <3>2, <3>4, <4>1, <4>2
      <4>3. CASE t.qsy
        BY <2>5, <2>6, <2>7, <3>2, <3>4, <4>1, <4>3
      <4> QED BY <4>2, <4>3
    <3> QED BY <2>4, <2>6, <2>10, <3>2, <3>3, <3>4 DEF v
  <2>11. CASE t.lock /\ ~t.txOn
    <3>1. v = u
      BY <2>1, <2>11
    <3>2. ASSUME t.transmitting, Dial!Together(t), t.txOn <=> t.qsy \/ ~t.split PROVE Dial!Together(u)
      BY <2>4, <2>5, <2>6, <2>11, <3>2 DEF Steady
    <3> QED BY <2>4, <2>6, <2>8, <2>11, <3>1, <3>2
  <2> QED BY <2>9, <2>10, <2>11
<1> QED BY <1>2, <1>3

LEMMA SetRigIs ==
  ASSUME NEW t \in Dial!Windows
  PROVE  LET v == Dial!SetRig(t) IN
         /\ v \in Dial!Windows /\ v.mode = t.mode /\ v.oldmode = t.oldmode /\ v.nominal = t.nominal
         /\ v.lock = t.lock /\ v.simplex = t.simplex /\ v.monitoring = t.monitoring
         /\ v.transmitting = t.transmitting /\ v.split = t.split /\ v.qsy = t.qsy /\ v.last = t.last
         /\ v.txOn = t.txOn /\ v.rxOn = t.rxOn /\ v.tx = t.tx /\ v.wspr = t.wspr
         /\ v.rigTx = t.rigTx \/ (t.transmitting /\ t.split)
         /\ (~t.transmitting /\ t.monitoring => v.dial = t.nominal)
         /\ (~t.transmitting /\ ~t.monitoring => v = t)
<1>1. t.nominal \in Int
  BY DEF Dial!Windows, Dial!Frequencies
<1>2. Dial!SetRig(t) = IF (t.transmitting /\ ~t.qsy) \/ ~(t.monitoring \/ t.transmitting) THEN t
                       ELSE IF t.transmitting /\ t.split THEN [t EXCEPT !.rigTx = t.nominal]
                       ELSE [t EXCEPT !.dial = t.nominal]
  BY DEF Dial!SetRig
<1>3. [t EXCEPT !.rigTx = t.nominal] \in Dial!Windows /\ [t EXCEPT !.dial = t.nominal] \in Dial!Windows
  BY <1>1 DEF Dial!Windows
<1> QED BY <1>2, <1>3 DEF Dial!Windows

\* What changes of the band leave as it is.
Onward(t, v) ==
  /\ v.mode = t.mode /\ v.lock = t.lock /\ v.simplex = t.simplex /\ v.transmitting = t.transmitting
  /\ v.split = t.split /\ v.qsy = t.qsy /\ v.last = t.last /\ v.txOn = t.txOn /\ v.rxOn = t.rxOn
  /\ v.rigTx = t.rigTx \/ (t.split /\ (t.transmitting \/ ~t.simplex))

LEMMA OnwardAgain ==
  ASSUME NEW t, NEW u, NEW v, Onward(t, u), Onward(u, v) PROVE Onward(t, v)
BY DEF Onward

LEMMA SteadyOnward ==
  ASSUME NEW t, NEW v, Steady(t, v) PROVE Onward(t, v)
BY DEF Onward, Steady

LEMMA BandToIs ==
  ASSUME NEW t \in Dial!Windows, NEW f \in Dial!Frequencies
  PROVE  LET v == Dial!BandTo(t, f) IN
         /\ v \in Dial!Windows /\ Onward(t, v) /\ v.wspr = t.wspr /\ v.nominal = f
         /\ (~t.transmitting => v.dial = f)
         /\ Dial!Shifts(t, f) /\ ~t.lock /\ t.tx - (f - t.nominal) \in 1..20 => v.tx = t.tx - (f - t.nominal)
<1> DEFINE d == f - t.nominal
           sh == Dial!Shifts(t, f)
           a == IF sh THEN Dial!SetRx(t, t.rx - d) ELSE t
           b == IF sh THEN Dial!SetTx(a, a.tx - d) ELSE t
           g == b.monitoring \/ ~b.transmitting
           c == [b EXCEPT !.oldmode = b.mode, !.nominal = f, !.monitoring = g]
           e == Dial!SetRig(c)
           v == Dial!BandTo(t, f)
<1>1. v = Dial!XIT(e, c.tx)
  BY DEF Dial!BandTo
<1>2. d \in Int /\ t.rx - d \in Int
  BY DEF Dial!Windows, Dial!Frequencies, Dial!Places
<1> HIDE DEF d, sh
<1>3. a \in Dial!Windows /\ Steady(t, a) /\ (~t.lock => a.tx = t.tx) /\ a.wspr = t.wspr
  <2>1. CASE sh
    BY <1>2, <2>1, SetRxIs
  <2>2. CASE ~sh
    BY <2>2 DEF Steady
  <2> QED BY <2>1, <2>2
<1> HIDE DEF a
<1>4. /\ b \in Dial!Windows /\ Steady(t, b) /\ b.wspr = t.wspr
      /\ sh => b.tx = Dial!Clamped(a.tx - d)
  <2>1. CASE sh
    <3>1. a.tx - d \in Int
      BY <1>2, <1>3 DEF Dial!Windows, Dial!Places
    <3>2. b \in Dial!Windows /\ Steady(a, b) /\ b.wspr = a.wspr /\ b.tx = Dial!Clamped(a.tx - d)
      BY <1>3, <2>1, <3>1, SetTxIs
    <3> QED BY <1>3, <3>2, SteadyAgain
  <2>2. CASE ~sh
    BY <2>2 DEF Steady
  <2> QED BY <2>1, <2>2
<1> HIDE DEF b
<1>5. g \in BOOLEAN
  BY <1>4 DEF Dial!Windows
<1>6. (~b.transmitting => g)
  OBVIOUS
<1> HIDE DEF g
<1>7. /\ c \in Dial!Windows /\ c.nominal = f /\ c.tx = b.tx /\ c.wspr = b.wspr /\ c.monitoring = g
      /\ Onward(b, c)
  BY <1>4, <1>5 DEF Dial!Windows, Onward
<1> HIDE DEF c
<1>8. /\ e \in Dial!Windows /\ Onward(c, e) /\ e.tx = c.tx /\ e.wspr = c.wspr /\ e.nominal = f
      /\ (~c.transmitting /\ c.monitoring => e.dial = f)
  BY <1>7, SetRigIs DEF Onward
<1> HIDE DEF e
<1>9. c.tx \in Dial!Places
  BY <1>7 DEF Dial!Windows
<1>10. v \in Dial!Windows /\ Steady(e, v) /\ v.tx = e.tx /\ v.wspr = e.wspr
  BY <1>1, <1>8, <1>9, XITIs
<1> HIDE DEF v
<1>11. Onward(t, v)
  BY <1>4, <1>7, <1>8, <1>10, SteadyOnward, OnwardAgain
<1>12. v.nominal = f /\ v.wspr = t.wspr /\ v.tx = b.tx
  BY <1>4, <1>7, <1>8, <1>10 DEF Steady
<1>13. ~t.transmitting => v.dial = f
  BY <1>4, <1>6, <1>7, <1>8, <1>10 DEF Steady, Onward
<1>14. ASSUME sh, ~t.lock, t.tx - d \in 1..20 PROVE v.tx = t.tx - d
  <2>1. t.tx - d \in Int /\ t.tx - d \in Dial!Places
    BY <1>14 DEF Dial!Places
  <2> QED BY <1>3, <1>4, <1>12, <1>14, <2>1, ClampedIs
<1> QED BY <1>10, <1>11, <1>12, <1>13, <1>14 DEF v, d, sh

LEMMA ModeToIs ==
  ASSUME NEW t \in Dial!Windows, ~t.transmitting, NEW m \in Dial!Tones \cup {Dial!Dual}
  PROVE  LET v == Dial!ModeTo(t, m)
             f == Dial!Best(Dial!Listed(m), t.nominal) IN
         /\ v \in Dial!Windows /\ v.mode = m /\ (v.simplex <=> m = "WSPR") /\ ~v.transmitting
         /\ v.split = t.split /\ (t.dial = t.nominal => v.dial = v.nominal)
         /\ (~t.split /\ t.rigTx = 0 => v.rigTx = 0) /\ (m = "WSPR" => v.rigTx = 0)
         /\ v.nominal # t.nominal /\ m # "WSPR" =>
               /\ f # 0 /\ v.nominal = f
               /\ Dial!Shifts([t EXCEPT !.mode = m], f) /\ ~t.lock /\ t.tx - (f - t.nominal) \in 1..20 =>
                     v.tx = t.tx - (f - t.nominal)
<1> DEFINE v == Dial!ModeTo(t, m)
           sx == (m = "WSPR")
           g == IF m = "WSPR" THEN 0 ELSE t.rigTx
           a == [t EXCEPT !.mode = m, !.simplex = sx, !.rigTx = g]
           f == Dial!Best(Dial!Listed(m), a.nominal)
           b == IF f = 0 THEN a ELSE Dial!BandTo(a, f)
           h == Dial!Entered(m)
           o == b.txOn \/ m \in {"JT65", Dial!Dual, "WSPR"}
           c == [b EXCEPT !.modeTx = h, !.txOn = o]
<1>1. v = IF m = "WSPR" THEN Dial!SetTx(c, c.wspr) ELSE c
  BY DEF Dial!ModeTo
<1>2. h \in Dial!Tones
  BY DEF Dial!Entered, Dial!Tones
<1>3. sx \in BOOLEAN /\ (sx <=> m = "WSPR")
  OBVIOUS
<1>4. (m = "WSPR" => g = 0) /\ (m # "WSPR" => g = t.rigTx)
  OBVIOUS
<1>5. g \in Int
  BY DEF Dial!Windows
<1> HIDE DEF sx, g, h
<1>6. /\ a \in Dial!Windows /\ a.mode = m /\ a.simplex = sx /\ a.rigTx = g /\ a.nominal = t.nominal
      /\ a.tx = t.tx /\ a.lock = t.lock /\ a.split = t.split /\ a.dial = t.dial /\ ~a.transmitting
      /\ a.oldmode = t.oldmode
  BY <1>3, <1>5 DEF Dial!Windows
<1>7. f \in Dial!Frequencies \cup {0} /\ f = Dial!Best(Dial!Listed(m), t.nominal)
  BY <1>6, BestIs
<1> HIDE DEF a, f
<1>8. /\ b \in Dial!Windows /\ b.mode = m /\ b.simplex = sx /\ ~b.transmitting /\ b.split = t.split
      /\ b.rigTx = a.rigTx \/ (t.split /\ ~sx)
      /\ (t.dial = t.nominal => b.dial = b.nominal)
      /\ b.nominal # t.nominal =>
            /\ f # 0 /\ b.nominal = f
            /\ Dial!Shifts(a, f) /\ ~a.lock /\ a.tx - (f - a.nominal) \in 1..20 => b.tx = a.tx - (f - a.nominal)
  <2>1. CASE f = 0
    BY <1>6, <2>1
  <2>2. CASE f # 0
    <3>1. f \in Dial!Frequencies
      BY <1>7, <2>2
    <3>2. b = Dial!BandTo(a, f)
      BY <2>2
    <3>3. /\ b \in Dial!Windows /\ Onward(a, b) /\ b.nominal = f /\ b.dial = f
          /\ Dial!Shifts(a, f) /\ ~a.lock /\ a.tx - (f - a.nominal) \in 1..20 => b.tx = a.tx - (f - a.nominal)
      BY <1>6, <3>1, <3>2, BandToIs
    <3> HIDE DEF b
    <3> QED BY <1>6, <2>2, <3>3 DEF Onward
  <2> QED BY <2>1, <2>2
<1> HIDE DEF b
<1>9. o \in BOOLEAN
  BY <1>8 DEF Dial!Windows
<1> HIDE DEF o
<1>10. /\ c \in Dial!Windows /\ c.mode = m /\ c.simplex = sx /\ ~c.transmitting /\ c.split = t.split
       /\ c.rigTx = b.rigTx /\ c.dial = b.dial /\ c.nominal = b.nominal /\ c.tx = b.tx
  BY <1>2, <1>8, <1>9 DEF Dial!Windows
<1> HIDE DEF c
<1>11. /\ v \in Dial!Windows /\ Steady(c, v) /\ (m # "WSPR" => v.tx = c.tx)
  <2>1. CASE m = "WSPR"
    <3>1. c.wspr \in Int
      BY <1>10 DEF Dial!Windows, Dial!Places
    <3> QED BY <1>1, <1>10, <2>1, <3>1, SetTxIs
  <2>2. CASE m # "WSPR"
    BY <1>1, <1>10, <2>2 DEF Steady
  <2> QED BY <2>1, <2>2
<1> HIDE DEF v
<1>12. Dial!Shifts([t EXCEPT !.mode = m], f) => Dial!Shifts(a, f)
  BY <1>6 DEF Dial!Shifts, Dial!Blind, Dial!Windows
<1>13. /\ v.mode = m /\ (v.simplex <=> m = "WSPR") /\ ~v.transmitting /\ v.split = t.split
       /\ (t.dial = t.nominal => v.dial = v.nominal)
  BY <1>3, <1>8, <1>10, <1>11 DEF Steady
<1>14. (~t.split /\ t.rigTx = 0 => v.rigTx = 0) /\ (m = "WSPR" => v.rigTx = 0)
  BY <1>3, <1>4, <1>6, <1>8, <1>10, <1>11 DEF Steady
<1>15. ASSUME v.nominal # t.nominal, m # "WSPR"
       PROVE  /\ f # 0 /\ v.nominal = f
              /\ Dial!Shifts([t EXCEPT !.mode = m], f) /\ ~t.lock /\ t.tx - (f - t.nominal) \in 1..20 =>
                     v.tx = t.tx - (f - t.nominal)
  <2>1. v.nominal = b.nominal /\ v.tx = b.tx
    BY <1>10, <1>11, <1>15 DEF Steady
  <2> QED BY <1>6, <1>8, <1>12, <1>15, <2>1
<1> QED BY <1>7, <1>11, <1>13, <1>14, <1>15 DEF v

\* A step of the offsets leaves the rest as it is, and a transmission together.
Moved(t, v) ==
  /\ v \in Dial!Windows /\ Steady(t, v)
  /\ t.transmitting /\ (t.txOn <=> t.qsy \/ ~t.split) /\ Dial!Together(t) => Dial!Together(v)

LEMMA MovedAgain ==
  ASSUME NEW t, NEW u, NEW v, Moved(t, u), Moved(u, v) PROVE Moved(t, v)
<1>1. Steady(t, v)
  BY SteadyAgain DEF Moved
<1>2. v \in Dial!Windows
  BY DEF Moved
<1>3. ASSUME t.transmitting, t.txOn <=> t.qsy \/ ~t.split, Dial!Together(t) PROVE Dial!Together(v)
  <2>1. Dial!Together(u)
    BY <1>3 DEF Moved
  <2>2. u.transmitting /\ (u.txOn <=> u.qsy \/ ~u.split)
    BY <1>3 DEF Moved, Steady
  <2> QED BY <2>1, <2>2 DEF Moved
<1> QED BY <1>1, <1>2, <1>3 DEF Moved

LEMMA MovedNot ==
  ASSUME NEW t \in Dial!Windows PROVE Moved(t, t)
BY DEF Moved, Steady

LEMMA MovedTx ==
  ASSUME NEW t \in Dial!Windows, t.txOn, NEW n \in Int PROVE Moved(t, Dial!SetTx(t, n))
BY SetTxIs DEF Moved

LEMMA MovedRx ==
  ASSUME NEW t \in Dial!Windows, NEW n \in Int PROVE Moved(t, Dial!SetRx(t, n))
BY SetRxIs DEF Moved

LEMMA MovedMode ==
  ASSUME NEW t \in Dial!Windows, NEW m \in Dial!Tones PROVE Moved(t, [t EXCEPT !.modeTx = m])
<1> DEFINE v == [t EXCEPT !.modeTx = m]
<1>1. v \in Dial!Windows
  BY DEF Dial!Windows
<1>2. Steady(t, v) /\ v.rigTx = t.rigTx /\ v.xit = t.xit /\ v.tone = t.tone /\ v.tx = t.tx
  BY DEF Dial!Windows, Steady
<1> HIDE DEF v
<1>3. Dial!Together(t) => Dial!Together(v)
  BY <1>2 DEF Dial!Together, Steady
<1>4. Moved(t, v)
  BY <1>1, <1>2, <1>3 DEF Moved
<1> QED BY <1>4 DEF v

LEMMA RxClickedIs ==
  ASSUME NEW t \in Dial!Windows, NEW n PROVE Moved(t, Dial!RxClicked(t, n))
<1> DEFINE r == [t EXCEPT !.modeTx = Dial!Flipped(t.modeTx)]
           x == IF t.modeTx = "JT65" THEN Top65 ELSE Fmin
           v == Dial!RxClicked(t, n)
<1>1. v \in {t, r, Dial!SetTx(r, r.rx), Dial!SetRx(t, x)} /\ (v \in {t, r, Dial!SetRx(t, x)} \/ t.txOn)
  BY DEF Dial!RxClicked
<1>2. Moved(t, r) /\ r.txOn = t.txOn
  BY FlippedIs, MovedMode DEF Moved, Steady
<1>3. r \in Dial!Windows
  BY <1>2 DEF Moved
<1>4. r.rx \in Int /\ x \in Int
  BY <1>3, DialConstants DEF Dial!Windows, Dial!Places
<1> HIDE DEF r, x, v
<1>5. CASE v \in {t, r, Dial!SetRx(t, x)}
  BY <1>2, <1>4, <1>5, MovedNot, MovedRx DEF v
<1>6. CASE t.txOn /\ v = Dial!SetTx(r, r.rx)
  <2>1. Moved(r, v)
    BY <1>2, <1>3, <1>4, <1>6, MovedTx
  <2>2. Moved(t, v)
    BY <1>2, <2>1, MovedAgain
  <2> QED BY <2>2 DEF v
<1> QED BY <1>1, <1>5, <1>6

LEMMA ClickedIs ==
  ASSUME NEW t \in Dial!Windows, t.simplex <=> t.mode = "WSPR", NEW n \in Dial!Places,
         NEW left \in BOOLEAN, NEW ctrl \in BOOLEAN
  PROVE  Moved(t, Dial!Clicked(t, n, left, ctrl))
<1> DEFINE rx == IF left \/ t.lock THEN n ELSE t.rx
           tx == IF ctrl \/ t.lock \/ ~left THEN n ELSE t.tx
           a == IF t.rxOn THEN Dial!SetRx(t, rx) ELSE t
           y == tx - a.xit
           z == [a EXCEPT !.wspr = tx, !.tx = tx, !.tone = y]
           b == IF t.mode = "WSPR" THEN z ELSE IF a.txOn THEN Dial!SetTx(a, tx) ELSE a
           v == Dial!Clicked(t, n, left, ctrl)
<1>1. v = IF left /\ ~t.lock THEN Dial!RxClicked(b, n) ELSE b
  BY DEF Dial!Clicked
<1>2. rx \in Int /\ tx \in Int /\ tx \in Dial!Places
  BY DEF Dial!Windows, Dial!Places
<1> HIDE DEF rx, tx
<1>3. Moved(t, a)
  BY <1>2, MovedNot, MovedRx
<1>4. a \in Dial!Windows /\ Steady(t, a)
  BY <1>3 DEF Moved
<1> HIDE DEF a
<1>5. y \in Int
  BY <1>2, <1>4 DEF Dial!Windows
<1>6. y = tx - a.xit
  OBVIOUS
<1> HIDE DEF y
<1>7. t.mode = "WSPR" => Moved(a, z)
  <2>1. z \in Dial!Windows
    BY <1>2, <1>4, <1>5 DEF Dial!Windows
  <2>2. Steady(a, z) /\ z.rigTx = a.rigTx /\ z.xit = a.xit /\ z.tone = y /\ z.tx = tx
    BY <1>4 DEF Dial!Windows, Steady
  <2> HIDE DEF z
  <2>3. ASSUME t.mode = "WSPR", Dial!Together(a) PROVE Dial!Together(z)
    <3>1. a.simplex
      BY <1>4, <2>3 DEF Steady
    <3> QED BY <1>6, <2>2, <2>3, <3>1 DEF Dial!Together, Steady
  <2> QED BY <2>1, <2>2, <2>3 DEF Moved
<1> HIDE DEF z
<1>8. Moved(a, b)
  BY <1>2, <1>4, <1>7, MovedNot, MovedTx
<1>9. Moved(t, b)
  BY <1>3, <1>8, MovedAgain
<1>10. b \in Dial!Windows
  BY <1>9 DEF Moved
<1> HIDE DEF b
<1>11. Moved(b, Dial!RxClicked(b, n))
  BY <1>10, RxClickedIs
<1>12. Moved(t, Dial!RxClicked(b, n))
  BY <1>9, <1>11, MovedAgain
<1> HIDE DEF v
<1>13. Moved(t, v)
  BY <1>1, <1>9, <1>12
<1> QED BY <1>13 DEF v

LEMMA AnsweredIs ==
  ASSUME NEW t \in Dial!Windows, NEW n \in Int, NEW m \in Dial!Tones, NEW ctrl \in BOOLEAN
  PROVE  Moved(t, Dial!Answered(t, n, m, ctrl))
<1> DEFINE dual == t.mode = Dial!Dual /\ ~t.transmitting
           moves == t.lock \/ ctrl \/ (t.mode = Dial!Dual /\ m # t.modeTx)
           a == IF dual THEN [t EXCEPT !.modeTx = m] ELSE t
           b == IF moves THEN Dial!SetTx(a, n) ELSE a
           v == Dial!Answered(t, n, m, ctrl)
<1>1. v = IF (~dual /\ m # t.modeTx) \/ (moves /\ ~t.txOn) THEN a
          ELSE IF b.rxOn THEN Dial!SetRx(b, n) ELSE b
  BY DEF Dial!Answered
<1> HIDE DEF dual, moves
<1>2. Moved(t, a)
  BY MovedMode, MovedNot
<1> HIDE DEF a
<1>3. a \in Dial!Windows /\ a.txOn = t.txOn
  BY <1>2 DEF Moved, Steady
<1>4. (moves /\ ~t.txOn) \/ Moved(a, b)
  <2>1. CASE moves /\ t.txOn
    BY <1>3, <2>1, MovedTx
  <2>2. CASE ~moves
    BY <1>3, <2>2, MovedNot
  <2> QED BY <2>1, <2>2
<1>5. v = a \/ (Moved(a, b) /\ v \in {b, Dial!SetRx(b, n)})
  BY <1>1, <1>4
<1> HIDE DEF b, v
<1>6. ASSUME Moved(a, b), v \in {b, Dial!SetRx(b, n)} PROVE Moved(t, v)
  <2>1. b \in Dial!Windows
    BY <1>6 DEF Moved
  <2>2. Moved(b, v)
    BY <1>6, <2>1, MovedNot, MovedRx
  <2> QED BY <1>2, <1>6, <2>2, MovedAgain
<1>7. Moved(t, v)
  BY <1>2, <1>5, <1>6
<1> QED BY <1>7 DEF v

LEMMA DialPlain ==
  ASSUME Dial!DialInv
  PROVE  /\ s1 \in Dial!Windows /\ s2 \in Nat /\ s3 \in BOOLEAN /\ s4 \in BOOLEAN
         /\ s1.mode \in Dial!Tones \cup {Dial!Dual} /\ s1.nominal \in Dial!Frequencies
         /\ s1.last \in Dial!Frequencies /\ s1.tx \in Dial!Places /\ s1.rx \in Dial!Places
         /\ s1.tx \in Int /\ s1.rx \in Int /\ s1.nominal \in Int /\ s1.last \in Int
         /\ s1.simplex \in BOOLEAN /\ s1.monitoring \in BOOLEAN /\ s1.transmitting \in BOOLEAN
         /\ s1.split \in BOOLEAN /\ s1.qsy \in BOOLEAN /\ s1.lock \in BOOLEAN
         /\ s1.txOn \in BOOLEAN /\ s1.rxOn \in BOOLEAN
         /\ (s1.simplex <=> s1.mode = "WSPR") /\ (~s1.split => s1.rigTx = 0)
         /\ (s1.transmitting => (s1.txOn <=> s1.qsy \/ ~s1.split))
         /\ (~s4 => s1.dial = s1.nominal /\ (s1.simplex => s1.rigTx = 0))
         /\ (s1.transmitting /\ s3 /\ ~s4 => Dial!Together(s1))
BY DEF Dial!DialInv, Dial!Windows, Dial!Places, Dial!Frequencies

LEMMA DialInitial ==
  ASSUME Dial!Init PROVE Dial!DialInv
<1>1. PICK i \in 1..Len(Dials), l \in BOOLEAN, sp \in BOOLEAN, q \in BOOLEAN :
        LET m == IF Dials[i].mode = "JT65" THEN Dial!Dual ELSE Dials[i].mode
        IN /\ s1 = [mode |-> m, modeTx |-> Dial!Entered(m), oldmode |-> m, nominal |-> Dials[i].f, tx |-> 6,
               rx |-> 6, lock |-> l, xit |-> 0, simplex |-> m = "WSPR", monitoring |-> TRUE,
               transmitting |-> FALSE, split |-> sp, qsy |-> q, last |-> Dials[i].f, wspr |-> 6,
               txOn |-> TRUE, rxOn |-> TRUE, dial |-> Dials[i].f,
               rigTx |-> IF sp /\ m # "WSPR" THEN Dials[i].f ELSE 0, tone |-> 6]
           /\ s2 = 0 /\ s3 = TRUE /\ s4 = FALSE
  BY DEF Dial!Init
<1> DEFINE m == IF Dials[i].mode = "JT65" THEN Dial!Dual ELSE Dials[i].mode
           f == Dials[i].f
           e == Dial!Entered(m)
           sx == (m = "WSPR")
           g == IF sp /\ m # "WSPR" THEN Dials[i].f ELSE 0
           k == 6
           z == 0
           on == TRUE
           no == FALSE
<1>2. f \in Dial!Frequencies /\ m \in Dial!Tones \cup {Dial!Dual}
  BY DialsAre DEF Dial!Tones
<1>3. f \in Int
  BY <1>2 DEF Dial!Frequencies
<1>4. e \in Dial!Tones
  BY <1>2 DEF Dial!Entered, Dial!Tones
<1>5. sx \in BOOLEAN /\ (sx <=> m = "WSPR")
  OBVIOUS
<1>6. g \in Int /\ ((sp /\ ~sx) \/ g = 0)
  BY <1>3
<1>7. k \in Dial!Places /\ k \in Int /\ z \in Int /\ on \in BOOLEAN /\ no \in BOOLEAN /\ on /\ ~no
  BY DEF Dial!Places
<1>8. s1 = [mode |-> m, modeTx |-> e, oldmode |-> m, nominal |-> f, tx |-> k,
            rx |-> k, lock |-> l, xit |-> z, simplex |-> sx, monitoring |-> on,
            transmitting |-> no, split |-> sp, qsy |-> q, last |-> f, wspr |-> k,
            txOn |-> on, rxOn |-> on, dial |-> f, rigTx |-> g, tone |-> k]
      /\ s2 = 0 /\ s3 = TRUE /\ s4 = FALSE
  BY <1>1
<1> HIDE DEF m, f, e, sx, g, k, z, on, no
<1>9. s1 \in Dial!Windows
  BY <1>2, <1>3, <1>4, <1>5, <1>6, <1>7, <1>8 DEF Dial!Windows
<1>10. /\ s1.mode = m /\ s1.simplex = sx /\ s1.split = sp /\ s1.rigTx = g /\ ~s1.transmitting
       /\ s1.dial = f /\ s1.nominal = f
  BY <1>7, <1>8
<1>11. s2 \in Nat /\ s3 \in BOOLEAN /\ s4 \in BOOLEAN
  BY <1>8
<1> QED BY <1>5, <1>6, <1>9, <1>10, <1>11 DEF Dial!DialInv

\* A step of the offsets, with the lock turned or not.
LEMMA DialMoved ==
  ASSUME Dial!DialInv, NEW t \in Dial!Windows, Moved(t, s1'),
         t = s1 \/ t = [s1 EXCEPT !.lock = ~s1.lock], s2' \in Nat, s3' = s3, s4' = s4
  PROVE  Dial!DialInv'
<1>1. /\ t.mode = s1.mode /\ t.nominal = s1.nominal /\ t.simplex = s1.simplex /\ t.tx = s1.tx
      /\ t.transmitting = s1.transmitting /\ t.split = s1.split /\ t.qsy = s1.qsy /\ t.txOn = s1.txOn
      /\ t.dial = s1.dial /\ t.rigTx = s1.rigTx /\ t.xit = s1.xit /\ t.tone = s1.tone
  BY DialPlain DEF Dial!Windows
<1>2. Dial!Together(s1) => Dial!Together(t)
  BY <1>1 DEF Dial!Together
<1>3. /\ s1' \in Dial!Windows /\ s1'.mode = s1.mode /\ s1'.nominal = s1.nominal /\ s1'.simplex = s1.simplex
      /\ s1'.transmitting = s1.transmitting /\ s1'.split = s1.split /\ s1'.qsy = s1.qsy /\ s1'.txOn = s1.txOn
      /\ s1'.dial = s1.dial /\ (s1'.rigTx = s1.rigTx \/ (~s1.simplex /\ s1.split))
  BY <1>1 DEF Moved, Steady
<1>4. s1'.transmitting /\ s3' /\ ~s4' => Dial!Together(s1')
  BY <1>1, <1>2, <1>3, DialPlain DEF Moved
<1>5. /\ s1'.simplex <=> s1'.mode = "WSPR"
      /\ ~s1'.split => s1'.rigTx = 0
      /\ s1'.transmitting => (s1'.txOn <=> s1'.qsy \/ ~s1'.split)
      /\ ~s4' => s1'.dial = s1'.nominal /\ (s1'.simplex => s1'.rigTx = 0)
  BY <1>3, DialPlain
<1>6. s3' \in BOOLEAN /\ s4' \in BOOLEAN
  BY DialPlain
<1> QED BY <1>3, <1>4, <1>5, <1>6 DEF Dial!DialInv

LEMMA DialOffsetsMet ==
  ASSUME Dial!DialInv, Dial!R2T \/ Dial!T2R \/ Dial!TxMode PROVE Dial!DialInv'
<1>1. s2' = s2 + 1 /\ s3' = s3 /\ s4' = s4
  BY DEF Dial!R2T, Dial!T2R, Dial!TxMode, Dial!Op, Dial!Still
<1>2. CASE Dial!R2T
  <2>1. Moved(s1, s1')
    BY <1>2, DialPlain, MovedTx DEF Dial!R2T
  <2> QED BY <1>1, <2>1, DialPlain, DialMoved
<1>3. CASE Dial!T2R
  <2>1. Moved(s1, s1')
    BY <1>3, DialPlain, MovedRx DEF Dial!T2R
  <2> QED BY <1>1, <2>1, DialPlain, DialMoved
<1>4. CASE Dial!TxMode
  <2>1. s1' = [s1 EXCEPT !.modeTx = Dial!Flipped(s1.modeTx)]
    BY <1>4 DEF Dial!TxMode
  <2>2. Moved(s1, s1')
    BY <2>1, DialPlain, FlippedIs, MovedMode
  <2> QED BY <1>1, <2>2, DialPlain, DialMoved
<1> QED BY <1>2, <1>3, <1>4

LEMMA DialOffsets ==
  ASSUME Dial!DialInv, NEW n \in Offsets,
         \/ Dial!TypeTx(n) \/ Dial!TypeRx(n)
         \/ \E left, ctrl \in BOOLEAN : Dial!Click(n, left, ctrl)
         \/ \E m \in {"JT9", "JT65"}, ctrl \in BOOLEAN : Dial!DoubleClick(n, m, ctrl)
  PROVE  Dial!DialInv'
<1>1. n \in Int /\ n \in Dial!Places
  BY DialConstants DEF Dial!Places
<1>2. s2' = s2 + 1 /\ s3' = s3 /\ s4' = s4
  BY DEF Dial!TypeTx, Dial!TypeRx, Dial!Click, Dial!DoubleClick, Dial!Op, Dial!Still
<1>3. CASE Dial!TypeTx(n)
  <2>1. Moved(s1, s1')
    BY <1>1, <1>3, DialPlain, MovedTx DEF Dial!TypeTx
  <2> QED BY <1>2, <2>1, DialPlain, DialMoved
<1>4. CASE Dial!TypeRx(n)
  <2>1. Moved(s1, s1')
    BY <1>1, <1>4, DialPlain, MovedRx DEF Dial!TypeRx
  <2> QED BY <1>2, <2>1, DialPlain, DialMoved
<1>5. CASE \E left, ctrl \in BOOLEAN : Dial!Click(n, left, ctrl)
  <2>1. \E left, ctrl \in BOOLEAN : s1' = Dial!Clicked(s1, n, left, ctrl)
    BY <1>5 DEF Dial!Click
  <2>2. Moved(s1, s1')
    BY <1>1, <2>1, DialPlain, ClickedIs
  <2> QED BY <1>2, <2>2, DialPlain, DialMoved
<1>6. CASE \E m \in {"JT9", "JT65"}, ctrl \in BOOLEAN : Dial!DoubleClick(n, m, ctrl)
  <2>1. \E m \in Dial!Tones, ctrl \in BOOLEAN : s1' = Dial!Answered(s1, n, m, ctrl)
    BY <1>6 DEF Dial!DoubleClick, Dial!Tones
  <2>2. Moved(s1, s1')
    BY <1>1, <2>1, DialPlain, AnsweredIs
  <2> QED BY <1>2, <2>2, DialPlain, DialMoved
<1> QED BY <1>3, <1>4, <1>5, <1>6

LEMMA DialLocked ==
  ASSUME Dial!DialInv, Dial!Lock PROVE Dial!DialInv'
<1> DEFINE t == [s1 EXCEPT !.lock = ~s1.lock]
<1>1. /\ s2' = s2 + 1 /\ s3' = s3 /\ s4' = s4
      /\ s1' = (IF ~s1.lock /\ s1.txOn THEN Dial!SetTx(t, s1.rx) ELSE t)
  BY DEF Dial!Lock, Dial!Op, Dial!Still
<1>2. t \in Dial!Windows /\ t.txOn = s1.txOn
  BY DialPlain DEF Dial!Windows
<1>3. t = [s1 EXCEPT !.lock = ~s1.lock]
  OBVIOUS
<1> HIDE DEF t
<1>4. Moved(t, s1')
  BY <1>1, <1>2, DialPlain, MovedTx, MovedNot
<1> QED BY <1>1, <1>2, <1>3, <1>4, DialPlain, DialMoved

\* A step that ends outside a transmission or within a deferred one
LEMMA DialQuiet ==
  ASSUME s1' \in Dial!Windows, s2' \in Nat, s3' \in BOOLEAN, s4' \in BOOLEAN,
         s1'.simplex <=> s1'.mode = "WSPR", ~s1'.split => s1'.rigTx = 0,
         s1'.transmitting => s4' /\ (s1'.txOn <=> s1'.qsy \/ ~s1'.split),
         ~s4' => s1'.dial = s1'.nominal /\ (s1'.simplex => s1'.rigTx = 0)
  PROVE  Dial!DialInv'
BY DEF Dial!DialInv

LEMMA DialBandChanged ==
  ASSUME Dial!DialInv, NEW f \in Dial!Frequencies, Dial!ChangeBand(f) PROVE Dial!DialInv'
<1>1. s1' = Dial!BandTo(s1, f) /\ s2' = s2 + 1 /\ s3' = s3 /\ s4' = (s1.transmitting \/ (s4 /\ s1.simplex))
  BY DEF Dial!ChangeBand, Dial!Op
<1>2. /\ s1' \in Dial!Windows /\ Onward(s1, s1') /\ s1'.nominal = f
      /\ (~s1.transmitting => s1'.dial = f)
  BY <1>1, DialPlain, BandToIs
<1>3. /\ s1'.simplex <=> s1'.mode = "WSPR"
      /\ ~s1'.split => s1'.rigTx = 0
      /\ s1'.transmitting => (s1'.txOn <=> s1'.qsy \/ ~s1'.split)
  BY <1>2, DialPlain DEF Onward
<1>4. s4' \in BOOLEAN /\ (s1'.transmitting => s4') /\ s2' \in Nat /\ s3' \in BOOLEAN
  BY <1>1, <1>2, DialPlain DEF Onward
<1>5. ASSUME ~s4' PROVE s1'.dial = s1'.nominal /\ (s1'.simplex => s1'.rigTx = 0)
  <2>1. ~s1.transmitting /\ (s1.simplex => ~s4)
    BY <1>1, <1>5
  <2> QED BY <1>2, <2>1, DialPlain DEF Onward
<1> QED BY <1>2, <1>3, <1>4, <1>5, DialQuiet

LEMMA DialModeChanged ==
  ASSUME Dial!DialInv, NEW m \in Dial!Tones \cup {Dial!Dual}, Dial!ChangeMode(m) PROVE Dial!DialInv'
<1>1. s1' = Dial!ModeTo(s1, m) /\ ~s1.transmitting /\ s2' = s2 + 1 /\ s3' = s3 /\ s4' = s4
  BY DEF Dial!ChangeMode, Dial!Op, Dial!Still
<1>2. /\ s1' \in Dial!Windows /\ s1'.mode = m /\ (s1'.simplex <=> m = "WSPR") /\ ~s1'.transmitting
      /\ s1'.split = s1.split /\ (s1.dial = s1.nominal => s1'.dial = s1'.nominal)
      /\ (~s1.split /\ s1.rigTx = 0 => s1'.rigTx = 0) /\ (m = "WSPR" => s1'.rigTx = 0)
  BY <1>1, DialPlain, ModeToIs
<1>3. s2' \in Nat /\ s3' \in BOOLEAN /\ s4' \in BOOLEAN
  BY <1>1, DialPlain
<1>4. (~s1'.split => s1'.rigTx = 0) /\ (~s4' => s1'.dial = s1'.nominal /\ (s1'.simplex => s1'.rigTx = 0))
  BY <1>1, <1>2, DialPlain
<1> QED BY <1>2, <1>3, <1>4, DialQuiet

LEMMA DialMonitored ==
  ASSUME Dial!DialInv, Dial!Monitor PROVE Dial!DialInv'
<1> DEFINE on == ~s1.monitoring
           l == s1.last
           t == [s1 EXCEPT !.monitoring = on]
           b == [t EXCEPT !.nominal = l]
           e == Dial!SetRig(b)
<1>1. /\ ~s1.transmitting /\ s2' = s2 + 1 /\ s3' = s3 /\ s4' = s4
      /\ s1' = (IF ~s1.monitoring /\ LastUsed THEN Dial!XIT(e, s1.tx) ELSE t)
  BY DEF Dial!Monitor, Dial!Op, Dial!Still
<1>2. on \in BOOLEAN /\ (on <=> ~s1.monitoring) /\ l \in Dial!Frequencies
  BY DialPlain
<1> HIDE DEF on, l
<1>3. /\ t \in Dial!Windows /\ t.mode = s1.mode /\ t.simplex = s1.simplex /\ ~t.transmitting
      /\ t.split = s1.split /\ t.rigTx = s1.rigTx /\ t.dial = s1.dial /\ t.nominal = s1.nominal
      /\ t.monitoring = on
  BY <1>1, <1>2, DialPlain DEF Dial!Windows
<1> HIDE DEF t
<1>4. /\ b \in Dial!Windows /\ b.mode = s1.mode /\ b.simplex = s1.simplex /\ ~b.transmitting
      /\ b.split = s1.split /\ b.rigTx = s1.rigTx /\ b.monitoring = on
  BY <1>2, <1>3 DEF Dial!Windows
<1> HIDE DEF b
<1>5. s2' \in Nat /\ s3' \in BOOLEAN /\ s4' \in BOOLEAN
  BY <1>1, DialPlain
<1>6. CASE s1.monitoring \/ ~LastUsed
  <2>1. s1' = t
    BY <1>1, <1>6
  <2>2. /\ (s1'.simplex <=> s1'.mode = "WSPR") /\ (~s1'.split => s1'.rigTx = 0)
        /\ (~s4' => s1'.dial = s1'.nominal /\ (s1'.simplex => s1'.rigTx = 0))
    BY <1>1, <1>3, <2>1, DialPlain
  <2> QED BY <1>3, <1>5, <2>1, <2>2, DialQuiet
<1>7. CASE ~s1.monitoring /\ LastUsed
  <2>1. /\ e \in Dial!Windows /\ e.mode = s1.mode /\ e.simplex = s1.simplex /\ ~e.transmitting
        /\ e.split = s1.split /\ e.rigTx = s1.rigTx /\ e.dial = e.nominal
    BY <1>2, <1>4, <1>7, SetRigIs
  <2> HIDE DEF e
  <2>2. s1' = Dial!XIT(e, s1.tx)
    BY <1>1, <1>7
  <2>3. s1' \in Dial!Windows /\ Steady(e, s1')
    BY <2>1, <2>2, DialPlain, XITIs
  <2>4. /\ (s1'.simplex <=> s1'.mode = "WSPR") /\ (~s1'.split => s1'.rigTx = 0) /\ ~s1'.transmitting
        /\ (~s4' => s1'.dial = s1'.nominal /\ (s1'.simplex => s1'.rigTx = 0))
    BY <1>1, <2>1, <2>3, DialPlain DEF Steady
  <2> QED BY <1>5, <2>3, <2>4, DialQuiet
<1> QED BY <1>6, <1>7

LEMMA DialStarted ==
  ASSUME Dial!DialInv, Dial!StartTx PROVE Dial!DialInv'
<1> DEFINE e == Dial!SetRig(s1)
           t == Dial!XIT(e, s1.tx)
           al == s1.qsy \/ ~s1.split
           rx == IF s1.lock THEN al ELSE t.rxOn
           y == IF s1.mode = "WSPR" THEN s1.tx ELSE s1.tx - t.xit
           on == TRUE
           no == FALSE
<1>1. /\ ~s1.transmitting /\ s2' = s2 + 1 /\ s3' = s1.monitoring
      /\ s1' = [t EXCEPT !.transmitting = on, !.monitoring = no, !.txOn = al, !.rxOn = rx, !.tone = y]
      /\ s4' = (s4 /\ (s1.simplex \/ ~s1.monitoring))
  BY DEF Dial!StartTx, Dial!Op
<1>2. /\ e \in Dial!Windows /\ e.mode = s1.mode /\ e.simplex = s1.simplex /\ ~e.transmitting
      /\ e.split = s1.split /\ e.qsy = s1.qsy /\ e.rigTx = s1.rigTx /\ e.tx = s1.tx /\ e.nominal = s1.nominal
      /\ e.monitoring = s1.monitoring
      /\ (s1.monitoring => e.dial = e.nominal) /\ (~s1.monitoring => e = s1)
  BY <1>1, DialPlain, SetRigIs
<1> HIDE DEF e
<1>3. /\ t \in Dial!Windows /\ Steady(e, t) /\ t.tx = s1.tx
      /\ s1.monitoring /\ Simple(e) => Dial!Together(t)
  BY <1>2, DialPlain, XITIs
<1> HIDE DEF t
<1>4. al \in BOOLEAN /\ (al <=> s1.qsy \/ ~s1.split) /\ on \in BOOLEAN /\ no \in BOOLEAN /\ on
  OBVIOUS
<1>5. rx \in BOOLEAN
  BY <1>3, <1>4 DEF Dial!Windows
<1>6. t.xit \in Int /\ y \in Int /\ (s1.mode = "WSPR" => y = s1.tx) /\ (s1.mode # "WSPR" => y = s1.tx - t.xit)
  BY <1>3, DialPlain DEF Dial!Windows
<1> HIDE DEF al, rx, y, on, no
<1>7. s1' \in Dial!Windows
  <2> DEFINE u == [t EXCEPT !.transmitting = on, !.monitoring = no, !.txOn = al]
  <2>1. u \in Dial!Windows
    BY <1>3, <1>4 DEF Dial!Windows
  <2>2. s1' = [u EXCEPT !.rxOn = rx, !.tone = y]
    BY <1>1
  <2> HIDE DEF u
  <2> QED BY <1>5, <1>6, <2>1, <2>2 DEF Dial!Windows
<1>8. /\ s1'.mode = t.mode /\ s1'.simplex = t.simplex /\ s1'.split = t.split /\ s1'.qsy = t.qsy
      /\ s1'.rigTx = t.rigTx /\ s1'.dial = t.dial /\ s1'.nominal = t.nominal /\ s1'.tx = t.tx
      /\ s1'.xit = t.xit /\ s1'.tone = y /\ s1'.txOn = al
  BY <1>1, <1>3 DEF Dial!Windows
<1>9. /\ t.mode = s1.mode /\ t.simplex = s1.simplex /\ t.split = s1.split /\ t.qsy = s1.qsy
      /\ t.rigTx = s1.rigTx \/ (~s1.simplex /\ s1.split)
      /\ t.nominal = s1.nominal /\ (s1.monitoring => t.dial = t.nominal)
      /\ (~s1.monitoring => t.dial = s1.dial)
  BY <1>2, <1>3 DEF Steady
<1>10. s2' \in Nat /\ s3' \in BOOLEAN /\ s4' \in BOOLEAN
  BY <1>1, DialPlain
<1>11. /\ s1'.simplex <=> s1'.mode = "WSPR"
       /\ ~s1'.split => s1'.rigTx = 0
       /\ s1'.transmitting => (s1'.txOn <=> s1'.qsy \/ ~s1'.split)
  BY <1>4, <1>8, <1>9, DialPlain
<1>12. ASSUME ~s4' PROVE s1'.dial = s1'.nominal /\ (s1'.simplex => s1'.rigTx = 0)
  <2>1. ~s4 \/ (~s1.simplex /\ s1.monitoring)
    BY <1>1, <1>12
  <2> QED BY <1>8, <1>9, <2>1, DialPlain
<1>13. ASSUME s3', ~s4' PROVE Dial!Together(s1')
  <2>1. s1.monitoring /\ (s1.simplex => ~s4)
    BY <1>1, <1>13
  <2>2. Simple(e)
    BY <1>2, <2>1, DialPlain DEF Simple
  <2>3. Dial!Together(t)
    BY <1>3, <2>1, <2>2
  <2>4. y = t.tx - t.xit
    <3>1. s1.mode = "WSPR" => t.xit = 0
      BY <1>9, <2>3, DialPlain DEF Dial!Together
    <3> QED BY <1>3, <1>6, <3>1, DialPlain
  <2> QED BY <1>8, <2>3, <2>4 DEF Dial!Together
<1> QED BY <1>7, <1>10, <1>11, <1>12, <1>13 DEF Dial!DialInv

LEMMA DialEnded ==
  ASSUME Dial!DialInv, Dial!EndTx PROVE Dial!DialInv'
<1> DEFINE on == TRUE
           no == FALSE
           rx == IF s1.lock THEN TRUE ELSE s1.rxOn
<1>1. /\ s1' = [s1 EXCEPT !.transmitting = no, !.monitoring = on, !.txOn = on, !.rxOn = rx]
      /\ s2' = s2 /\ s3' = s3 /\ s4' = s4
  BY DEF Dial!EndTx
<1>2. on \in BOOLEAN /\ no \in BOOLEAN /\ rx \in BOOLEAN /\ ~no
  BY DialPlain
<1> HIDE DEF on, no, rx
<1>3. /\ s1' \in Dial!Windows /\ s1'.mode = s1.mode /\ s1'.simplex = s1.simplex /\ s1'.split = s1.split
      /\ s1'.rigTx = s1.rigTx /\ s1'.dial = s1.dial /\ s1'.nominal = s1.nominal /\ ~s1'.transmitting
  BY <1>1, <1>2, DialPlain DEF Dial!Windows
<1>4. s2' \in Nat /\ s3' \in BOOLEAN /\ s4' \in BOOLEAN
  BY <1>1, DialPlain
<1>5. /\ (s1'.simplex <=> s1'.mode = "WSPR") /\ (~s1'.split => s1'.rigTx = 0)
      /\ (~s4' => s1'.dial = s1'.nominal /\ (s1'.simplex => s1'.rigTx = 0))
  BY <1>1, <1>3, DialPlain
<1> QED BY <1>3, <1>4, <1>5, DialQuiet

LEMMA DialSettled ==
  ASSUME Dial!DialInv, NEW sp \in BOOLEAN, NEW q \in BOOLEAN, Dial!Settings(sp, q) PROVE Dial!DialInv'
<1> DEFINE z == 0
           t == [s1 EXCEPT !.split = sp, !.qsy = q, !.rigTx = z]
<1>1. /\ ~s1.transmitting /\ s2' = s2 + 1 /\ s3' = s3 /\ s4' = s4 /\ s1' = Dial!XIT(t, s1.tx)
  BY DEF Dial!Settings, Dial!Op, Dial!Still
<1>2. z \in Int /\ z = 0
  OBVIOUS
<1> HIDE DEF z
<1>3. /\ t \in Dial!Windows /\ t.mode = s1.mode /\ t.simplex = s1.simplex /\ t.split = sp /\ t.rigTx = z
      /\ t.dial = s1.dial /\ t.nominal = s1.nominal /\ ~t.transmitting
  BY <1>1, <1>2, DialPlain DEF Dial!Windows
<1> HIDE DEF t
<1>4. s1' \in Dial!Windows /\ Steady(t, s1')
  BY <1>1, <1>3, DialPlain, XITIs
<1>5. s2' \in Nat /\ s3' \in BOOLEAN /\ s4' \in BOOLEAN
  BY <1>1, DialPlain
<1>6. /\ (s1'.simplex <=> s1'.mode = "WSPR") /\ (~s1'.split => s1'.rigTx = 0) /\ ~s1'.transmitting
      /\ (~s4' => s1'.dial = s1'.nominal /\ (s1'.simplex => s1'.rigTx = 0))
  BY <1>1, <1>2, <1>3, <1>4, DialPlain DEF Steady
<1> QED BY <1>4, <1>5, <1>6, DialQuiet

LEMMA DialTurned ==
  ASSUME Dial!DialInv, NEW f \in Dial!Frequencies, Dial!Turn(f) PROVE Dial!DialInv'
<1> DEFINE l == IF s1.monitoring THEN f ELSE s1.last
<1>1. /\ ~s1.transmitting /\ s2' = s2 + 1 /\ s3' = s3 /\ s4' = (s4 /\ s1.simplex)
      /\ s1' = [s1 EXCEPT !.dial = f, !.nominal = f, !.last = l]
  BY DEF Dial!Turn, Dial!Op
<1>2. l \in Dial!Frequencies /\ f \in Int
  BY DialPlain DEF Dial!Frequencies
<1> HIDE DEF l
<1>3. /\ s1' \in Dial!Windows /\ s1'.mode = s1.mode /\ s1'.simplex = s1.simplex /\ s1'.split = s1.split
      /\ s1'.rigTx = s1.rigTx /\ s1'.dial = f /\ s1'.nominal = f /\ ~s1'.transmitting
  BY <1>1, <1>2, DialPlain DEF Dial!Windows
<1>4. s2' \in Nat /\ s3' \in BOOLEAN /\ s4' \in BOOLEAN
  BY <1>1, DialPlain
<1>5. /\ (s1'.simplex <=> s1'.mode = "WSPR") /\ (~s1'.split => s1'.rigTx = 0)
      /\ (~s4' => s1'.dial = s1'.nominal /\ (s1'.simplex => s1'.rigTx = 0))
  BY <1>1, <1>3, DialPlain
<1> QED BY <1>3, <1>4, <1>5, DialQuiet

LEMMA DialHolds ==
  ASSUME Dial!DialInv, Dial!Next PROVE Dial!DialInv'
<1>1. CASE \E n \in Offsets :
             \/ Dial!TypeTx(n) \/ Dial!TypeRx(n)
             \/ \E left, ctrl \in BOOLEAN : Dial!Click(n, left, ctrl)
             \/ \E m \in {"JT9", "JT65"}, ctrl \in BOOLEAN : Dial!DoubleClick(n, m, ctrl)
  BY <1>1, DialOffsets
<1>2. CASE Dial!R2T \/ Dial!T2R \/ Dial!TxMode
  BY <1>2, DialOffsetsMet
<1>3. CASE \E i \in 1..Len(Dials) : Dial!ChangeBand(Dials[i].f)
  BY <1>3, DialsAre, DialBandChanged
<1>4. CASE \E f \in Turned : Dial!ChangeBand(f) \/ Dial!Turn(f)
  <2>1. \A f \in Turned : f \in Dial!Frequencies
    BY DialConstants
  <2> QED BY <1>4, <2>1, DialBandChanged, DialTurned
<1>5. CASE (\E i \in 1..Len(Dials) : Dial!ChangeMode(Dials[i].mode)) \/ Dial!ChangeMode(Dial!Dual)
  BY <1>5, DialsAre, DialModeChanged
<1>6. CASE \E sp, q \in BOOLEAN : Dial!Settings(sp, q)
  BY <1>6, DialSettled
<1> QED BY <1>1, <1>2, <1>3, <1>4, <1>5, <1>6, DialLocked, DialMonitored, DialStarted, DialEnded DEF Dial!Next

LEMMA DialStutter ==
  ASSUME Dial!DialInv, UNCHANGED <<s1, s2, s3, s4>> PROVE Dial!DialInv'
BY DEF Dial!DialInv

LEMMA DialShows ==
  ASSUME Dial!DialInv PROVE Dial!RfTrue /\ Dial!ToneCentred /\ Dial!DialTrue
<1>1. Dial!DialTrue
  BY DialPlain DEF Dial!DialTrue
<1>2. ASSUME s1.transmitting, s3, ~s4 PROVE Dial!OnTheAir = s1.nominal + s1.tx
  <2>1. Dial!Together(s1) /\ s1.dial = s1.nominal
    BY <1>2, DialPlain
  <2>2. s1.nominal \in Int /\ s1.nominal > 20 /\ s1.tx \in Int /\ s1.xit \in Int
    BY DialPlain DEF Dial!Windows, Dial!Frequencies
  <2>3. CASE ~s1.simplex /\ s1.split
    <3>1. s1.rigTx = s1.nominal + s1.xit /\ s1.tone = s1.tx - s1.xit /\ s1.xit = Dial!Shift(s1.tx)
      BY <2>1, <2>3 DEF Dial!Together
    <3>2. s1.rigTx # 0
      BY <2>2, <3>1, DialPlain, ShiftIs
    <3> QED BY <2>2, <3>1, <3>2 DEF Dial!OnTheAir
  <2>4. CASE ~(~s1.simplex /\ s1.split)
    BY <2>1, <2>2, <2>4 DEF Dial!Together, Dial!OnTheAir
  <2> QED BY <2>3, <2>4
<1>3. ASSUME s1.transmitting, s3, ~s4, s1.split, ~s1.simplex PROVE s1.tone \in 6..7
  <2>1. Dial!Together(s1)
    BY <1>3, DialPlain
  <2> QED BY <1>3, <2>1, DialPlain, ShiftIs DEF Dial!Together
<1> QED BY <1>1, <1>2, <1>3 DEF Dial!RfTrue, Dial!ToneCentred

LEMMA DialNear ==
  ASSUME Dial!DialInv PROVE Dial!NearStep
<1>1. SUFFICES ASSUME s1'.nominal # s1.nominal
      PROVE  /\ \A i \in 1..Len(Dials) : Dial!ChangeBand(Dials[i].f) /\ Dial!Near(s1, Dials[i].f) => Dial!OnAirKept
             /\ \A i \in 1..Len(Dials) :
                  LET m == Dials[i].mode
                  IN Dial!ChangeMode(m) /\ m # "WSPR" /\ Dial!Near([s1 EXCEPT !.mode = m], Dial!Best(m, s1.nominal))
                       => Dial!OnAirKept
  BY DEF Dial!NearStep
<1>2. ASSUME NEW i \in 1..Len(Dials), Dial!ChangeBand(Dials[i].f), Dial!Near(s1, Dials[i].f) PROVE Dial!OnAirKept
  <2> DEFINE f == Dials[i].f
  <2>1. f \in Dial!Frequencies /\ s1' = Dial!BandTo(s1, f)
    BY <1>2, DialsAre DEF Dial!ChangeBand
  <2>2. Dial!Shifts(s1, f) /\ ~s1.lock /\ s1.tx - (f - s1.nominal) \in 1..20
    BY <1>2 DEF Dial!Near
  <2> HIDE DEF f
  <2>3. s1'.nominal = f /\ s1'.tx = s1.tx - (f - s1.nominal)
    BY <2>1, <2>2, DialPlain, BandToIs
  <2>4. f \in Int
    BY <2>1 DEF Dial!Frequencies
  <2> QED BY <2>3, <2>4, DialPlain DEF Dial!OnAirKept
<1>3. ASSUME NEW i \in 1..Len(Dials), Dial!ChangeMode(Dials[i].mode), Dials[i].mode # "WSPR",
             Dial!Near([s1 EXCEPT !.mode = Dials[i].mode], Dial!Best(Dials[i].mode, s1.nominal))
      PROVE  Dial!OnAirKept
  <2> DEFINE m == Dials[i].mode
             f == Dial!Best(m, s1.nominal)
  <2>1. m \in Dial!Tones /\ s1' = Dial!ModeTo(s1, m) /\ ~s1.transmitting /\ m # "WSPR"
    BY <1>3, DialsAre DEF Dial!ChangeMode
  <2>2. Dial!Listed(m) = m
    BY <2>1 DEF Dial!Listed, Dial!Dual, Dial!Tones
  <2>3. f \in Dial!Frequencies \cup {0}
    BY BestIs
  <2>4. /\ Dial!Shifts([s1 EXCEPT !.mode = m], f) /\ ~s1.lock /\ s1.tx - (f - s1.nominal) \in 1..20
    BY <1>3, DialPlain DEF Dial!Near, Dial!Windows
  <2> HIDE DEF m
  <2>5. s1'.nominal = f /\ s1'.tx = s1.tx - (f - s1.nominal)
    BY <1>1, <2>1, <2>2, <2>4, DialPlain, ModeToIs
  <2>6. f \in Int
    BY <2>3 DEF Dial!Frequencies
  <2> HIDE DEF f
  <2> QED BY <2>5, <2>6, DialPlain DEF Dial!OnAirKept
<1> QED BY <1>2, <1>3
----------------------------------------------------------------------------
\* The parts together: each keeps its own invariant.
LEMMA StepOf ==
  ASSUME [MCNext]_MCVars
  PROVE  /\ part' = part
         /\ part = "options" => Opt!Next \/ UNCHANGED Opt!vars
         /\ part = "rig" => Rig!Next \/ UNCHANGED Rig!vars
         /\ part = "sound" => Sound!Next \/ UNCHANGED Sound!vars
         /\ part = "store" => Store!Next \/ UNCHANGED Store!vars
         /\ part = "modes" => Menu!Next \/ UNCHANGED Menu!vars
         /\ part = "power" => \/ Power!Next
                              \/ UNCHANGED <<s1, s2, s3, s4, s5, s6, s7, s8, s9, s10, s11, s12, s13, s14, s15>>
         /\ part = "dial" => Dial!Next \/ UNCHANGED <<s1, s2, s3, s4>>
<1>1. CASE MCNext
  BY <1>1 DEF MCNext, ReceptionStep, ScheduleStep, OptionsStep, RigStep, SoundStep, StoreStep,
     PowerStep, DialStep, ModesStep, LogStep, DisplayStep, CallsStep, CountriesStep
<1>2. CASE UNCHANGED MCVars
  BY <1>2 DEF MCVars, Opt!vars, Opt!inForce, Opt!formVars, Opt!history, Rig!vars, Sound!vars,
     Sound!world, Sound!conf, Store!vars, Menu!vars
<1> QED BY <1>1, <1>2

\* What holds in every state, of each part its own invariant.
StationInv ==
  /\ part = "options" => Opt!OptionsInv
  /\ part = "rig" => Rig!RigInv
  /\ part = "sound" => Sound!SoundInv
  /\ part = "store" => Store!StoreInv
  /\ part = "modes" => Menu!MenuInv
  /\ part = "power" => Power!PowerInv
  /\ part = "dial" => Dial!DialInv

\* It does, whatever is clicked, typed, plugged, tuned, transmitted or restarted: each step
\* is one of the part, or leaves its variables alone.
THEOREM StationHolds == MCSpec => []StationInv
<1>1. MCInit => StationInv
  BY OptInitial, RigInitial, SoundInitial, StoreInitial, MenuInitial, PowerInitial, DialInitial
     DEF MCInit, StationInv
<1>2. StationInv /\ [MCNext]_MCVars => StationInv'
  <2>1. SUFFICES ASSUME StationInv, [MCNext]_MCVars PROVE StationInv'
    OBVIOUS
  <2>2. part' = part
    BY <2>1, StepOf
  <2>3. part = "options" => Opt!OptionsInv'
    BY <2>1, StepOf, OptStep, OptStutter DEF StationInv
  <2>4. part = "rig" => Rig!RigInv'
    BY <2>1, StepOf, RigHolds, RigStutter DEF StationInv
  <2>5. part = "sound" => Sound!SoundInv'
    BY <2>1, StepOf, SoundHolds, SoundStutter DEF StationInv
  <2>6. part = "store" => Store!StoreInv'
    BY <2>1, StepOf, StoreHolds, StoreStutter DEF StationInv
  <2>7. part = "modes" => Menu!MenuInv'
    BY <2>1, StepOf, MenuHolds, MenuStutter DEF StationInv
  <2>8. part = "power" => Power!PowerInv'
    BY <2>1, StepOf, PowerHolds, PowerStutter DEF StationInv
  <2>9. part = "dial" => Dial!DialInv'
    BY <2>1, StepOf, DialHolds, DialStutter DEF StationInv
  <2> QED BY <2>2, <2>3, <2>4, <2>5, <2>6, <2>7, <2>8, <2>9 DEF StationInv
<1> QED BY <1>1, <1>2, PTL DEF MCSpec

\* The pages show what OK would bring into force, and no clicks make options that
\* contradict each other.
THEOREM PagesAreTrue == MCSpec => []PagesTrue
<1>1. StationInv => PagesTrue
  BY OptShows DEF StationInv, PagesTrue, Store!StoreInv
<1> QED BY <1>1, StationHolds, PTL

\* However the dialog is left, rig and sound run as the settings in force say, and these
\* outlive the program.
THEOREM SettingsAreKept == MCSpec => SettingsKept
<1>1. StationInv => /\ part = "rig" => Rig!RigAsSet /\ Rig!KeyingPossible
                    /\ part = "sound" => Sound!StreamAsSet
  BY RigShows DEF StationInv, Sound!SoundInv
<1>2. StationInv /\ [MCNext]_MCVars =>
        [/\ part = "sound" => Sound!KeptAtStart
         /\ part = "store" => Store!KeptAtStart
         /\ part = "options" => Opt!ChosenAtOK]_MCVars
  <2>1. ASSUME StationInv, MCNext
        PROVE  /\ part = "sound" => Sound!KeptAtStart
               /\ part = "store" => Store!KeptAtStart
               /\ part = "options" => Opt!ChosenAtOK
    <3>1. /\ part = "sound" => Sound!Next
          /\ part = "store" => Store!Next
          /\ part = "options" => Opt!Next
      BY <2>1 DEF MCNext, ReceptionStep, ScheduleStep, OptionsStep, RigStep, SoundStep, StoreStep,
         PowerStep, DialStep, ModesStep, LogStep, DisplayStep, CallsStep, CountriesStep
    <3> QED BY <2>1, <3>1, SoundHolds, StoreHolds, OptAtOK DEF StationInv
  <2> QED BY <2>1
<1> QED BY <1>1, <1>2, StationHolds, PTL DEF MCSpec, SettingsKept

\* The signal on the air is the one shown: its mode and period, its power and its
\* frequency; and a step to a nearby frequency keeps it.
THEOREM SignalIsTrue == MCSpec => SignalTrue
<1>1. StationInv => /\ part = "modes" => Menu!PeriodsAgree /\ Menu!SignalTrue
                    /\ part = "power" => Power!PowerKept /\ Power!NotFullPower
                    /\ part = "dial" => Dial!RfTrue /\ Dial!ToneCentred /\ Dial!DialTrue
  BY MenuShows, PowerShows, DialShows DEF StationInv
<1>2. StationInv /\ [MCNext]_MCVars => [part = "dial" => Dial!NearStep]_MCVars
  BY DialNear DEF StationInv
<1> QED BY <1>1, <1>2, StationHolds, PTL DEF MCSpec, SignalTrue
=============================================================================
