-------------------------- MODULE SettingsOptions ---------------------------
(***************************************************************************)
(* The pages of the settings dialog whose boxes depend on each other: how   *)
(* decoded lines are coloured, with labels that show what it will look like, *)
(* the names of countries, logging, and which lines are shown.              *)
(*                                                                          *)
(* An option is in force (a member of Configuration::impl), shown by a box, *)
(* and for those the labels depend on it has a next_ member too; a colour   *)
(* has only the two members.                                                *)
(***************************************************************************)
EXTENDS Integers

CONSTANTS
  Kinds,     \* what can be new about a station: its country, grid or call
  Backs,     \* who a line is from: CQ, MyCall, StandardCall
  Hides,     \* what the name of a country lets the operator hide
  Palette,   \* colours
  Loaded,    \* the options in force that a settings file may hold at the start
  MaxEdits   \* bound: clicks in the dialog

Standard == "StandardCall"

\* Options and colours are named by what they say and of what.
Of(what, set) == {<<what, k>> : k \in set}
New(k) == <<"new", k>>
Band(k) == <<"band", k>>
BandMode(k) == <<"bandMode", k>>
W(what) == <<"worked", what>>
Country == <<"country", "">>
Txt == <<"txtColor", "">>
Potential == <<"potential", "">>

Parents == Of("new", Kinds) \cup {Country}
Children(p) ==
  IF p = Country THEN Of("hide", Hides) ELSE {Band(p[2]), BandMode(p[2]), <<"beep", p[2]>>}
Worked == Of("worked", {"Color", "Striked", "Underlined", "DontShow"})
Pairs == {{<<"show", "CQ">>, <<"show", "CQ73">>}, {<<"log", "prompt">>, <<"log", "auto">>}}
Options ==
  Parents \cup (UNION {Children(p) : p \in Parents}) \cup Worked \cup {Txt, Potential}
    \cup (UNION Pairs)
Colours == Of("back", Backs) \cup Of("new", Kinds) \cup Of("band", Kinds) \cup {W("Call")}

\* The labels: a line from each, and what may be new in it or worked before.
Labels == Of("back", Backs) \cup (Backs \X (Colours \ Of("back", Backs)))

VARIABLES
  force, ink,          \* options and colours in force
  box, on,             \* the boxes: ticked, enabled
  next, nextInk,       \* the next_ members
  look, seen,          \* the labels: how they look, and which are visible
  open, edits,
  cancelled,           \* history: a dialog was cancelled
  chosen, repainted,   \* history: a colour was chosen in this dialog, in one that was cancelled
  undone               \* history: Striked or Underlined, in force, was taken off since the start
formVars == <<box, on, next, nextInk, look, seen>>
inForce == <<force, ink>>
history == <<cancelled, chosen, repainted, undone>>
vars == <<inForce, formVars, open, edits, history>>

----------------------------------------------------------------------------
AnyNew(v) == \E k \in Kinds : v[New(k)]

\* How a label looks: a colour on its background or, with txtColor, the other way
\* round; calls worked before in their colour or in white, and struck out or underlined.
Decoration(v) ==
  IF v[W("Striked")] THEN "line-through" ELSE IF v[W("Underlined")] THEN "underline" ELSE "none"
Look(l, v, c) ==
  IF l[1] = "back" THEN <<v[Txt], c[l]>>
  ELSE LET back == c[<<"back", l[1]>>] IN
       IF l[2] # W("Call") THEN <<v[Txt], back, c[l[2]]>>
       ELSE <<v[Txt], back, IF v[W("Color")] THEN c[l[2]] ELSE "white", Decoration(v)>>

Visible(l, v) ==
  /\ Standard \in {l[1], l[2]} => v[Potential]
  /\ l[1] # "back" =>
       CASE l[2][1] = "new" -> v[l[2]]
         [] l[2][1] = "band" -> v[l[2]] \/ v[BandMode(l[2][2])]
         [] OTHER -> AnyNew(v)

Dressed(v, c) == [l \in Labels |-> Look(l, v, c)]
Shown(v) == {l \in Labels : Visible(l, v)}

\* A box is ticked if its option is in force and what it depends on is.
Allowed(o, v) ==
  /\ \A p \in Parents : o \in Children(p) => v[p]
  /\ o \in Worked => AnyNew(v)
  /\ o = W("Striked") => ~v[W("Underlined")]
  /\ o = W("Underlined") => ~v[W("Striked")]
Ticked(v) == [o \in Options |-> v[o] /\ Allowed(o, v)]

\* Nothing that is ticked contradicts another.
Coherent(v) ==
  /\ \A o \in Options : v[o] => Allowed(o, v)
  /\ \A pair \in Pairs : \E o \in pair : ~v[o]

\* The file was written by a dialog that was never cancelled, see Consistent.
OptionAssumption ==
  /\ Standard \in Backs /\ "back" \notin Backs /\ Palette # {} /\ MaxEdits \in Nat
  /\ Loaded \subseteq SUBSET Options
  /\ \A set \in Loaded : Coherent([o \in Options |-> o \in set])

\* initialize_models: which boxes are enabled is left as it is, and so are the
\* colours chosen and not accepted.
initialize_models ==
  /\ box' = Ticked(force) /\ next' = force
  /\ look' = Dressed(force, ink) /\ seen' = Shown(force)
  /\ UNCHANGED <<on, nextInk>>

Start(v, c) ==
  /\ box = Ticked(v) /\ on = [o \in Options |-> Allowed(o, v)]
  /\ next = v /\ nextInk = c /\ look = Dressed(v, c) /\ seen = Shown(v)

Init ==
  /\ \E set \in Loaded : force = [o \in Options |-> o \in set]
  /\ ink = [c \in Colours |-> CHOOSE p \in Palette : TRUE] /\ Start(force, ink)
  /\ open = FALSE /\ edits = 0
  /\ cancelled = FALSE /\ chosen = FALSE /\ repainted = FALSE /\ undone = FALSE

----------------------------------------------------------------------------
exec ==
  /\ ~open /\ open' = TRUE /\ initialize_models /\ chosen' = FALSE
  /\ UNCHANGED <<inForce, edits, cancelled, repainted, undone>>

\* A box is clicked; its member follows.
Click(o) ==
  /\ open /\ on[o] /\ edits < MaxEdits /\ edits' = edits + 1
  /\ next' = [next EXCEPT ![o] = ~box[o]]
  /\ UNCHANGED <<inForce, nextInk, open, cancelled, chosen, repainted>>
Tick(o, changed) == [x \in Options |-> IF x = o THEN ~box[o] ELSE changed[x]]

\* The labels that are dressed again, or shown or hidden again.
Redressed(labels) ==
  look' = [l \in Labels |-> IF l \in labels THEN Look(l, next', nextInk') ELSE look[l]]
Reshown(labels) == seen' = (seen \ labels) \cup {l \in labels : Visible(l, next')}
About(c) == {l \in Labels : c = l \/ c = l[2] \/ (c[1] = "back" /\ c[2] = l[1])}

\* on_newDXCC_check_box_clicked and those of grids and calls: what depends on the
\* box is as in force or off; the boxes of worked calls follow the members.
new_clicked(k) ==
  LET o == New(k)
      v == ~box[o]
      n == [x \in Options |->
              IF x = o THEN v ELSE IF x \in {Band(k), BandMode(k)} THEN v /\ force[x] ELSE next[x]]
  IN /\ open /\ on[o] /\ edits < MaxEdits /\ edits' = edits + 1
     /\ next' = n
     /\ box' = Tick(o, [x \in Options |->
                   IF x \in Children(o) THEN v /\ force[x]
                   ELSE IF x \in Worked THEN n[x] /\ Allowed(x, n) ELSE box[x]])
     /\ on' = [x \in Options |->
                 IF x \in Children(o) THEN v ELSE IF x \in Worked THEN Allowed(x, n) ELSE on[x]]
     /\ Reshown(About(New(k)) \cup About(Band(k)) \cup About(W("Call")))
     /\ UNCHANGED <<inForce, nextInk, look, open, history>>

band_clicked(o) ==
  /\ o[1] \in {"band", "bandMode"} /\ Click(o) /\ box' = Tick(o, box)
  /\ Reshown(About(Band(o[2]))) /\ UNCHANGED <<on, look, undone>>

country_clicked ==
  /\ Click(Country)
  /\ box' = Tick(Country, [x \in Options |-> IF x \in Children(Country)
                                             THEN ~box[Country] /\ force[x] ELSE box[x]])
  /\ on' = [x \in Options |-> IF x \in Children(Country) THEN ~box[Country] ELSE on[x]]
  /\ UNCHANGED <<look, seen, undone>>

\* on_workedStriked_check_box_clicked and on_workedUnderlined_check_box_clicked: the
\* other box comes back as in force, though its member does not.
decoration_clicked(o, other) ==
  /\ Click(o)
  /\ box' = Tick(o, [box EXCEPT ![other] = box[o] /\ force[other]])
  /\ on' = [on EXCEPT ![other] = box[o]]
  /\ Redressed(About(W("Call"))) /\ undone' = (undone \/ (box[o] /\ force[o]))
  /\ UNCHANGED seen

worked_clicked(o) ==
  /\ o \in {W("Color"), W("DontShow")} /\ Click(o) /\ box' = Tick(o, box)
  /\ Redressed(IF o = W("Color") THEN About(W("Call")) ELSE {})
  /\ UNCHANGED <<on, seen, undone>>

txtColor_clicked ==
  Click(Txt) /\ box' = Tick(Txt, box) /\ Redressed(Labels) /\ UNCHANGED <<on, seen, undone>>
newPotential_clicked ==
  /\ Click(Potential) /\ box' = Tick(Potential, box)
  /\ Reshown({l \in Labels : Standard \in {l[1], l[2]}}) /\ UNCHANGED <<on, look, undone>>

\* Boxes without a handler, and pairs of which one at most is ticked.
Single == UNION {{x \in Children(p) : x[1] \in {"beep", "hide"}} : p \in Parents}
box_clicked(o) ==
  /\ o \in Single /\ Click(o) /\ box' = Tick(o, box) /\ UNCHANGED <<on, look, seen, undone>>
pair_clicked_alone(o, other) ==
  Click(o) /\ box' = Tick(o, box) /\ UNCHANGED <<on, look, seen, undone>>
pair_clicked(o, other) ==
  /\ Click(o) /\ box' = Tick(o, [box EXCEPT ![other] = box[o] /\ @])
  /\ UNCHANGED <<on, look, seen, undone>>

\* A colour is chosen: the labels it appears in are dressed again.
Recoloured(c, p) ==
  /\ open /\ edits < MaxEdits /\ edits' = edits + 1 /\ p # nextInk[c]
  /\ nextInk' = [nextInk EXCEPT ![c] = p] /\ next' = next /\ Redressed(About(c))
  /\ chosen' = TRUE
  /\ UNCHANGED <<inForce, box, on, seen, open, cancelled, repainted, undone>>
back_chosen(p) == \E k \in Backs : Recoloured(<<"back", k>>, p)
new_chosen(p) == \E k \in Kinds : Recoloured(New(k), p) \/ Recoloured(Band(k), p)
worked_chosen(p) == Recoloured(W("Call"), p)

accept ==
  /\ open /\ open' = FALSE /\ force' = box /\ ink' = nextInk
  /\ repainted' = FALSE /\ UNCHANGED <<formVars, edits, cancelled, chosen, undone>>

reject ==
  /\ open /\ open' = FALSE /\ initialize_models
  /\ cancelled' = TRUE /\ repainted' = (repainted \/ chosen)
  /\ UNCHANGED <<inForce, edits, chosen, undone>>

\* The program ends, or crashes, and starts with what the file says: it was
\* written when the options were accepted.
restart ==
  /\ box' = Ticked(force) /\ on' = [o \in Options |-> Allowed(o, force)]
  /\ next' = force /\ nextInk' = ink /\ look' = Dressed(force, ink) /\ seen' = Shown(force)
  /\ open' = FALSE /\ chosen' = FALSE /\ repainted' = FALSE /\ undone' = FALSE
  /\ UNCHANGED <<inForce, edits, cancelled>>

Next ==
  \/ exec \/ accept \/ reject \/ restart
  \/ country_clicked \/ txtColor_clicked \/ newPotential_clicked
  \/ decoration_clicked(W("Striked"), W("Underlined"))
  \/ decoration_clicked(W("Underlined"), W("Striked"))
  \/ \E k \in Kinds : new_clicked(k)
  \/ \E o \in Options : band_clicked(o) \/ worked_clicked(o) \/ box_clicked(o)
  \/ \E pair \in Pairs : \E o, other \in pair : o # other /\ pair_clicked(o, other)
  \/ \E p \in Palette : back_chosen(p) \/ new_chosen(p) \/ worked_chosen(p)
Spec == Init /\ [][Next]_vars

----------------------------------------------------------------------------
TypeOK ==
  /\ {force, box, on, next} \subseteq [Options -> BOOLEAN]
  /\ {ink, nextInk} \subseteq [Colours -> Palette]
  /\ seen \subseteq Labels /\ open \in BOOLEAN /\ edits \in 0..MaxEdits

\* No option is in force that depends on one that is not, calls worked before are
\* not both struck out and underlined, and of a pair one at most is in force: the
\* boxes cannot be brought into another state, unless a dialog was cancelled,
\* which leaves boxes enabled as they were.
Consistent == ~cancelled => Coherent(force)

\* The labels show what OK would bring into force, whatever was clicked in which
\* order: not so after Cancel, which leaves boxes enabled and colours chosen, and
\* not once a decoration in force was taken off, which may come back by itself.
PreviewTrue ==
  open /\ ~cancelled /\ ~undone =>
    /\ seen = Shown(box)
    /\ \A l \in seen : look[l] = Look(l, box, nextInk)

\* What the dialog brings into force was in force or chosen in it: the rest is
\* undone by Cancel.
ChosenAtOK == ink' # ink => chosen \/ repainted
ChosenOnly == [][ChosenAtOK]_vars

----------------------------------------------------------------------------
\* Why the boxes cannot contradict each other (proved in StationProofs).

\* A box is enabled only if what it depends on is ticked.
Enabled ==
  \A o \in Options : on[o] =>
    (\A p \in Parents : o \in Children(p) => box[p]) /\ (o \in Worked => AnyNew(box))

\* Options whose member is always what their box shows.
Followed == {Txt, Potential} \cup Of("new", Kinds) \cup Of("band", Kinds) \cup Of("bandMode", Kinds)

\* Unless a dialog was cancelled, the members are what the boxes show, but for those of
\* worked calls that are off because nothing new is shown; and the labels show them.
InStep ==
  /\ Coherent(force) /\ Coherent(box) /\ Enabled
  /\ ~open => box = force /\ nextInk = ink
  /\ \A o \in Followed : next[o] = box[o]
  /\ AnyNew(box) => next[W("Color")] = box[W("Color")]
Tended == InStep /\ look = Dressed(next, nextInk) /\ seen = Shown(box)

\* A decoration comes back as in force when the other is taken off: its member is on
\* already, unless it was taken off before.
Decorations == Of("worked", {"Striked", "Underlined"})
Decorated ==
  /\ AnyNew(box) => \A o \in Decorations : next[o] = box[o]
  /\ \A o, other \in Decorations : o # other =>
       ~(next[o] /\ next[other]) /\ (on[o] => ~next[other])
  /\ open => \A o \in Decorations : force[o] => next[o]

OptionsInv ==
  /\ TypeOK
  /\ ~cancelled => Tended
  /\ ~cancelled /\ ~undone => Decorated
  /\ nextInk # ink => repainted \/ (open /\ chosen)
=============================================================================
