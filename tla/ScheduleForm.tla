---------------------------- MODULE ScheduleForm ----------------------------
(***************************************************************************)
(* The band scheduler: its page of the settings dialog, where each box that *)
(* changes sets and enables the ones behind it, and the clock of the main   *)
(* window, which sets the frequencies of the schedule in force.             *)
(*                                                                          *)
(* The boxes for the frequencies show the table of working frequencies that *)
(* is being edited on another page of the dialog; rows come and go under    *)
(* them.  Hours and minutes are numbered, 0 is the blank entry, and the     *)
(* minutes of the entries are the multiples of five; frequencies are        *)
(* numbered as they are sorted, 0 is no frequency.                          *)
(***************************************************************************)
EXTENDS Integers, FiniteSets, FiniteSetsExt, TLC
Seqs == INSTANCE SequencesExt

CONSTANTS
  Last,      \* rows of the schedule (5)
  Hours, Minutes,
  Freqs, JT65, Defaults,
  Schedules, \* bound: schedules in force at the start
  MaxEdits   \* bound: changes made in the dialog

FormAssumption ==
  /\ Last \in Nat \ {0} /\ 0 \in Hours /\ 0 \in Minutes /\ Hours \cup Minutes \subseteq Nat
  /\ Freqs \subseteq Nat \ {0} /\ JT65 \subseteq Freqs /\ Defaults \subseteq Freqs
  /\ Defaults # {} /\ MaxEdits \in Nat

VARIABLES
  saved,  \* hh, mm, band and mix of each row, use, and the frequencies: accepted, and in the file
  form,   \* the same, as the dialog shows it, and which boxes are enabled
  open,   \* the dialog is open
  lost,   \* history: a frequency of the schedule has been taken out of the table
  bare,   \* history: a box was used that only a start with a blank row leaves enabled
  clean,  \* history: nothing was changed since the dialog was opened
  edits
vars == <<saved, form, open, lost, bare, clean, edits>>

Rows == 1..Last
All(v) == [r \in Rows |-> v]

Blank == [hh |-> All(0), mm |-> All(0), band |-> All(0), mix |-> All(FALSE), use |-> FALSE,
          list |-> {}]

\* Every box is enabled until a handler disables it.
Fresh == Blank @@ [hhOn |-> All(TRUE), mmOn |-> All(TRUE), bandOn |-> All(TRUE),
                   mixOn |-> All(TRUE), useOn |-> TRUE]

----------------------------------------------------------------------------
\* The handlers.  An entry that is not in the list is not selected.

\* Each row passes its change on to the row behind it: "later" is what that row makes
\* of a form and of an hour to be shown in it.
Forms == [hh : [Rows -> Hours], mm : [Rows -> Minutes], band : [Rows -> Freqs \cup {0}],
          mix : [Rows -> BOOLEAN], use : BOOLEAN, list : SUBSET Freqs,
          hhOn : [Rows -> BOOLEAN], mmOn : [Rows -> BOOLEAN], bandOn : [Rows -> BOOLEAN],
          mixOn : [Rows -> BOOLEAN], useOn : BOOLEAN]

\* What a row with a frequency, or without one, makes of the boxes behind it.
Behind(F, r, b, later) ==
  LET next == IF r = Last THEN F
              ELSE later[[F EXCEPT !.hhOn[r + 1] = (b # 0)], IF b # 0 THEN saved.hh[r + 1] ELSE 0]
      first == IF r # 1 THEN next
               ELSE [next EXCEPT !.useOn = (b # 0), !.use = (b # 0 /\ saved.use)]
  IN [first EXCEPT !.mixOn[r] = (b \in JT65), !.mix[r] = (b \in JT65 /\ saved.mix[r])]

\* on_bandComboBox_currentIndexChanged: a frequency that vanishes from an enabled box is
\* replaced by the one in force, whose handler runs first.
BandTo(F, r, b, later) == Behind([F EXCEPT !.band[r] = b], r, b, later)
BandChanged(F, r, later) ==
  IF F.band[r] # 0 \/ ~F.bandOn[r] THEN Behind(F, r, F.band[r], later)
  ELSE Behind(IF saved.band[r] \in F.list THEN BandTo(F, r, saved.band[r], later) ELSE F,
              r, saved.band[r], later)
BandShown(F, r, b, later) ==
  IF b = F.band[r] THEN F ELSE BandChanged([F EXCEPT !.band[r] = b], r, later)

\* on_mmComboBox_currentIndexChanged
MinuteShown(F, r, m, later) ==
  IF m = F.mm[r] THEN F
  ELSE LET G == [F EXCEPT !.mm[r] = m, !.bandOn[r] = (m # 0)]
       IN IF m = 0 THEN BandShown(G, r, 0, later)
          ELSE IF saved.band[r] \in F.list THEN BandShown(G, r, saved.band[r], later) ELSE G

\* on_hhComboBox_currentIndexChanged
HourShown(F, r, h, later) ==
  IF h = F.hh[r] THEN F
  ELSE MinuteShown([F EXCEPT !.hh[r] = h, !.mmOn[r] = (h # 0)], r,
                   IF h # 0 THEN saved.mm[r] ELSE 0, later)

Later[r \in 1..(Last + 1)] ==
  [F \in Forms, h \in Hours |-> IF r > Last THEN F ELSE HourShown(F, r, h, Later[r + 1])]
SetHour(F, r, h) == HourShown(F, r, h, Later[r + 1])
SetMinute(F, r, m) == MinuteShown(F, r, m, Later[r + 1])
SetBand(F, r, b) == BandShown(F, r, b, Later[r + 1])
Renew(F, r) == BandChanged(F, r, Later[r + 1])

\* A handler for each row, one row after the other.
InTurn(Handle(_, _), F) == Seqs!FoldLeft(Handle, F, [r \in Rows |-> r])

----------------------------------------------------------------------------
\* The boxes follow the table of working frequencies.

Place(list, b) == Cardinality({f \in list : f <= b /\ b \in list})
At(list, n) == CHOOSE f \in list : Place(list, f) = n

\* A box whose entry has another place than before tells its handler so.
Noticed(F, before) ==
  InTurn(LAMBDA G, r : IF Place(G.list, G.band[r]) = before[r] THEN G ELSE Renew(G, r), F)

Places(F) == [r \in Rows |-> Place(F.list, F.band[r])]

\* The table is replaced: no box has an entry any more.
Replaced(F, list) == Noticed([F EXCEPT !.list = list, !.band = All(0)], Places(F))

Inserted(F, f) == Noticed([F EXCEPT !.list = @ \cup {f}], Places(F))

\* A row is deleted: a box that showed it shows the next one, or the last; not
\* if it was the first one of the table.
Removed(F, before) ==
  InTurn(LAMBDA G, r :
           IF G.band[r] = 0 /\ before[r] > 1
             THEN SetBand(G, r, At(G.list, Min({Cardinality(G.list), before[r]})))
           ELSE IF Place(G.list, G.band[r]) # before[r] THEN Renew(G, r) ELSE G, F)
Deleted(F, f) ==
  Removed([F EXCEPT !.list = @ \ {f}, !.band = [r \in Rows |-> IF @[r] = f THEN 0 ELSE @[r]]],
          Places(F))

----------------------------------------------------------------------------
\* initialize_models: the rows of the schedule one after the other, then the table.
Row(F, r) ==
  LET h == SetHour(F, r, saved.hh[r])
      m == SetMinute(h, r, saved.mm[r])
      b == IF saved.band[r] \in m.list THEN SetBand(m, r, saved.band[r]) ELSE m
  IN [b EXCEPT !.mix[r] = saved.mix[r]]
Initialized(F) == Replaced(InTurn(Row, [F EXCEPT !.use = saved.use]), saved.list)

Init ==
  /\ saved \in {s @@ [list |-> Freqs] : s \in Schedules}
  /\ form = Initialized(Fresh) /\ open = FALSE
  /\ lost = FALSE /\ bare = FALSE /\ clean = FALSE /\ edits = 0

Lost(F) == \E r \in Rows : saved.band[r] # 0 /\ saved.band[r] \notin F.list

\* exec
Open == /\ ~open /\ open' = TRUE /\ form' = Initialized(form) /\ clean' = TRUE
        /\ UNCHANGED <<saved, lost, bare, edits>>

Edit == /\ open /\ edits < MaxEdits /\ edits' = edits + 1 /\ clean' = FALSE
        /\ UNCHANGED <<saved, open>>
Shows(F) == form' = F /\ lost' = (lost \/ Lost(F))

Early(early) == bare' = (bare \/ early)
PickHour(r, h) ==
  Edit /\ form.hhOn[r] /\ Shows(SetHour(form, r, h)) /\ Early(r > 1 /\ form.band[r - 1] = 0)
PickMinute(r, m) ==
  Edit /\ form.mmOn[r] /\ Shows(SetMinute(form, r, m)) /\ Early(form.hh[r] = 0)
PickBand(r, b) ==
  /\ Edit /\ form.bandOn[r] /\ b \in form.list
  /\ Shows(SetBand(form, r, b)) /\ Early(form.mm[r] = 0)
TickMix(r) ==
  Edit /\ form.mixOn[r] /\ Shows([form EXCEPT !.mix[r] = ~@]) /\ Early(form.band[r] = 0)
TickUse == Edit /\ form.useOn /\ Shows([form EXCEPT !.use = ~@]) /\ Early(form.band[1] = 0)
delete_frequencies(f) ==
  Edit /\ f \in form.list /\ form.list # {f} /\ Shows(Deleted(form, f)) /\ UNCHANGED bare
insert_frequency(f) == Edit /\ f \notin form.list /\ Shows(Inserted(form, f)) /\ UNCHANGED bare
reset_frequencies == Edit /\ Shows(Replaced(form, Defaults)) /\ UNCHANGED bare

\* What of the form is kept.
Accepted(F) == [hh |-> F.hh, mm |-> F.mm, band |-> F.band, mix |-> F.mix, use |-> F.use,
                list |-> F.list]
accept == /\ open /\ open' = FALSE /\ saved' = Accepted(form)
          /\ UNCHANGED <<form, lost, bare, clean, edits>>
reject == /\ open /\ open' = FALSE /\ form' = Initialized(form)
          /\ UNCHANGED <<saved, lost, bare, clean, edits>>

\* The program ends and starts again.
Restart == /\ open' = FALSE /\ form' = Initialized(Fresh)
           /\ UNCHANGED <<saved, lost, bare, clean, edits>>

Change ==
  \/ \E r \in Rows : \/ (\E h \in Hours : PickHour(r, h)) \/ (\E m \in Minutes : PickMinute(r, m))
                     \/ (\E b \in Freqs : PickBand(r, b)) \/ TickMix(r)
  \/ TickUse \/ reset_frequencies
  \/ \E f \in Freqs : delete_frequencies(f) \/ insert_frequency(f)
Next == Open \/ Change \/ accept \/ reject \/ Restart
Spec == Init /\ [][Next]_vars

----------------------------------------------------------------------------
\* guiUpdate, at the first second of a minute: the row that is acted on, if any.
\* Enable Tx (auto) puts the schedule off, and minute 0 is one that is no multiple
\* of five.  The last row is compared with the time of the row before it.
TimeOf(r) == IF r = Last THEN r - 1 ELSE r
Reached(r) == \A q \in 2..r : saved.band[q] # 0
Due(h, m) == {r \in Rows : Reached(r) /\ saved.hh[TimeOf(r)] = h /\ saved.mm[TimeOf(r)] = m}
Acting(m, auto) == saved.use /\ m # 0 /\ ~auto
Set(h, m, auto) == IF Acting(m, auto) /\ Due(h, m) # {} THEN Min(Due(h, m)) ELSE 0

Clock == (Hours \ {0}) \X Minutes \X BOOLEAN

----------------------------------------------------------------------------
TypeOK ==
  /\ saved.list \subseteq Freqs /\ form.list \subseteq Freqs
  /\ \A s \in {saved, form} :
       /\ s.hh \in [Rows -> Hours] /\ s.mm \in [Rows -> Minutes]
       /\ s.band \in [Rows -> Freqs \cup {0}] /\ s.mix \in [Rows -> BOOLEAN] /\ s.use \in BOOLEAN
  /\ \A r \in Rows : form.band[r] = 0 \/ form.band[r] \in form.list
  /\ {open, lost, bare, clean} \subseteq BOOLEAN /\ edits \in 0..MaxEdits

\* When it is opened the dialog shows the schedule in force, as far as its rows
\* are complete and their frequencies in the table, whatever was edited and
\* cancelled before.
Complete(s, r) == s.hh[r] # 0 /\ s.mm[r] # 0 /\ s.band[r] \in s.list
Shown(r) == /\ form.hh[r] = saved.hh[r] /\ form.mm[r] = saved.mm[r]
            /\ form.band[r] = saved.band[r] /\ form.mix[r] = saved.mix[r]
            /\ r = 1 => form.use = saved.use
ShownAtOpen ==
  open /\ clean => \A r \in Rows : (\A q \in 1..r : Complete(saved, q)) => Shown(r)

\* The boxes leave no gap in a schedule: a row but the last that has a time and a
\* frequency is acted on when its time comes with Enable Tx off, unless an earlier
\* row has the same time, and what is acted on has a frequency.  Nothing is said of
\* three schedules whose rows the code may pass over: the last row, which never
\* comes up (its test is for the time of the row before it, whose own test comes
\* first); one of whose frequencies one was taken out of the table; and one made
\* with boxes that a start with a blank row leaves enabled.
Given(r) == saved.hh[r] # 0 /\ saved.mm[r] # 0 /\ saved.band[r] # 0
RowsHeld ==
  saved.use /\ ~lost /\ ~bare =>
    /\ \A t \in Clock : LET r == Set(t[1], t[2], t[3]) IN
         r # 0 => /\ r # Last /\ Given(r) /\ saved.hh[r] = t[1] /\ saved.mm[r] = t[2]
                  /\ (saved.mix[r] => saved.band[r] \in JT65)
    /\ \A r \in Rows \ {Last} : Given(r) => Set(saved.hh[r], saved.mm[r], FALSE) \in 1..r
=============================================================================
