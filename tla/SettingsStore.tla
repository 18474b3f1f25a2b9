--------------------------- MODULE SettingsStore ----------------------------
(***************************************************************************)
(* The settings that stand for themselves, a hundred and fifty of them, and *)
(* the list of messages that the dialog and the main window share: in force, *)
(* in the dialog, in the settings file, and as the UDP client knows them.   *)
(*                                                                          *)
(* The list of frequencies and that of antennas are edited in a copy as the *)
(* messages are (module ScheduleForm has the frequencies).                  *)
(***************************************************************************)
EXTENDS Integers, Sequences, SequencesExt

CONSTANTS
  Fields, Values, Default, Announced,  \* fields that are announced to the UDP client
  Macros, MaxMacros,
  MaxEdits

Unset == 0
StoreAssumption ==
  /\ Values \subseteq Nat /\ Default \in Values /\ Unset \notin Values /\ Announced \subseteq Fields
  /\ MaxMacros \in Nat /\ MaxEdits \in Nat

VARIABLES
  force, form, file,      \* settings in force, in the dialog, in the file
  told,                   \* the address the UDP client uses
  macros, next_macros, fileMacros,
  list, shared,           \* the list the main window shows: that of macros, or a copy
  open, edits,
  touched, entered        \* history: fields changed in this dialog; messages not yet written
vars == <<force, form, file, told, macros, next_macros, fileMacros, list, shared, open, edits,
          touched, entered>>

\* read_settings and the constructor of MainWindow.
read_settings(f, m) ==
  /\ force' = [x \in Fields |-> IF f[x] = Unset THEN Default ELSE f[x]]
  /\ form' = force' /\ told' = [x \in Announced |-> force'[x]]
  /\ macros' = m /\ next_macros' = m /\ list' = m /\ shared' = TRUE
  /\ open' = FALSE /\ touched' = {} /\ entered' = FALSE

\* write_settings
write_settings(f, m) == file' = f /\ fileMacros' = m

Init ==
  /\ file = [x \in Fields |-> Unset] /\ force = [x \in Fields |-> Default] /\ form = force
  /\ told = [x \in Announced |-> Default]
  /\ macros \in SeqOf(Macros, 1) /\ next_macros = macros /\ fileMacros = macros
  /\ list = macros /\ shared = TRUE /\ open = FALSE /\ edits = 0 /\ touched = {} /\ entered = FALSE

----------------------------------------------------------------------------
initialize_models == form' = force /\ next_macros' = macros

exec ==
  /\ ~open /\ open' = TRUE /\ initialize_models /\ touched' = {}
  /\ UNCHANGED <<force, file, told, macros, fileMacros, list, shared, edits, entered>>

Count == edits < MaxEdits /\ edits' = edits + 1
edited(f, v) ==
  /\ open /\ Count /\ v # form[f] /\ form' = [form EXCEPT ![f] = v]
  /\ touched' = touched \cup {f}
  /\ UNCHANGED <<force, file, told, macros, next_macros, fileMacros, list, shared, open, entered>>

on_add_macro(m) == Len(next_macros) < MaxMacros /\ next_macros' = Append(next_macros, m)
\* delete_selected_macros: from the last row to the first, so that none moves.
delete_selected_macros(rows) == 
  next_macros' = FoldLeft(RemoveAt, next_macros, SetToSortSeq(rows, >))
macros_edited ==
  /\ open /\ Count
  /\ \/ \E m \in Macros : on_add_macro(m)
     \/ \E rows \in SUBSET DOMAIN next_macros : rows # {} /\ delete_selected_macros(rows)
  /\ UNCHANGED <<force, form, file, told, macros, fileMacros, list, shared, open, touched, entered>>

\* OK.  The main window shows the new list only if it does not show a copy.
accept ==
  /\ open /\ open' = FALSE /\ force' = form
  /\ told' = [x \in Announced |-> IF form[x] # force[x] THEN form[x] ELSE told[x]]
  /\ macros' = next_macros /\ list' = IF shared THEN macros' ELSE list
  /\ write_settings(force', macros') /\ entered' = FALSE
  /\ UNCHANGED <<form, next_macros, shared, edits, touched>>

reject ==
  /\ open /\ open' = FALSE /\ initialize_models
  /\ UNCHANGED <<force, file, told, macros, fileMacros, list, shared, edits, touched, entered>>

\* A message is typed in the main window, and enters the list it shows.
message_entered(m) ==
  /\ ~open /\ Count /\ Len(list) < MaxMacros /\ ~Contains(list, m) /\ list' = Append(list, m)
  /\ IF shared THEN macros' = list' /\ entered' = TRUE ELSE UNCHANGED <<macros, entered>>
  /\ UNCHANGED <<force, form, file, told, next_macros, fileMacros, shared, open, touched>>

\* on_dxCallEntry_textChanged: from the first call on the main window shows a copy,
\* in which the call stands for every @.
dxCallEntry_changed ==
  /\ ~open /\ (shared \/ list # macros) /\ shared' = FALSE /\ list' = macros
  /\ UNCHANGED <<force, form, file, told, macros, next_macros, fileMacros, open, edits, touched,
                 entered>>

\* The program ends, or crashes, and starts.
exits ==
  /\ ~open /\ write_settings(force, macros) /\ read_settings(force, macros) /\ UNCHANGED edits
crashes == read_settings(file, fileMacros) /\ UNCHANGED <<file, fileMacros, edits>>

Next ==
  \/ exec \/ macros_edited \/ accept \/ reject \/ dxCallEntry_changed \/ exits \/ crashes
  \/ \E f \in Fields, v \in Values : edited(f, v)
  \/ \E m \in Macros : message_entered(m)
Spec == Init /\ [][Next]_vars

----------------------------------------------------------------------------
TypeOK ==
  /\ {force, form} \subseteq [Fields -> Values] /\ file \in [Fields -> Values \cup {Unset}]
  /\ told \in [Announced -> Values] /\ {macros, next_macros, fileMacros, list} \subseteq Seq(Macros)
  /\ {shared, open, entered} \subseteq BOOLEAN /\ touched \subseteq Fields /\ edits \in 0..MaxEdits

\* The dialog shows what is in force wherever it was not changed since it was opened,
\* and the UDP client sends to the address in force.
DialogTrue ==
  /\ open => \A f \in Fields \ touched : form[f] = force[f]
  /\ \A f \in Announced : told[f] = force[f]

\* What OK brought into force survives the end of the program and a crash at any time;
\* a crash loses the messages entered in the main window since.
KeptAtStart ==
  (exits \/ crashes) => force' = force /\ (macros' # macros => crashes /\ entered)
AcceptedKept == [][KeptAtStart]_vars

----------------------------------------------------------------------------
\* Why (proved in StationProofs): the file holds what is in force, and the messages but
\* for those entered since it was written.
StoreInv ==
  /\ {force, form} \subseteq [Fields -> Values] /\ file \in [Fields -> Values \cup {Unset}]
  /\ told \in [Announced -> Values] /\ touched \subseteq Fields
  /\ DialogTrue
  /\ \A x \in Fields : force[x] = IF file[x] = Unset THEN Default ELSE file[x]
  /\ macros # fileMacros => entered
=============================================================================
