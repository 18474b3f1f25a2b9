------------------------------- MODULE QsoLog -------------------------------
(***************************************************************************)
(* A contact goes into the log: the window that asks, or the automatic log,  *)
(* the ADIF file, the text file, the memory of stations worked, the UDP      *)
(* clients, the TCP server and eQSL.  A message box and the wait for eQSL    *)
(* run event loops of their own, in which the next contact may end.          *)
(***************************************************************************)
EXTENDS Integers, Sequences, FiniteSets

CONSTANTS MaxContacts, MaxOps, MaxFaults
LogAssumption == MaxContacts \in Nat /\ MaxOps \in Nat /\ MaxFaults \in Nat

VARIABLES
  opt,              \* the options [auto, tcp, eqsl] and the button AutoSeq [seq]
  dx, old, contacts,    \* the contact that DX Call names (0: none), m_hisCallOld; contacts so far
  marked, timer,    \* m_logqso73, logQSOTimer
  dlg,              \* the window: shown, the call in its fields, the contact of the band shown
                    \*   there (0: edited), and that of the times and m_dialFreq
  on,               \* m_dateTimeOn, m_dateTimeOff: the contact they are of
  frames,           \* the calls of accept() under way, the innermost last: [pc, call, band, dial]
  adif, text,       \* wsjtx_log.adi: [call, band, time, torn]; wsjtx.log: [call, time, dial]
  mem, told, sent,  \* ADIF::_data in memory, qso_logged, the TCP server and eQSL
  ops,
  failed,           \* history: the logs that failed, each with the call
  over              \* history: sets of calls and a flag, see the properties
vars == <<opt, dx, old, contacts, marked, timer, dlg, on, frames, adif, text, mem, told, sent, ops,
          failed, over>>
logs == <<adif, text, mem, told, sent>>

Blocking == {"adifBox", "textBox", "tcpBox", "eqslWait", "eqslBox"}
Top == frames[Len(frames)]
Free == frames = <<>>                      \* the operator can act
Turns == \A i \in 1..Len(frames) : frames[i].pc \in Blocking    \* timers fire
To(pc) == frames' = [frames EXCEPT ![Len(frames)].pc = pc]
Fault(log, call, ok) ==
  /\ failed' = IF ok THEN failed ELSE Append(failed, [log |-> log, call |-> call])
  /\ Len(failed') <= MaxFaults
Op == ops < MaxOps /\ ops' = ops + 1

\* What load() makes of the file: a record that was cut short (before its band) runs on into
\* the next one, of which only the fields that it lacks are found.
BandRead(file, i) ==
  LET ends == {j \in i..Len(file) : ~file[j].torn /\ \A k \in i..(j - 1) : file[k].torn}
  IN IF ends = {} THEN 0 ELSE file[CHOOSE j \in ends : TRUE].band
Swallowed(file, i) == i > 1 /\ file[i - 1].torn
Worked(file) == {[call |-> file[i].call, band |-> BandRead(file, i)] :
                   i \in {j \in 1..Len(file) : ~Swallowed(file, j)}}

Init ==
  /\ opt \in [auto : BOOLEAN, tcp : BOOLEAN, eqsl : BOOLEAN, seq : BOOLEAN]
  /\ dx = 0 /\ old = 0 /\ contacts = 0 /\ marked = FALSE /\ timer = FALSE
  /\ dlg = [shown |-> FALSE, call |-> 0, band |-> 0, dial |-> 0] /\ on = 0 /\ frames = <<>>
  /\ adif = <<>> /\ text = <<>> /\ mem = {} /\ told = <<>> /\ sent = <<>>
  /\ ops = 0 /\ failed = <<>>
  /\ over = [stale |-> {}, clash |-> {}, lost |-> {}, edited |-> {}, unnamed |-> FALSE]

----------------------------------------------------------------------------
\* accept(), as far as the first file: the fields are read, then the record is appended;
\* nothing checks that it was written as a whole.
Accepted(fields, how) ==
  /\ on' = fields.dial /\ Fault("adif-" \o how, fields.call, how = "ok")
  /\ frames' = Append(frames, [pc |-> IF how = "cannot" THEN "adifBox" ELSE "text",
                               call |-> fields.call, band |-> fields.band, dial |-> fields.dial])
  /\ adif' = IF how = "cannot" THEN adif
             ELSE Append(adif, [call |-> fields.call, band |-> fields.band, time |-> fields.dial,
                                torn |-> how = "torn"])

\* initLogQSO: the fields of the window are replaced, shown or not, by the call and by the
\* frequency and the times at hand, which are those of the latest contact; then it is shown,
\* or accepted at once.
Half == {"adifBox", "textBox", "tcpBox"}
Offered(call, auto, how) ==
  LET fields == [dlg EXCEPT !.call = call, !.band = contacts, !.dial = contacts]
      open == {frames[i].call : i \in {j \in 1..Len(frames) : frames[j].pc \in Half}}
  IN /\ over' = [over EXCEPT
                  !.stale = IF call # contacts THEN @ \cup {call} ELSE @,
                  !.clash = @ \cup open,
                  !.lost = @ \cup (IF dlg.shown /\ dlg.call # call THEN {dlg.call} ELSE {})
                             \cup (IF ~auto /\ ~Free THEN {call} ELSE {})]
     /\ IF auto THEN dlg' = fields /\ Accepted(fields, how)
        ELSE dlg' = [fields EXCEPT !.shown = TRUE] /\ UNCHANGED <<on, frames, adif, failed>>

\* on_logQSOButton_clicked, by the timer after the first 73 or by the operator: with AutoSeq
\* and an empty DX Call it is the station that clearDX put by.
Named == IF dx # 0 THEN dx ELSE IF opt.seq THEN old ELSE 0
LogButton(how) ==
  \/ /\ Named = 0 /\ over' = [over EXCEPT !.unnamed = @ \/ marked]
     /\ UNCHANGED <<marked, dlg, on, frames, adif, failed>>
  \/ /\ Named # 0 /\ marked' = FALSE /\ Offered(Named, marked /\ opt.auto, how)

\* A station is called; the sequencer goes on in the loops of the boxes.
EnterCall ==
  /\ Turns /\ contacts < MaxContacts /\ contacts' = contacts + 1 /\ dx' = contacts'
  /\ UNCHANGED <<opt, old, marked, timer, dlg, on, frames, logs, ops, failed, over>>
ClearDX ==
  /\ Turns /\ dx' = 0 /\ old' = IF opt.seq THEN dx ELSE old
  /\ UNCHANGED <<opt, contacts, marked, timer, dlg, on, frames, logs, ops, failed, over>>
EmptyDX ==                                 \* by hand
  /\ Free /\ dx # 0 /\ dx' = 0
  /\ UNCHANGED <<opt, old, contacts, marked, timer, dlg, on, frames, logs, ops, failed, over>>
PressAutoSeq ==
  /\ Free /\ Op /\ opt' = [opt EXCEPT !.seq = ~@]
  /\ UNCHANGED <<dx, old, contacts, marked, timer, dlg, on, frames, logs, failed, over>>

\* guiUpdate: the first 73 to a station, or a free text with 73 to none
First73 ==
  /\ Turns /\ Op /\ marked' = TRUE /\ timer' = TRUE
  /\ UNCHANGED <<opt, dx, old, contacts, dlg, on, frames, logs, failed, over>>
TimerFires(how) ==
  /\ Turns /\ timer /\ timer' = FALSE /\ LogButton(how)
  /\ UNCHANGED <<opt, dx, old, contacts, text, mem, told, sent, ops>>
ClickLog(how) ==
  /\ Free /\ Op /\ ~timer /\ LogButton(how)
  /\ UNCHANGED <<opt, dx, old, contacts, timer, text, mem, told, sent>>

\* The window: a field is corrected, OK, Cancel
EditBand ==
  /\ Free /\ Op /\ dlg.shown /\ dlg' = [dlg EXCEPT !.band = 0]
  /\ over' = [over EXCEPT !.edited = @ \cup {dlg.call}]
  /\ UNCHANGED <<opt, dx, old, contacts, marked, timer, on, frames, logs, failed>>
ClickOK(how) ==
  /\ Free /\ Op /\ dlg.shown /\ Accepted(dlg, how)
  /\ UNCHANGED <<opt, dx, old, contacts, marked, timer, dlg, text, mem, told, sent, over>>
ClickCancel ==
  /\ Free /\ dlg.shown /\ dlg' = [dlg EXCEPT !.shown = FALSE]
  /\ UNCHANGED <<opt, dx, old, contacts, marked, timer, on, frames, logs, ops, failed, over>>

----------------------------------------------------------------------------
(* The rest of accept(), in the innermost call.                             *)
Others == UNCHANGED <<opt, dx, old, contacts, marked, timer, ops, over>>

\* wsjtx.log: the call of the fields read above, the times of the members
WriteText(ok) ==
  /\ ~Free /\ Top.pc = "text" /\ Fault("text", Top.call, ok) /\ To(IF ok THEN "emit" ELSE "textBox")
  /\ text' = IF ok THEN Append(text, [call |-> Top.call, time |-> on, dial |-> Top.dial]) ELSE text
  /\ Others /\ UNCHANGED <<dlg, on, adif, mem, told, sent>>

\* acceptQSO: the memory and the UDP clients, with m_dialFreq
Announce ==
  /\ ~Free /\ Top.pc = "emit" /\ To("tcp")
  /\ mem' = mem \cup {[call |-> Top.call, band |-> dlg.dial]}
  /\ told' = Append(told, [call |-> Top.call, time |-> on, dial |-> dlg.dial])
  /\ Others /\ UNCHANGED <<dlg, on, adif, text, sent, failed>>

Upload(to) == [call |-> Top.call, to |-> to, time |-> on]
Tcp(ok) ==
  /\ ~Free /\ Top.pc = "tcp" /\ Fault("tcp", Top.call, ~opt.tcp \/ ok)
  /\ To(IF opt.tcp /\ ~ok THEN "tcpBox" ELSE "eqsl")
  /\ sent' = IF opt.tcp /\ ok THEN Append(sent, Upload("tcp")) ELSE sent
  /\ Others /\ UNCHANGED <<dlg, on, adif, text, mem, told>>
Eqsl ==
  /\ ~Free /\ Top.pc = "eqsl" /\ To(IF opt.eqsl THEN "eqslWait" ELSE "close")
  /\ sent' = IF opt.eqsl THEN Append(sent, Upload("eqsl")) ELSE sent
  /\ Others /\ UNCHANGED <<dlg, on, adif, text, mem, told, failed>>
EqslAnswer(ok) ==
  /\ ~Free /\ Top.pc = "eqslWait" /\ Fault("eqsl", Top.call, ok)
  /\ To(IF ok THEN "close" ELSE "eqslBox")
  /\ Others /\ UNCHANGED <<dlg, on, logs>>

\* A message box is dismissed.
After == [adifBox |-> "text", textBox |-> "emit", tcpBox |-> "eqsl", eqslBox |-> "close"]
Dismiss ==
  /\ ~Free /\ Top.pc \in DOMAIN After /\ To(After[Top.pc])
  /\ Others /\ UNCHANGED <<dlg, on, logs, failed>>

\* QDialog::accept hides the window, whatever it shows by now.
Close ==
  /\ ~Free /\ Top.pc = "close" /\ frames' = SubSeq(frames, 1, Len(frames) - 1)
  /\ dlg' = [dlg EXCEPT !.shown = FALSE] /\ Others /\ UNCHANGED <<on, logs, failed>>

\* enable_DXCC_entity: settings or a mode, or a new start of the program
Reload ==
  /\ Free /\ Op /\ mem' = Worked(adif)
  /\ UNCHANGED <<opt, dx, old, contacts, marked, timer, dlg, on, frames, adif, text, told, sent,
                 failed, over>>

Next ==
  \/ EnterCall \/ ClearDX \/ EmptyDX \/ PressAutoSeq \/ First73 \/ EditBand \/ ClickCancel
  \/ \E how \in {"ok", "cannot", "torn"} : TimerFires(how) \/ ClickLog(how) \/ ClickOK(how)
  \/ \E ok \in BOOLEAN : WriteText(ok) \/ Tcp(ok) \/ EqslAnswer(ok)
  \/ Announce \/ Eqsl \/ Dismiss \/ Close \/ Reload
Spec == Init /\ [][Next]_vars

----------------------------------------------------------------------------
\* A record is of one contact: call, times and frequency.  The ADIF file's is, but for a
\* station logged from m_hisCallOld when a later contact has left its times and frequency
\* (over.stale); the text file's and those of the UDP clients, the TCP server and eQSL are,
\* but for that and for a contact in whose boxes another was offered: the rest of its accept()
\* uses members that the other has replaced (over.clash).
RecordsWhole ==
  /\ \A i \in 1..Len(adif) : adif[i].call \in over.stale \/ adif[i].time = adif[i].call
  /\ \A log \in {text, told, sent} : \A i \in 1..Len(log) :
       log[i].call \in over.stale \cup over.clash \/ log[i].time = log[i].call
  /\ \A log \in {text, told} : \A i \in 1..Len(log) :
       log[i].call \in over.stale \cup over.clash \/ log[i].dial = log[i].call

\* A log that fails takes no other with it: when nothing is under way, every contact is as
\* often in each log that is written as it was announced to the UDP clients, less the times
\* that this very log could not be opened or its server not be reached.
Times(log, c) == {i \in 1..Len(log) : log[i].call = c}
Number(log, c) == Cardinality(Times(log, c))
Sent(to) == SelectSeq(sent, LAMBDA r : r.to = to)
Failed(log, c) == Cardinality({i \in 1..Len(failed) : failed[i] = [log |-> log, call |-> c]})
LogsAgree ==
  Free => \A c \in 1..contacts :
    /\ Number(adif, c) + Failed("adif-cannot", c) = Number(told, c)
    /\ Number(text, c) + Failed("text", c) = Number(told, c)
    /\ opt.tcp => Number(Sent("tcp"), c) + Failed("tcp", c) = Number(told, c)
    /\ opt.eqsl => Number(Sent("eqsl"), c) = Number(told, c)

\* Reading the log again brings no station that was not known, and forgets only one whose
\* record could not be written or stands behind one cut short; the band known is that of the
\* file, unless the record was cut short, the operator corrected it in the window (that
\* reaches the file alone) or another contact was offered meanwhile.
MemoryIsFile ==
  Free =>
    /\ \A w \in Worked(adif) : \E v \in mem : v.call = w.call
    /\ \A w \in mem :
         \/ Failed("adif-cannot", w.call) > 0
         \/ \E i \in Times(adif, w.call) : Swallowed(adif, i)
         \/ \E v \in Worked(adif) :
              /\ v.call = w.call
              /\ \/ v.band = w.band \/ w.call \in over.edited \cup over.clash
                 \/ \E i \in Times(adif, w.call) : adif[i].torn

\* A contact that the window was opened for is in a log (or, when no file can be opened,
\* in the memory until the log is read again) or waits in the window, until the operator
\* cancels it; unless the window was taken from it by another contact, or opened for it while
\* a call of accept() was under way, which closes it (over.lost).
Held(c) == \/ Times(adif, c) # {} \/ Times(text, c) # {}
           \/ \E w \in mem : w.call = c
           \/ dlg.shown /\ dlg.call = c
           \/ \E i \in 1..Len(frames) : frames[i].call = c
DropStep == \A c \in (1..contacts) \ over'.lost :
              Held(c) /\ ~Held(c)' => (ClickCancel /\ dlg.call = c) \/ Reload
NotDropped == [][DropStep]_vars

\* The log is written without asking only on behalf of a first 73: not when the operator
\* pressed the button, unless a 73 had found nobody to log.
ClickStep ==
  (\E how \in {"ok", "cannot", "torn"} : ClickLog(how)) /\ ~over.unnamed => frames' = frames
Asked == [][ClickStep]_vars
=============================================================================
