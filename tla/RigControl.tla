----------------------------- MODULE RigControl -----------------------------
(***************************************************************************)
(* The management of rig connections by Configuration, with MainWindow as   *)
(* its client.  Configuration lives in the GUI thread; the Transceiver      *)
(* instances it opens, one after another, live in a thread of their own.    *)
(* Both threads talk through event queues: commands are numbered, and an    *)
(* update carries the number of the last command its instance has served.  *)
(* What was posted is delivered, even after a disconnect.                   *)
(*                                                                          *)
(* An instance serves each call to its end (module PollingTransceiver looks *)
(* inside); between the signals that a failing one emits the GUI may run.   *)
(***************************************************************************)
EXTENDS Integers, Sequences

CONSTANTS
  Freqs,         \* dial frequencies
  MaxOpens,      \* bound: instances opened
  MaxCommands,   \* bound: frequency and PTT commands of the client
  MaxReports,    \* bound: updates emitted by polls though nothing changed
  MaxTurns,      \* bound: turns of the rig's own dial
  MaxFaults,     \* bound: failures of the link to the rig
  Reconfigures,  \* the operator changes the rig's settings or tests them
  Closes         \* the operator closes the program

NoFreq == 0
Instances == 1..MaxOpens
States == [online : BOOLEAN, freq : Freqs \cup {NoFreq}, ptt : BOOLEAN]

ASSUME ControlAssumption ==
  /\ Freqs \subseteq Nat \ {0} /\ Freqs # {}
  /\ MaxOpens \in Nat /\ MaxCommands \in Nat /\ MaxReports \in Nat /\ MaxTurns \in Nat
  /\ MaxFaults \in Nat /\ Reconfigures \in BOOLEAN /\ Closes \in BOOLEAN

VARIABLES
  \* Configuration
  rig_active,
  current,          \* the last instance opened
  cached,           \* cached_rig_state_
  transceiver_command_number,
  \* MainWindow
  m_freqNominal,    \* the frequency it wants, logs and spots
  m_rigState,       \* the state it was last told of
  first_error,      \* the next failure is retried without asking
  box,              \* the rig error message box is open
  closing,          \* no, closed (the window) or quit (the rig thread, told so)
  \* the event queues of the two threads
  guiQ, thrQ,
  \* the rig thread
  pc,               \* what it is doing, for which instance, in its timer's slot?
  inst,             \* the instances
  \* the rig
  rig, unkeyFailed,
  \* counters of the bounds
  commands, reports, turns, faults

confVars == <<rig_active, current, cached, transceiver_command_number>>
mainVars == <<m_freqNominal, m_rigState, first_error, box, closing>>
threadVars == <<pc, inst>>
rigVars == <<rig, unkeyFailed>>
counts == <<commands, reports, turns, faults>>
vars == <<confVars, mainVars, guiQ, thrQ, threadVars, rigVars, counts>>

Blank == [online |-> FALSE, freq |-> NoFreq, ptt |-> FALSE]

\* An instance: its actual_ state, requested_.ptt (the other requested_ members
\* follow actual_), last_sequence_number_, the last state signalled.
New == [actual |-> Blank, ptt |-> FALSE, n |-> 0, said |-> Blank, finished |-> FALSE]

Rest == [at |-> "idle", i |-> 0, timer |-> FALSE]

Init ==
  /\ rig_active = FALSE /\ current = 0 /\ cached = Blank /\ transceiver_command_number = 0
  /\ m_freqNominal \in Freqs /\ m_rigState = Blank /\ first_error = TRUE /\ box = FALSE
  /\ closing = "no"
  /\ guiQ = <<>> /\ thrQ = <<>>
  /\ pc = Rest /\ inst = [i \in Instances |-> New]
  /\ rig \in [freq : Freqs, ptt : {FALSE}] /\ unkeyFailed = FALSE
  /\ commands = 0 /\ reports = 0 /\ turns = 0 /\ faults = 0

-----------------------------------------------------------------------------
\* Configuration: opening and closing.  Each returns the calls it posts.

Call(i, call, s, n) == [to |-> i, call |-> call, s |-> s, n |-> n]

\* close_rig emits stop before it disconnects the instance.
Closing_swapped == <<>>
Closing == IF rig_active THEN <<Call(current, "stop", Blank, 0)>> ELSE <<>>

NextNumber_reused == transceiver_command_number
NextNumber == transceiver_command_number + 1

\* The number goes out as incremented.
SentNumber_before == transceiver_command_number
SentNumber == NextNumber

\* open_rig: close the connection there is, if any, and start a new instance.
Opening ==
  /\ current < MaxOpens /\ current' = current + 1
  /\ cached' = Blank /\ rig_active' = TRUE /\ transceiver_command_number' = NextNumber
  /\ thrQ' = thrQ \o Closing \o <<Call(current', "start", Blank, SentNumber)>>

close_rig == rig_active' = FALSE /\ thrQ' = thrQ \o Closing

\* The command of a client goes out with everything else that is cached, if there
\* is a connection to take it.
Command(s) ==
  /\ cached' = [s EXCEPT !.online = TRUE]
  /\ transceiver_command_number' = NextNumber
  /\ thrQ' = IF rig_active THEN Append(thrQ, Call(current, "set", cached', SentNumber))
             ELSE thrQ
  /\ UNCHANGED <<rig_active, current>>

-----------------------------------------------------------------------------
\* MainWindow

Running == closing = "no"

\* transceiver_online: at start-up, and from the Read button and changes of band
\* when there is no connection.
GoOnline ==
  /\ Running /\ ~rig_active /\ Opening
  /\ UNCHANGED <<mainVars, guiQ, threadVars, rigVars, counts>>

\* The settings dialog: Test CAT, or OK with other rig parameters.
Reconfigure ==
  /\ Reconfigures /\ Running /\ Opening
  /\ UNCHANGED <<mainVars, guiQ, threadVars, rigVars, counts>>

\* A change of band: m_freqNominal first, then setRig, which needs a connection.
SetFrequency ==
  /\ Running /\ rig_active /\ commands < MaxCommands /\ commands' = commands + 1
  /\ \E f \in Freqs : m_freqNominal' = f /\ Command([cached EXCEPT !.freq = f])
  /\ UNCHANGED <<m_rigState, first_error, box, closing, guiQ, threadVars, rigVars, reports,
                 turns, faults>>

SetPtt ==
  /\ Running /\ commands < MaxCommands /\ commands' = commands + 1
  /\ \E on \in BOOLEAN : Command([cached EXCEPT !.ptt = on])
  /\ UNCHANGED <<mainVars, guiQ, threadVars, rigVars, reports, turns, faults>>

CloseWindow ==
  /\ Closes /\ Running /\ closing' = "closed" /\ close_rig
  /\ UNCHANGED <<current, cached, transceiver_command_number, m_freqNominal, m_rigState,
                 first_error, box, guiQ, threadVars, rigVars, counts>>

\* The destructor of Configuration tells the rig thread to quit and waits for it.
Quit ==
  /\ closing = "closed" /\ closing' = "quit"
  /\ UNCHANGED <<confVars, m_freqNominal, m_rigState, first_error, box, guiQ, thrQ,
                 threadVars, rigVars, counts>>

-----------------------------------------------------------------------------
\* The events of the GUI thread

Event(kind) == Running /\ guiQ # <<>> /\ Head(guiQ).kind = kind

\* from, the instance that emitted it, is nothing the code could see.
Report(kind, i, s, n) == [kind |-> kind, from |-> i, s |-> s, n |-> n]
Retry == Report("retry", 0, Blank, 0)

\* Only the number tells an update of the last command from older ones.
Forwarded(m) == m.n = transceiver_command_number

\* The cache follows every update; MainWindow is told of those that are up to
\* date, and follows a new frequency when not transmitting.
HandleUpdate ==
  /\ Event("update") /\ guiQ' = Tail(guiQ)
  /\ LET m == Head(guiQ)
     IN  /\ cached' = [cached EXCEPT !.online = m.s.online, !.freq = m.s.freq]
         /\ IF m.s.online THEN UNCHANGED <<rig_active, thrQ>> ELSE close_rig
         /\ m_rigState' = IF Forwarded(m) THEN m.s ELSE m_rigState
         /\ m_freqNominal' = IF m_rigState'.freq # m_rigState.freq /\ ~m_rigState'.ptt
                             THEN m_rigState'.freq ELSE m_freqNominal
  /\ UNCHANGED <<current, transceiver_command_number, first_error, box, closing, threadVars,
                 rigVars, counts>>

\* A failure closes the connection; the first is retried without asking the
\* operator, by an event of its own.
HandleFailure ==
  /\ Event("failure") /\ close_rig
  /\ first_error' = FALSE
  /\ IF first_error THEN guiQ' = Append(Tail(guiQ), Retry) /\ UNCHANGED box
     ELSE guiQ' = Tail(guiQ) /\ box' = TRUE
  /\ UNCHANGED <<current, cached, transceiver_command_number, m_freqNominal, m_rigState,
                 closing, threadVars, rigVars, counts>>

\* The operator answers the message box: Retry, or anything else.
AnswerBox ==
  /\ Running /\ box /\ box' = FALSE /\ first_error' = TRUE
  /\ guiQ' \in {guiQ, Append(guiQ, Retry)}
  /\ UNCHANGED <<confVars, m_freqNominal, m_rigState, closing, thrQ, threadVars, rigVars,
                 counts>>

\* rigOpen: nothing to do if the rig was opened meanwhile.
rigOpen ==
  /\ Event("retry") /\ guiQ' = Tail(guiQ)
  /\ IF rig_active THEN UNCHANGED <<confVars, thrQ>> ELSE Opening
  /\ UNCHANGED <<mainVars, threadVars, rigVars, counts>>

-----------------------------------------------------------------------------
\* The rig thread

Fault == faults < MaxFaults /\ faults' = faults + 1

\* What an instance emits is posted if it is still connected.
Emitted(i, reports_) ==
  IF rig_active /\ i = current THEN guiQ \o reports_ ELSE guiQ

Updates(i, s, n) == Emitted(i, <<Report("update", i, s, n)>>)

\* At the end of a slot of its timer the thread quits if told so, at the end of
\* a call only when no more are posted.
AfterSlot(timer) ==
  IF timer /\ closing = "quit" THEN [Rest EXCEPT !.at = "ended"] ELSE Rest

Serving(call) ==
  /\ pc.at = "idle" /\ thrQ # <<>> /\ Head(thrQ).call = call /\ thrQ' = Tail(thrQ)
  /\ ~inst[Head(thrQ).to].finished

\* After startup the state is what the rig says.
Started(r) ==
  [r EXCEPT !.actual = [online |-> TRUE, freq |-> rig.freq, ptt |-> rig.ptt]]

\* The commands of a set: PTT off, frequency, PTT on; the first k have been
\* obeyed.
Unkeys_qsy(r, s) == r.ptt /\ ~s.ptt /\ s.freq # r.actual.freq
Unkeys(r, s) == r.ptt /\ ~s.ptt

Needed(r, s, k) ==
  CASE k = 1 -> Unkeys(r, s)
    [] k = 2 -> s.freq # NoFreq /\ (s.freq # r.actual.freq \/ Unkeys(r, s))
    [] k = 3 -> ~r.ptt /\ s.ptt

Obeyed(x, r, s, k) ==
  [x EXCEPT !.freq = IF k >= 2 /\ Needed(r, s, 2) THEN s.freq ELSE @,
            !.ptt = IF k >= 3 /\ Needed(r, s, 3) THEN TRUE
                    ELSE IF k >= 1 /\ Needed(r, s, 1) THEN FALSE ELSE @]

Succeeds(i, r, n) ==
  /\ inst' = [inst EXCEPT ![i] = [r EXCEPT !.n = n, !.said = r.actual, !.ptt =
                 IF Head(thrQ).call = "set" THEN r.actual.ptt ELSE @]]
  /\ guiQ' = Updates(i, r.actual, n) /\ pc' = Rest /\ UNCHANGED faults

\* The state is signalled as the exception leaves the slot; the failure follows.
Fails(i, r) ==
  /\ Fault
  /\ inst' = [inst EXCEPT ![i] = [r EXCEPT !.said = r.actual]]
  /\ guiQ' = Updates(i, r.actual, r.n) /\ pc' = [at |-> "failing", i |-> i, timer |-> FALSE]

ServeStart ==
  /\ Serving("start")
  /\ LET i == Head(thrQ).to
     IN  \/ Succeeds(i, Started(inst[i]), Head(thrQ).n)
         \/ Fails(i, inst[i])
  /\ UNCHANGED <<confVars, mainVars, rigVars, commands, reports, turns>>

\* set starts an instance that is off line again; a command that fails may have
\* been obeyed all the same.
ServeSet ==
  /\ Serving("set")
  /\ LET i == Head(thrQ).to
         s == Head(thrQ).s
         r == IF inst[i].actual.online THEN inst[i] ELSE Started(inst[i])
     IN  \/ /\ Succeeds(i, [r EXCEPT !.actual = Obeyed(@, r, s, 3)], Head(thrQ).n)
            /\ rig' = Obeyed(rig, r, s, 3)
         \/ \E k \in 0..2 :
              /\ Needed(r, s, k + 1)
              /\ Fails(i, [r EXCEPT !.actual = Obeyed(@, r, s, k)])
              /\ rig' \in {Obeyed(rig, r, s, k), Obeyed(rig, r, s, k + 1)}
         \/ ~inst[i].actual.online /\ Fails(i, inst[i]) /\ UNCHANGED rig
  /\ unkeyFailed' = (unkeyFailed /\ rig'.ptt)
  /\ UNCHANGED <<confVars, mainVars, commands, reports, turns>>

\* shutdown tries to unkey a rig on line first, whether it was asked to key it or
\* not; its update may be held off.
TriesUnkey_keyed(r) == r.actual.online /\ r.ptt
TriesUnkey(r) == r.actual.online

Shutdown(i) ==
  LET tries == TriesUnkey(inst[i])
      off == [inst[i].actual EXCEPT !.online = FALSE, !.ptt = @ /\ (rig'.ptt \/ ~tries)]
  IN  /\ \/ tries /\ rig' = [rig EXCEPT !.ptt = FALSE] /\ UNCHANGED faults
         \/ tries /\ rig.ptt /\ Fault /\ UNCHANGED rig
         \/ ~tries /\ UNCHANGED <<rig, faults>>
      /\ unkeyFailed' = (rig'.ptt /\ (unkeyFailed \/ tries))
      /\ guiQ' \in {guiQ, IF off = inst[i].said THEN guiQ ELSE Updates(i, off, inst[i].n)}
      /\ inst' = [inst EXCEPT ![i].actual = off, ![i].said = off,
                              ![i].finished = (pc.at = "idle")]

ServeStop ==
  /\ Serving("stop") /\ Shutdown(Head(thrQ).to)
  /\ UNCHANGED <<confVars, mainVars, pc, commands, reports, turns>>

\* offline: the failure is signalled first, the connection is closed afterwards.
SignalFailure ==
  /\ pc.at = "failing" /\ pc' = [pc EXCEPT !.at = "closing"]
  /\ guiQ' = Emitted(pc.i, <<Report("failure", pc.i, Blank, 0)>>)
  /\ UNCHANGED <<confVars, mainVars, thrQ, inst, rigVars, counts>>

CloseFailed ==
  /\ pc.at = "closing" /\ Shutdown(pc.i) /\ pc' = AfterSlot(pc.timer)
  /\ UNCHANGED <<confVars, mainVars, thrQ, commands, reports, turns>>

\* A poll of an instance that is on line takes its time on the link.  Timers are
\* served when no call is posted.
StartPoll ==
  /\ pc.at = "idle" /\ thrQ = <<>> /\ closing # "quit"
  /\ \E i \in Instances :
       inst[i].actual.online /\ pc' = [at |-> "polling", i |-> i, timer |-> TRUE]
  /\ UNCHANGED <<confVars, mainVars, guiQ, thrQ, inst, rigVars, counts>>

Polled(i) == [online |-> TRUE, freq |-> rig.freq, ptt |-> rig.ptt]

PollEnds(emits) ==
  /\ pc.at = "polling" /\ pc' = AfterSlot(TRUE)
  /\ inst' = [inst EXCEPT ![pc.i].actual = Polled(pc.i),
                          ![pc.i].said = IF emits THEN Polled(pc.i) ELSE @]
  /\ guiQ' = IF emits THEN Updates(pc.i, Polled(pc.i), inst[pc.i].n) ELSE guiQ
  /\ UNCHANGED <<confVars, mainVars, thrQ, rigVars, commands, turns, faults>>

\* A change is signalled, if not held off; what was expected may be confirmed
\* without a change.
PollChanged ==
  /\ pc.at = "polling" /\ Polled(pc.i) # inst[pc.i].said /\ PollEnds(TRUE)
  /\ UNCHANGED reports
PollConfirmed ==
  /\ pc.at = "polling" /\ Polled(pc.i) = inst[pc.i].said /\ PollEnds(TRUE)
  /\ reports < MaxReports /\ reports' = reports + 1
PollSilent == PollEnds(FALSE) /\ UNCHANGED reports

PollFails ==
  /\ pc.at = "polling" /\ Fault /\ pc' = [pc EXCEPT !.at = "failing"]
  /\ UNCHANGED <<confVars, mainVars, guiQ, thrQ, inst, rigVars, commands, reports, turns>>

\* Told to quit, and all that was posted served.
ThreadQuits ==
  /\ closing = "quit" /\ pc.at = "idle" /\ thrQ = <<>> /\ pc' = [Rest EXCEPT !.at = "ended"]
  /\ UNCHANGED <<confVars, mainVars, guiQ, thrQ, inst, rigVars, counts>>

\* The operator turns the rig's dial.
Turn ==
  /\ turns < MaxTurns /\ turns' = turns + 1
  /\ \E f \in Freqs : rig' = [rig EXCEPT !.freq = f]
  /\ UNCHANGED <<confVars, mainVars, guiQ, thrQ, threadVars, unkeyFailed, commands, reports,
                 faults>>

-----------------------------------------------------------------------------
HandleEvent == HandleUpdate \/ HandleFailure \/ rigOpen
Poll == PollChanged \/ PollConfirmed \/ PollSilent \/ PollFails
Serve == ServeStart \/ ServeSet \/ ServeStop \/ SignalFailure \/ CloseFailed

Next ==
  \/ GoOnline \/ Reconfigure \/ SetFrequency \/ SetPtt \/ CloseWindow \/ Quit \/ AnswerBox
  \/ HandleEvent \/ Serve \/ StartPoll \/ Poll \/ ThreadQuits \/ Turn

\* Both threads serve their events, the poll timer goes off, and an expectation
\* holds off a change for a few polls only.
Fairness ==
  /\ WF_vars(HandleEvent) /\ WF_vars(Serve) /\ WF_vars(Poll) /\ SF_vars(StartPoll)
  /\ SF_vars(PollChanged)

Spec == Init /\ [][Next]_vars /\ Fairness

-----------------------------------------------------------------------------
\* Properties

Reports ==
  [kind : {"update", "failure", "retry"}, from : 0..MaxOpens, s : States,
   n : 0..transceiver_command_number]
Calls ==
  [to : Instances, call : {"start", "set", "stop"}, s : States,
   n : 0..transceiver_command_number]

TypeOK ==
  /\ rig_active \in BOOLEAN /\ current \in 0..MaxOpens /\ cached \in States
  /\ transceiver_command_number \in 0..(MaxOpens + MaxCommands)
  /\ m_freqNominal \in Freqs /\ m_rigState \in States /\ first_error \in BOOLEAN
  /\ box \in BOOLEAN /\ closing \in {"no", "closed", "quit"}
  /\ guiQ \in Seq(Reports) /\ thrQ \in Seq(Calls)
  /\ pc \in [at : {"idle", "polling", "failing", "closing", "ended"}, i : 0..MaxOpens,
             timer : BOOLEAN]
  /\ inst \in [Instances -> [actual : States, ptt : BOOLEAN,
                             n : 0..transceiver_command_number, said : States,
                             finished : BOOLEAN]]
  /\ rig \in [freq : Freqs, ptt : BOOLEAN] /\ unkeyFailed \in BOOLEAN
  /\ commands \in 0..MaxCommands /\ reports \in 0..MaxReports /\ turns \in 0..MaxTurns
  /\ faults \in 0..MaxFaults

Online == {i \in Instances : inst[i].actual.online}

\* The connections share the rig as RigLink promises, though they are closed by
\* posted calls that the new connection's own calls follow.
Link == INSTANCE RigLink WITH
  Connections <- Instances, owners <- Online,
  retired <- {i \in Instances : inst[i].finished}, key <- rig.ptt
LinkKept == Link!Spec

\* A connection that Configuration has let go of, whether it failed, was replaced
\* or came to life again behind a failure, has its stop on the way.
NoOrphan ==
  \A i \in Online :
    \/ rig_active /\ i = current
    \/ \E k \in 1..Len(thrQ) : thrQ[k].to = i /\ thrQ[k].call = "stop"

\* An update that bears the number of the last command tells its result: that
\* command, and all before it, have been served.
FreshUpdate ==
  \A k \in 1..Len(guiQ) :
    guiQ[k].kind = "update" /\ guiQ[k].n = transceiver_command_number
      => \A q \in 1..Len(thrQ) : thrQ[q].call = "stop"

\* A rig that no connection has is not left keyed, but by a command to unkey it
\* that failed.
NoStuckKey == rig.ptt /\ Online = {} => unkeyFailed

\* When clients and operator rest, the state that MainWindow shows is the rig's.
DisplayAgrees ==
  <>[](rig_active /\ Running => m_rigState.freq = rig.freq /\ m_rigState.ptt = rig.ptt)

\* The rig of a live connection stops transmitting once the client has asked for
\* PTT off, or the connection is closed.
PttOffObeyed ==
  (rig_active /\ ~cached.ptt /\ ~unkeyFailed) ~>
     (~rig.ptt \/ cached.ptt \/ unkeyFailed \/ ~Running)

\* Promised: a set applies state changes to the rig.  PTT off, served without a
\* failure, leaves the rig unkeyed.
PttOffApplied ==
  [][ServeSet /\ ~Head(thrQ).s.ptt /\ pc' = Rest => ~rig'.ptt]_vars

\* Promised: no "ping-pong" due to signals crossing in transit.  Every command
\* sent while the rig's dial is left alone carries the frequency MainWindow wants,
\* once it has set one.
NoPingPong ==
  [][SetPtt /\ rig_active /\ cached.freq # NoFreq => cached'.freq = m_freqNominal]_vars

\* Promised: a failed connection is closed by itself.  Not by the failure of a
\* connection that was replaced.
NoStaleFailure ==
  [][HandleFailure /\ rig_active => Head(guiQ).from = current]_vars

\* Promised: the failure of a connection is signalled.
FailureSignalled == [][SignalFailure => guiQ' # guiQ]_vars

\* Promised: PTT is not left set, not even when the program ends.
UnkeyedAtEnd == pc.at = "ended" => ~rig.ptt
=============================================================================
