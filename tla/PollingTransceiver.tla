------------------------- MODULE PollingTransceiver -------------------------
(***************************************************************************)
(* One rig connection: the slots start, set and stop of TransceiverBase and *)
(* the expectations of PollingTransceiver, which hold back what a poll      *)
(* reads until the rig has come to the state asked of it.  The driver is    *)
(* HamlibTransceiver with a rig that has two addressable VFOs.              *)
(*                                                                          *)
(* The slots and the poll timer run in one thread and never interrupt each  *)
(* other, but every command to the rig may fail and the operator has his    *)
(* hands on the rig meanwhile: pc says which line of a slot comes next.     *)
(***************************************************************************)
EXTENDS Integers

CONSTANTS
  Freqs,          \* dial frequencies above 10 kHz
  Bogus,          \* those of the Tx VFO that set ignores (10 kHz and less)
  Garbled,        \* what a rig that is still changing over reports
  Modes, UNK,     \* Transceiver::MODE without and with its UNK
  AskedRx, AskedTx, AskedModes, \* what clients ask for
  PollsToStabilize, \* polls_to_stabilize
  MaxLag,         \* polls during which a rig may be changing over
  MaxSets,        \* bound: calls of set
  MaxStarts,      \* bound: calls of start, and of set that start it again
  Controls,       \* what the operator touches at the rig itself
  MaxTurns,       \* bound: operations at the rig's own controls
  MaxFaults       \* bound: commands to the rig that fail

NoFreq == 0
Splits == {"unknown", "off", "on"}

States ==
  [online : BOOLEAN, rx : Freqs \cup {NoFreq, Garbled}, tx : Freqs \cup Bogus \cup {NoFreq},
   mode : Modes \cup {UNK}, split : Splits, ptt : BOOLEAN]

ASSUME FrequencyAssumption ==
  /\ Freqs \subseteq Nat \ {0} /\ Freqs # {} /\ Bogus \subseteq Nat \ {0}
  /\ Bogus \cap Freqs = {} /\ Garbled \in Nat \ (Freqs \cup Bogus \cup {NoFreq})
  /\ UNK \notin Modes /\ Modes # {}

ASSUME BoundAssumption ==
  /\ AskedRx \subseteq Freqs \cup {NoFreq} /\ AskedTx \subseteq Freqs \cup Bogus \cup {NoFreq}
  /\ AskedModes \subseteq Modes \cup {UNK}
  /\ PollsToStabilize \in Nat \ {0} /\ MaxLag \in Nat
  /\ MaxSets \in Nat /\ MaxStarts \in Nat /\ MaxTurns \in Nat /\ MaxFaults \in Nat

VARIABLES
  pc,          \* the line of a slot to be run next
  cmd,         \* the call being served: slot, state and sequence number
  requested, actual, last,       \* requested_, actual_ and last_ (the last one signalled)
  last_sequence_number,
  expect,      \* next_state_ and retries_
  last_signalled,
  poll_timer,  \* poll_timer_ is running
  open,        \* the driver's connection, rig_open to rig_close
  rig,         \* the rig itself
  lag,         \* polls for which it is still changing over
  unkeyFailed, \* it was keyed when the command to unkey it failed
  sets, starts, turns, faults

slotVars == <<pc, cmd>>
baseVars == <<requested, actual, last, last_sequence_number>>
pollVars == <<expect, last_signalled, poll_timer>>
rigVars == <<open, rig, lag, unkeyFailed>>
counts == <<sets, starts, turns, faults>>
vars == <<slotVars, baseVars, pollVars, rigVars, counts>>

Blank ==
  [online |-> FALSE, rx |-> NoFreq, tx |-> NoFreq, mode |-> UNK, split |-> "unknown",
   ptt |-> FALSE]

SplitOf(tx) == IF tx = NoFreq THEN "off" ELSE "on"

\* The TransceiverStates of clients: off-line, simplex and split.
Requests ==
  {Blank} \cup
  {[online |-> TRUE, rx |-> r, tx |-> t, mode |-> m, split |-> SplitOf(t), ptt |-> p] :
     r \in AskedRx, t \in AskedTx, m \in AskedModes, p \in BOOLEAN}

Idle == [slot |-> "none", s |-> Blank, n |-> 0]

Init ==
  /\ pc = "idle" /\ cmd = Idle
  /\ requested = Blank /\ actual = Blank /\ last = Blank /\ last_sequence_number = 0
  /\ expect = [next |-> Blank, retries |-> 0] /\ last_signalled = Blank
  /\ poll_timer = FALSE /\ open = FALSE
  /\ rig \in [rx : Freqs, tx : Freqs, mode : Modes, txMode : Modes, split : {"off"},
              ptt : {FALSE}]
  /\ lag = 0 /\ unkeyFailed = FALSE
  /\ sets = 0 /\ starts = 0 /\ turns = 0 /\ faults = 0

-----------------------------------------------------------------------------
\* PollingTransceiver's expectations: what each do_post_... remembers.  e is
\* next_state_ with retries_.

Expecting(next) == [next |-> next, retries |-> PollsToStabilize]

PostStart(e) ==
  IF e.next.online THEN e ELSE Expecting([e.next EXCEPT !.online = TRUE])

PostFrequency(e, f, m) ==
  IF e.next.rx = f /\ m \in {UNK, e.next.mode} THEN e
  ELSE Expecting([e.next EXCEPT !.rx = f, !.mode = IF m = UNK THEN @ ELSE m])

PostTxFrequency(e, f) ==
  IF e.next.tx = f THEN e
  ELSE Expecting([e.next EXCEPT !.tx = f, !.split = SplitOf(f)])

PostPtt(e, p) ==
  IF e.next.ptt = p THEN e ELSE Expecting([e.next EXCEPT !.ptt = p])

\* do_pre_update: is a state to be shown, or is a change being held off?
PreUpdate(e, a) == e.retries = 0 \/ a = e.next

-----------------------------------------------------------------------------
\* The driver.  A VFO that is really changed may leave the rig reporting nonsense
\* for a few polls.

ChangesOver == lag' \in IF rig' = rig THEN {lag} ELSE lag..MaxLag

Fault == faults < MaxFaults /\ faults' = faults + 1

\* What a poll reads: frequencies and mode only when receiving or simplex, the Tx
\* VFO only in split.
PollOf(a) ==
  LET receiving == ~a.ptt \/ a.split # "on"
  IN  [a EXCEPT !.rx = IF ~receiving THEN @ ELSE IF lag > 0 THEN Garbled ELSE rig.rx,
                !.tx = IF a.split = "on" THEN rig.tx ELSE @,
                !.mode = IF receiving THEN rig.mode ELSE @,
                !.split = rig.split,
                !.ptt = rig.ptt]

-----------------------------------------------------------------------------
\* The slots of TransceiverBase.  Each begins by choosing its first line.

Call(slot, s) ==
  /\ pc = "idle"
  /\ cmd' = [slot |-> slot, s |-> s, n |-> sets + starts + 1]
  /\ UNCHANGED <<baseVars, pollVars, rigVars, turns, faults>>

CallStart ==
  /\ starts < MaxStarts /\ Call("start", Blank) /\ starts' = starts + 1
  /\ pc' = "shutdown" /\ UNCHANGED sets

\* set takes the rig on or off the air as requested, then looks for changes.
CallSet ==
  /\ sets < MaxSets /\ sets' = sets + 1
  /\ \E s \in Requests :
       /\ Call("set", s)
       /\ pc' = IF s.online # requested.online THEN "shutdown"
                ELSE IF s.online THEN "unkey" ELSE "end"
       /\ s.online /\ ~requested.online => starts < MaxStarts
       /\ starts' = IF s.online /\ ~requested.online THEN starts + 1 ELSE starts

CallStop ==
  /\ starts > 0 /\ Call("stop", Blank) /\ pc' = "shutdown" /\ UNCHANGED <<sets, starts>>

-----------------------------------------------------------------------------
\* startup and shutdown

\* shutdown tries to leave the rig unkeyed and out of split, closes the driver
\* and shows the change unless it is held off.  cut tells at which command to
\* the rig it gave up.
ShutdownActual(cut) ==
  LET unkeyed == IF requested.online /\ cut # "ptt" THEN [actual EXCEPT !.ptt = FALSE] ELSE actual
      simplex == IF requested.online /\ cut = "none" /\ requested.split = "on"
                 THEN [unkeyed EXCEPT !.tx = NoFreq, !.split = "off"] ELSE unkeyed
  IN  [simplex EXCEPT !.online = FALSE]

ShutdownExpect(cut) ==
  LET unkeyed == IF requested.online /\ cut # "ptt" THEN PostPtt(expect, FALSE) ELSE expect
  IN  IF requested.online /\ cut = "none" /\ requested.split = "on"
      THEN PostTxFrequency(unkeyed, NoFreq) ELSE unkeyed

ShutdownRig_keyed(cut) ==
  IF ~requested.online \/ cut = "ptt" \/ requested.split # "on" THEN rig
  ELSE [rig EXCEPT !.ptt = FALSE, !.split = IF cut = "none" THEN "off" ELSE @]

ShutdownRig(cut) ==
  IF ~requested.online \/ cut = "ptt" THEN rig
  ELSE [rig EXCEPT !.ptt = FALSE,
                   !.split = IF cut = "none" /\ requested.split = "on" THEN "off" ELSE @]

StopTimer == FALSE

Shutdown ==
  /\ pc \in {"shutdown", "offline"}
  /\ \E cut \in {"none", "ptt", "split"} :
       /\ cut # "none" => requested.online /\ Fault
       /\ cut = "split" => requested.split = "on"
       /\ cut = "none" => UNCHANGED faults
       /\ actual' = ShutdownActual(cut) /\ expect' = ShutdownExpect(cut)
       /\ rig' = ShutdownRig(cut)
       /\ unkeyFailed' = (rig'.ptt /\ (unkeyFailed \/ cut = "ptt"))
  /\ requested' = [requested EXCEPT !.online = FALSE]
  /\ last' = IF PreUpdate(expect', actual') THEN actual' ELSE last
  /\ poll_timer' = StopTimer /\ open' = FALSE /\ lag' = 0
  /\ pc' = IF pc = "offline" \/ cmd.slot = "stop" THEN "idle"
           ELSE IF cmd.slot = "start" \/ cmd.s.online THEN "startup" ELSE "end"
  /\ cmd' = IF pc' = "idle" THEN Idle ELSE cmd
  /\ UNCHANGED <<last_sequence_number, last_signalled, sets, starts, turns>>

\* startup: the driver's do_start ends with a poll.
Startup ==
  /\ pc = "startup" /\ open' = TRUE
  /\ actual' = [PollOf(actual) EXCEPT !.online = TRUE]
  /\ requested' = [requested EXCEPT !.online = TRUE, !.rx = actual'.rx]
  /\ expect' = PostStart(expect) /\ poll_timer' = TRUE
  /\ pc' = IF cmd.slot = "start" THEN "end" ELSE "unkey"
  /\ UNCHANGED <<cmd, last, last_sequence_number, last_signalled, rig, lag, unkeyFailed,
                 counts>>

-----------------------------------------------------------------------------
\* The body of set, line by line.  PTT goes off before and on after all else.

PttOn == cmd.s.ptt /\ ~requested.ptt
PttOff == ~cmd.s.ptt /\ requested.ptt

NewMode == cmd.s.mode # UNK /\ cmd.s.mode # requested.mode

\* Frequency: QSY, or a mode change, or just returned to receiving.
SetsRx == cmd.s.rx # NoFreq /\ (cmd.s.rx # requested.rx \/ NewMode \/ PttOff)

\* Tx frequency: QSY, or a mode change, or about to transmit split.
SetsTx_noptt ==
  cmd.s.tx \notin Bogus /\ (cmd.s.tx # requested.tx \/ NewMode)
SetsTx ==
  /\ cmd.s.tx \notin Bogus
  /\ cmd.s.tx # requested.tx \/ NewMode \/ (cmd.s.tx # NoFreq /\ PttOn)

Line(here, next) == pc = here /\ pc' = next

Skip(here, next, needed) ==
  /\ Line(here, next) /\ ~needed
  /\ UNCHANGED <<cmd, baseVars, pollVars, rigVars, counts>>

Unkey ==
  /\ Line("unkey", "rx") /\ PttOff
  /\ rig' = [rig EXCEPT !.ptt = FALSE] /\ actual' = [actual EXCEPT !.ptt = FALSE]
  /\ expect' = PostPtt(expect, FALSE) /\ unkeyFailed' = FALSE
  /\ UNCHANGED <<cmd, requested, last, last_sequence_number, last_signalled, poll_timer,
                 open, lag, counts>>

SetFrequency ==
  /\ Line("rx", "tx") /\ SetsRx
  /\ LET f == cmd.s.rx
         mode(old) == IF cmd.s.mode = UNK THEN old ELSE cmd.s.mode
     IN  /\ rig' = [rig EXCEPT !.rx = f, !.mode = mode(@)]
         /\ actual' = [actual EXCEPT !.rx = f, !.mode = mode(@)]
         /\ requested' = [requested EXCEPT !.rx = f, !.mode = actual'.mode]
         /\ expect' = PostFrequency(expect, f, cmd.s.mode)
  /\ ChangesOver
  /\ UNCHANGED <<cmd, last, last_sequence_number, last_signalled, poll_timer, open,
                 unkeyFailed, counts>>

SetTxFrequency ==
  /\ Line("tx", "key") /\ SetsTx
  /\ LET f == cmd.s.tx
     IN  /\ rig' = [rig EXCEPT !.tx = IF f = NoFreq THEN @ ELSE f, !.split = SplitOf(f),
                               !.txMode = IF f = NoFreq \/ cmd.s.mode = UNK THEN @
                                          ELSE cmd.s.mode]
         /\ actual' = [actual EXCEPT !.tx = f, !.split = SplitOf(f)]
         /\ requested' = [requested EXCEPT !.tx = f, !.split = SplitOf(f)]
         /\ expect' = PostTxFrequency(expect, f)
  /\ ChangesOver
  /\ UNCHANGED <<cmd, last, last_sequence_number, last_signalled, poll_timer, open,
                 unkeyFailed, counts>>

Key ==
  /\ Line("key", "end") /\ PttOn
  /\ rig' = [rig EXCEPT !.ptt = TRUE] /\ actual' = [actual EXCEPT !.ptt = TRUE]
  /\ expect' = PostPtt(expect, TRUE)
  /\ UNCHANGED <<cmd, requested, last, last_sequence_number, last_signalled, poll_timer,
                 open, lag, unkeyFailed, counts>>

\* The end of start and set: record what changed, and signal it come what may.
End ==
  /\ Line("end", "idle") /\ cmd' = Idle
  /\ requested' = IF cmd.slot = "set" /\ requested.online
                  THEN [requested EXCEPT !.ptt = actual.ptt] ELSE requested
  /\ last_sequence_number' = cmd.n /\ last' = actual
  /\ UNCHANGED <<actual, pollVars, rigVars, counts>>

\* A command to the rig throws: the state is signalled as the exception leaves
\* the slot, then the failure, then the rig is taken offline.  A rig whose answer
\* was lost may have keyed.
Throw ==
  /\ \/ pc = "startup"
     \/ pc = "unkey" /\ PttOff
     \/ pc = "rx" /\ SetsRx
     \/ pc = "tx" /\ SetsTx
     \/ pc = "key" /\ PttOn
  /\ Fault /\ pc' = "offline" /\ last' = actual
  /\ \/ UNCHANGED rig
     \/ pc = "key" /\ rig' = [rig EXCEPT !.ptt = TRUE]
  /\ UNCHANGED <<cmd, requested, actual, last_sequence_number, pollVars, open, lag,
                 unkeyFailed, sets, starts, turns>>

-----------------------------------------------------------------------------
\* handle_timeout and do_sync

\* Is what a poll has seen to be signalled?  Either nothing is expected and it is
\* news, or it is what was expected, or there are no more retries.
PollSignals_late(seen) ==
  IF expect.retries = 0 THEN seen # last_signalled ELSE seen = expect.next
PollSignals(seen) ==
  IF expect.retries = 0 THEN seen # last_signalled
  ELSE seen = expect.next \/ expect.retries = 1

\* Otherwise one of the polls the rig is given has gone by.
Waited_kept == expect
Waited == [expect EXCEPT !.retries = IF @ = 0 THEN 0 ELSE @ - 1]

Poll ==
  /\ pc = "idle" /\ poll_timer
  /\ actual' = PollOf(actual)
  /\ requested' = [requested EXCEPT !.rx = actual'.rx]
  /\ lag' = IF lag > 0 THEN lag - 1 ELSE 0
  /\ IF PollSignals(actual')
     THEN /\ expect' = [next |-> actual', retries |-> 0]
          /\ last_signalled' = actual' /\ last' = actual'
     ELSE /\ expect' = Waited
          /\ UNCHANGED <<last_signalled, last>>
  /\ UNCHANGED <<slotVars, last_sequence_number, poll_timer, open, rig, unkeyFailed, counts>>

PollThrows ==
  /\ pc = "idle" /\ poll_timer /\ Fault /\ pc' = "offline"
  /\ UNCHANGED <<cmd, baseVars, pollVars, rigVars, sets, starts, turns>>

-----------------------------------------------------------------------------
\* The operator at the rig turns a dial, switches split or the rig's own time-out
\* timer ends a transmission, slowly compared with a slot.
Turn ==
  /\ pc = "idle" /\ turns < MaxTurns /\ turns' = turns + 1
  /\ \/ "dial" \in Controls /\ \E f \in Freqs : rig' = [rig EXCEPT !.rx = f]
     \/ "Tx VFO" \in Controls /\ \E f \in Freqs : rig' = [rig EXCEPT !.tx = f]
     \/ /\ "split" \in Controls
        /\ rig' = [rig EXCEPT !.split = IF @ = "on" THEN "off" ELSE "on"]
     \/ "time-out" \in Controls /\ rig' = [rig EXCEPT !.ptt = FALSE]
  /\ unkeyFailed' = (unkeyFailed /\ rig'.ptt)
  /\ UNCHANGED <<slotVars, baseVars, pollVars, open, lag, sets, starts, faults>>

Step ==
  \/ Shutdown \/ Startup \/ Unkey \/ SetFrequency \/ SetTxFrequency \/ Key \/ End
  \/ Skip("unkey", "rx", PttOff) \/ Skip("rx", "tx", SetsRx)
  \/ Skip("tx", "key", SetsTx) \/ Skip("key", "end", PttOn)

Next ==
  \/ CallStart \/ CallSet \/ CallStop \/ Step \/ Throw \/ Poll \/ PollThrows \/ Turn

\* The rig thread runs a slot to its end and serves the poll timer.
Fairness == WF_vars(Step) /\ WF_vars(Poll)

Spec == Init /\ [][Next]_vars /\ Fairness

-----------------------------------------------------------------------------
\* Properties

Lines == {"idle", "shutdown", "startup", "unkey", "rx", "tx", "key", "end", "offline"}
TypeOK ==
  /\ pc \in Lines
  /\ cmd \in [slot : {"none", "start", "set", "stop"}, s : States, n : Nat]
  /\ requested \in States /\ actual \in States /\ last \in States
  /\ last_sequence_number \in Nat
  /\ expect \in [next : States, retries : 0..PollsToStabilize]
  /\ last_signalled \in States
  /\ poll_timer \in BOOLEAN /\ open \in BOOLEAN /\ unkeyFailed \in BOOLEAN
  /\ rig \in [rx : Freqs, tx : Freqs, mode : Modes, txMode : Modes, split : {"on", "off"},
              ptt : BOOLEAN]
  /\ lag \in 0..MaxLag
  /\ sets \in Nat /\ starts \in Nat /\ turns \in Nat /\ faults \in Nat

\* Go/no-go: a driver receives no command and no poll but while its connection
\* is open, whatever failed, stopped or started before.
GoNoGo ==
  /\ pc \in {"unkey", "rx", "tx", "key"} => open /\ requested.online
  /\ poll_timer => open
  /\ pc = "idle" => requested.online = open /\ actual.online = open

\* A connection that is closed, by its client or by a failure, leaves the rig
\* unkeyed unless the very command to unkey it failed.
UnkeyedWhenClosed == ~open /\ rig.ptt => unkeyFailed

\* A connection that is closed is closed to commands and has let go of the key.
ClosedAndUnkeyed == GoNoGo /\ UnkeyedWhenClosed

\* Whenever the rig is keyed for a split transmission its Tx VFO is on the
\* frequency asked for and split is on, even if the operator has turned the Tx
\* VFO or switched split off since it was last set: PTT comes after all else.
KeyedOnTxFrequency ==
  [][rig'.ptt /\ ~rig.ptt /\ cmd.s.tx \in Freqs
       => rig'.tx = cmd.s.tx /\ rig'.split = "on"]_vars

\* Promised: clients do not see the intermediate states that a rig reports while
\* it is changing over.
NoIntermediateState == last.online => last.rx # Garbled

\* However requests fall among the polls and replace each other's expectations,
\* clients see none, as long as only they change the rig and no command fails.
SettledReadings == turns = 0 /\ faults = 0 => NoIntermediateState

\* When no change is awaited the client has been told the state as it was read, though
\* signals come from slots and from polls, each with a memory of its own.  Not so after
\* a second start of the same instance, which Configuration does not ask for (do_post_stop
\* leaves next_state_ and last_signalled_state_ of the first), nor while the rig's split
\* has been switched by hand against the Tx frequency (do_post_tx_frequency expects no
\* change where the frequency stays).
SplitAsAsked == actual.split = SplitOf(actual.tx)
ClientToldState ==
  pc = "idle" /\ open /\ starts <= 1 /\ expect.retries = 0 /\ SplitAsAsked => last = actual

\* A dial turned at the rig is eventually shown to the client, if it stays there
\* and the connection lasts (in split the rig is not read while it transmits).
ClientLearnsDial ==
  \A f \in Freqs :
    (open /\ rig.rx = f) ~> (last.rx = f \/ rig.rx # f \/ ~open \/ actual.ptt)

\* Commented: the Tx frequency is set on "QSY or mode change".  After a set in
\* split that brings a new mode the Tx VFO has that mode.
TxModeFollows ==
  [][pc = "end" /\ pc' = "idle" /\ cmd.slot = "set" /\ cmd.s.tx \in Freqs
       /\ cmd.s.rx \in Freqs /\ cmd.s.mode # UNK /\ open => rig.txMode = cmd.s.mode]_vars
=============================================================================
