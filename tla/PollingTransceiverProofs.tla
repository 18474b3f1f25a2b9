---------------------- MODULE PollingTransceiverProofs ----------------------
(***************************************************************************)
(* Proofs about PollingTransceiver, for every set of frequencies and modes, *)
(* any number of polls a rig may take to change over, and any number of     *)
(* requests, failures and turns of the operator: a closed connection takes  *)
(* no command and has let go of the key, a split transmission starts on the *)
(* frequency asked for, and a client has been told what was read whenever   *)
(* no change is awaited.                                                    *)
(***************************************************************************)
EXTENDS PollingTransceiver, TLAPS

Expectations == [next : States, retries : 0..PollsToStabilize]
Calls == [slot : {"none", "start", "set", "stop"}, s : States, n : Nat]
Rigs ==
  [rx : Freqs, tx : Freqs, mode : Modes, txMode : Modes, split : {"on", "off"}, ptt : BOOLEAN]

\* TypeOK and what clients never ask for: the reading of a rig that changes over.
Typed == TypeOK /\ cmd.s.rx # Garbled

\* The driver is open exactly while a client is told, and polls run, that it is.
On ==
  /\ requested.online = open /\ actual.online = open /\ poll_timer = open
  /\ pc \in {"unkey", "rx", "tx", "key"} => open

\* A start has been called and its driver is not yet open.
Starting ==
  pc = "startup" \/ (pc = "shutdown" /\ cmd.slot # "stop" /\ (cmd.slot = "start" \/ cmd.s.online))

\* Nothing is expected of a connection before its first start has opened it.
NotExpected ==
  /\ Starting \/ open => starts >= 1
  /\ starts <= 1 /\ (starts = 0 \/ Starting) => ~expect.next.online

\* In the line that keys, the Tx VFO is where it was asked to be.
TxFrequencySet ==
  pc = "key" /\ PttOn /\ cmd.s.tx \in Freqs => rig.tx = cmd.s.tx /\ rig.split = "on"

\* When no change is awaited, what was last signalled is what was read and expected.
Settled ==
  starts <= 1 /\ expect.retries = 0 =>
    /\ expect.next = last_signalled
    /\ open /\ last_signalled.split = SplitOf(last_signalled.tx) =>
         actual = last_signalled /\ (pc = "idle" => last = last_signalled)

IInv ==
  /\ Typed /\ On /\ UnkeyedWhenClosed /\ NotExpected /\ TxFrequencySet /\ Settled
  /\ ClientToldState

-----------------------------------------------------------------------------
\* Lemmas about expectations and readings

\* Every request of a client is a state, and never one of a rig changing over.
LEMMA RequestTypes == \A s \in Requests : s \in States /\ s.rx # Garbled
<1> SUFFICES ASSUME NEW s \in Requests PROVE s \in States /\ s.rx # Garbled
  OBVIOUS
<1>1. CASE s = Blank
  BY <1>1, FrequencyAssumption DEF Blank, States, NoFreq, Splits
<1>2. CASE s \in {[online |-> TRUE, rx |-> r, tx |-> t, mode |-> m, split |-> SplitOf(t),
                   ptt |-> p] : r \in AskedRx, t \in AskedTx, m \in AskedModes, p \in BOOLEAN}
  <2>1. PICK r \in AskedRx, t \in AskedTx, m \in AskedModes, p \in BOOLEAN :
          s = [online |-> TRUE, rx |-> r, tx |-> t, mode |-> m, split |-> SplitOf(t), ptt |-> p]
    BY <1>2
  <2>2. /\ r \in Freqs \cup {NoFreq} /\ t \in Freqs \cup Bogus \cup {NoFreq}
        /\ m \in Modes \cup {UNK} /\ SplitOf(t) \in Splits
    BY <2>1, BoundAssumption DEF SplitOf, Splits
  <2> QED BY <2>1, <2>2, FrequencyAssumption DEF States, NoFreq
<1> QED BY <1>1, <1>2 DEF Requests

\* do_post_...: the new expectation is one, and only a change restarts the polls
\* that are counted.
LEMMA Posted ==
  ASSUME NEW e \in Expectations
  PROVE  /\ PostStart(e) \in Expectations /\ PostStart(e).next.online
         /\ PostStart(e).retries = 0 => PostStart(e) = e
         /\ \A p \in BOOLEAN :
              /\ PostPtt(e, p) \in Expectations
              /\ PostPtt(e, p).next.online = e.next.online
              /\ PostPtt(e, p).retries = 0 => PostPtt(e, p) = e /\ e.next.ptt = p
<1>1. PollsToStabilize \in 0..PollsToStabilize /\ PollsToStabilize # 0
  BY BoundAssumption
<1>2. e.next \in States /\ e.retries \in 0..PollsToStabilize
  BY DEF Expectations
<1>3. /\ PostStart(e) \in Expectations /\ PostStart(e).next.online
      /\ PostStart(e).retries = 0 => PostStart(e) = e
  BY <1>1, <1>2 DEF PostStart, Expecting, Expectations, States
<1>4. ASSUME NEW p \in BOOLEAN
      PROVE  /\ PostPtt(e, p) \in Expectations
             /\ PostPtt(e, p).next.online = e.next.online
             /\ PostPtt(e, p).retries = 0 => PostPtt(e, p) = e /\ e.next.ptt = p
  BY <1>1, <1>2 DEF PostPtt, Expecting, Expectations, States
<1> QED BY <1>3, <1>4

LEMMA PostedFrequency ==
  ASSUME NEW e \in Expectations
  PROVE  /\ \A f \in Freqs, m \in Modes \cup {UNK} :
              /\ PostFrequency(e, f, m) \in Expectations
              /\ PostFrequency(e, f, m).next.online = e.next.online
              /\ PostFrequency(e, f, m).retries = 0 =>
                   PostFrequency(e, f, m) = e /\ e.next.rx = f /\ m \in {UNK, e.next.mode}
         /\ \A f \in Freqs \cup {NoFreq} :
              /\ PostTxFrequency(e, f) \in Expectations
              /\ PostTxFrequency(e, f).next.online = e.next.online
              /\ PostTxFrequency(e, f).retries = 0 => PostTxFrequency(e, f) = e /\ e.next.tx = f
<1>1. PollsToStabilize \in 0..PollsToStabilize /\ PollsToStabilize # 0
  BY BoundAssumption
<1>2. e.next \in States /\ e.retries \in 0..PollsToStabilize
  BY DEF Expectations
<1>3. ASSUME NEW f \in Freqs, NEW m \in Modes \cup {UNK}
      PROVE  /\ PostFrequency(e, f, m) \in Expectations
             /\ PostFrequency(e, f, m).next.online = e.next.online
             /\ PostFrequency(e, f, m).retries = 0 =>
                  PostFrequency(e, f, m) = e /\ e.next.rx = f /\ m \in {UNK, e.next.mode}
  BY <1>1, <1>2 DEF PostFrequency, Expecting, Expectations, States
<1>4. ASSUME NEW f \in Freqs \cup {NoFreq}
      PROVE  /\ PostTxFrequency(e, f) \in Expectations
             /\ PostTxFrequency(e, f).next.online = e.next.online
             /\ PostTxFrequency(e, f).retries = 0 => PostTxFrequency(e, f) = e /\ e.next.tx = f
  BY <1>1, <1>2 DEF PostTxFrequency, Expecting, Expectations, States, SplitOf, Splits
<1> QED BY <1>3, <1>4

\* What a poll reads is a state, of the connection that was polled.
LEMMA Polled ==
  ASSUME TypeOK
  PROVE  PollOf(actual) \in States /\ PollOf(actual).online = actual.online
<1>1. /\ rig.rx \in Freqs /\ rig.tx \in Freqs /\ rig.mode \in Modes
      /\ rig.split \in Splits /\ rig.ptt \in BOOLEAN
  BY DEF TypeOK, Splits
<1>2. actual \in States
  BY DEF TypeOK
<1> DEFINE receiving == ~actual.ptt \/ actual.split # "on"
           rx == IF ~receiving THEN actual.rx ELSE IF lag > 0 THEN Garbled ELSE rig.rx
           tx == IF actual.split = "on" THEN rig.tx ELSE actual.tx
           mode == IF receiving THEN rig.mode ELSE actual.mode
<1>3. PollOf(actual) =
        [actual EXCEPT !.rx = rx, !.tx = tx, !.mode = mode, !.split = rig.split, !.ptt = rig.ptt]
  BY DEF PollOf
<1>4. rx \in Freqs \cup {NoFreq, Garbled}
  BY <1>1, <1>2 DEF States
<1>5. tx \in Freqs \cup Bogus \cup {NoFreq} /\ mode \in Modes \cup {UNK}
  BY <1>1, <1>2 DEF States
<1> HIDE DEF receiving, rx, tx, mode
<1> QED BY <1>1, <1>2, <1>3, <1>4, <1>5 DEF States

\* A slot that sets a frequency sets it to one that a rig has.
LEMMA Asked ==
  ASSUME Typed
  PROVE  /\ SetsRx => cmd.s.rx \in Freqs
         /\ SetsTx => cmd.s.tx \in Freqs \cup {NoFreq}
         /\ cmd.s.mode \in Modes \cup {UNK} /\ cmd.s.ptt \in BOOLEAN
<1>1. cmd.s \in States /\ cmd.s.rx # Garbled
  BY DEF Typed, TypeOK
<1>2. cmd.s.rx \in Freqs \cup {NoFreq, Garbled} /\ cmd.s.tx \in Freqs \cup Bogus \cup {NoFreq}
  BY <1>1 DEF States
<1>3. cmd.s.mode \in Modes \cup {UNK} /\ cmd.s.ptt \in BOOLEAN
  BY <1>1 DEF States
<1>4. SetsRx => cmd.s.rx \in Freqs
  BY <1>1, <1>2 DEF SetsRx
<1>5. SetsTx => cmd.s.tx \in Freqs \cup {NoFreq}
  BY <1>2 DEF SetsTx
<1> QED BY <1>3, <1>4, <1>5

\* What a shutdown leaves, wherever it gives up.
LEMMA ShutDown ==
  ASSUME TypeOK, NEW cut \in {"none", "ptt", "split"}
  PROVE  /\ ShutdownActual(cut) \in States /\ ~ShutdownActual(cut).online
         /\ ShutdownExpect(cut) \in Expectations
         /\ ShutdownExpect(cut).next.online = expect.next.online
         /\ ShutdownExpect(cut).retries = 0 => ShutdownExpect(cut) = expect
         /\ ShutdownRig(cut) \in Rigs
<1>1. actual \in States /\ requested \in States /\ expect \in Expectations /\ rig \in Rigs
  BY DEF TypeOK, Expectations, Rigs
<1>2. ShutdownActual(cut) \in States /\ ~ShutdownActual(cut).online
  BY <1>1 DEF ShutdownActual, States, Splits, NoFreq
<1>3. /\ PostPtt(expect, FALSE) \in Expectations
      /\ PostPtt(expect, FALSE).next.online = expect.next.online
      /\ PostPtt(expect, FALSE).retries = 0 => PostPtt(expect, FALSE) = expect
  BY <1>1, Posted
<1>4. ASSUME NEW e \in Expectations
      PROVE  /\ PostTxFrequency(e, NoFreq) \in Expectations
             /\ PostTxFrequency(e, NoFreq).next.online = e.next.online
             /\ PostTxFrequency(e, NoFreq).retries = 0 => PostTxFrequency(e, NoFreq) = e
  BY PostedFrequency
<1>5. /\ ShutdownExpect(cut) \in Expectations
      /\ ShutdownExpect(cut).next.online = expect.next.online
      /\ ShutdownExpect(cut).retries = 0 => ShutdownExpect(cut) = expect
  BY <1>1, <1>3, <1>4 DEF ShutdownExpect
<1>6. ShutdownRig(cut) \in Rigs
  BY <1>1 DEF ShutdownRig, Rigs
<1> QED BY <1>2, <1>5, <1>6

-----------------------------------------------------------------------------
\* Types

LEMMA TypesAtStart == Init => Typed
<1> SUFFICES ASSUME Init PROVE Typed
  OBVIOUS
<1>1. Blank \in States /\ Blank.rx # Garbled
  BY FrequencyAssumption DEF Blank, States, NoFreq, Splits
<1>2. cmd \in Calls /\ cmd.s.rx # Garbled
  BY <1>1 DEF Init, Idle, Calls
<1>3. expect \in Expectations
  BY <1>1, BoundAssumption DEF Init, Expectations
<1>4. rig \in Rigs
  BY DEF Init, Rigs
<1>5. lag \in 0..MaxLag
  BY BoundAssumption DEF Init
<1> QED
  BY <1>1, <1>2, <1>3, <1>4, <1>5 DEF Init, Typed, TypeOK, Lines, Calls, Expectations, Rigs

LEMMA Typing == Typed /\ [Next]_vars => Typed'
<1> SUFFICES ASSUME Typed, [Next]_vars PROVE Typed'
  OBVIOUS
<1>1. TypeOK /\ cmd.s.rx # Garbled
  BY DEF Typed
<1>2. /\ cmd \in Calls /\ requested \in States /\ actual \in States /\ last \in States
      /\ expect \in Expectations /\ last_signalled \in States /\ rig \in Rigs
  BY <1>1 DEF TypeOK, Calls, Expectations, Rigs
<1>3. Blank \in States /\ Blank.rx # Garbled /\ Idle \in Calls
  BY FrequencyAssumption DEF Blank, States, NoFreq, Splits, Idle, Calls
<1>4. ASSUME NEW slot \in {"start", "set", "stop"}, NEW s \in States, s.rx # Garbled,
             Call(slot, s), pc' \in Lines, sets' \in Nat, starts' \in Nat
      PROVE  Typed'
  <2>1. cmd' \in Calls /\ cmd'.s.rx # Garbled
    BY <1>1, <1>4 DEF TypeOK, Call, Calls
  <2>2. UNCHANGED <<requested, actual, last, last_sequence_number, expect, last_signalled,
                    poll_timer, open, rig, lag, unkeyFailed, turns, faults>>
    BY <1>4 DEF Call, baseVars, pollVars, rigVars
  <2> QED BY <1>1, <1>4, <2>1, <2>2 DEF Typed, TypeOK, Calls
<1>5. CASE CallStart
  BY <1>1, <1>3, <1>4, <1>5 DEF CallStart, Lines, TypeOK
<1>6. CASE CallSet
  <2>1. PICK s \in Requests : Call("set", s) /\ pc' \in Lines /\ starts' \in Nat
    BY <1>1, <1>6 DEF CallSet, Lines, TypeOK
  <2>2. sets' \in Nat
    BY <1>1, <1>6 DEF CallSet, TypeOK
  <2> QED BY <1>4, <2>1, <2>2, RequestTypes
<1>7. CASE CallStop
  BY <1>1, <1>3, <1>4, <1>7 DEF CallStop, Lines, TypeOK
<1>8. CASE Shutdown
  <2>1. PICK cut \in {"none", "ptt", "split"} :
          /\ actual' = ShutdownActual(cut) /\ expect' = ShutdownExpect(cut)
          /\ rig' = ShutdownRig(cut) /\ unkeyFailed' = (rig'.ptt /\ (unkeyFailed \/ cut = "ptt"))
          /\ faults' \in Nat
    BY <1>1, <1>8 DEF Shutdown, Fault, TypeOK
  <2>2. actual' \in States /\ expect' \in Expectations /\ rig' \in Rigs
    BY <1>1, <2>1, ShutDown
  <2>3. requested' \in States
    BY <1>2, <1>8 DEF Shutdown, States
  <2>4. last' \in States
    BY <1>2, <1>8, <2>2 DEF Shutdown
  <2>5. cmd' \in Calls /\ cmd'.s.rx # Garbled
    BY <1>1, <1>2, <1>3, <1>8 DEF Shutdown, Idle
  <2>6. pc' \in Lines /\ poll_timer' \in BOOLEAN /\ open' \in BOOLEAN
    BY <1>8 DEF Shutdown, Lines, StopTimer
  <2>7. lag' \in 0..MaxLag
    BY <1>8, BoundAssumption DEF Shutdown
  <2>8. unkeyFailed' \in BOOLEAN
    BY <2>1
  <2>9. UNCHANGED <<last_sequence_number, last_signalled, sets, starts, turns>>
    BY <1>8 DEF Shutdown
  <2> QED
    BY <1>1, <2>1, <2>2, <2>3, <2>4, <2>5, <2>6, <2>7, <2>8, <2>9
    DEF Typed, TypeOK, Calls, Expectations, Rigs
<1>9. CASE Startup
  <2>1. PollOf(actual) \in States
    BY <1>1, Polled
  <2>2. actual' \in States
    BY <1>9, <2>1 DEF Startup, States
  <2>3. requested' \in States
    BY <1>2, <1>9, <2>2 DEF Startup, States
  <2>4. expect' \in Expectations
    BY <1>2, <1>9, Posted DEF Startup
  <2>5. pc' \in Lines /\ poll_timer' \in BOOLEAN /\ open' \in BOOLEAN
    BY <1>9 DEF Startup, Lines
  <2>6. UNCHANGED <<cmd, last, last_sequence_number, last_signalled, rig, lag, unkeyFailed,
                    sets, starts, turns, faults>>
    BY <1>9 DEF Startup, counts
  <2> QED
    BY <1>1, <2>2, <2>3, <2>4, <2>5, <2>6 DEF Typed, TypeOK, Expectations
<1>10. CASE Unkey
  <2>1. rig' \in Rigs /\ actual' \in States
    BY <1>2, <1>10 DEF Unkey, Rigs, States
  <2>2. expect' \in Expectations
    BY <1>2, <1>10, Posted DEF Unkey
  <2>3. pc' \in Lines /\ unkeyFailed' \in BOOLEAN
    BY <1>10 DEF Unkey, Line, Lines
  <2>4. UNCHANGED <<cmd, requested, last, last_sequence_number, last_signalled, poll_timer,
                    open, lag, sets, starts, turns, faults>>
    BY <1>10 DEF Unkey, counts
  <2> QED BY <1>1, <2>1, <2>2, <2>3, <2>4 DEF Typed, TypeOK, Expectations, Rigs
<1>11. ASSUME ChangesOver PROVE lag' \in 0..MaxLag
  BY <1>1, <1>11, BoundAssumption DEF ChangesOver, TypeOK
<1>12. CASE SetFrequency
  <2>1. cmd.s.rx \in Freqs /\ cmd.s.mode \in Modes \cup {UNK}
    BY <1>12, Asked DEF SetFrequency
  <2>2. rig' \in Rigs /\ actual' \in States
    BY <1>2, <1>12, <2>1 DEF SetFrequency, Rigs, States
  <2>3. requested' \in States
    BY <1>2, <1>12, <2>1, <2>2 DEF SetFrequency, States
  <2>4. expect' \in Expectations
    BY <1>2, <1>12, <2>1, PostedFrequency DEF SetFrequency
  <2>5. pc' \in Lines /\ lag' \in 0..MaxLag
    BY <1>11, <1>12 DEF SetFrequency, Line, Lines
  <2>6. UNCHANGED <<cmd, last, last_sequence_number, last_signalled, poll_timer, open,
                    unkeyFailed, sets, starts, turns, faults>>
    BY <1>12 DEF SetFrequency, counts
  <2> QED BY <1>1, <2>2, <2>3, <2>4, <2>5, <2>6 DEF Typed, TypeOK, Expectations, Rigs
<1>13. CASE SetTxFrequency
  <2>1. cmd.s.tx \in Freqs \cup {NoFreq} /\ cmd.s.mode \in Modes \cup {UNK}
    BY <1>13, Asked DEF SetTxFrequency
  <2>2. SplitOf(cmd.s.tx) \in {"on", "off"}
    BY DEF SplitOf
  <2>3. rig' \in Rigs
    BY <1>2, <1>13, <2>1, <2>2 DEF SetTxFrequency, Rigs
  <2>4. actual' \in States /\ requested' \in States
    BY <1>2, <1>13, <2>1, <2>2 DEF SetTxFrequency, States, Splits
  <2>5. expect' \in Expectations
    BY <1>2, <1>13, <2>1, PostedFrequency DEF SetTxFrequency
  <2>6. pc' \in Lines /\ lag' \in 0..MaxLag
    BY <1>11, <1>13 DEF SetTxFrequency, Line, Lines
  <2>7. UNCHANGED <<cmd, last, last_sequence_number, last_signalled, poll_timer, open,
                    unkeyFailed, sets, starts, turns, faults>>
    BY <1>13 DEF SetTxFrequency, counts
  <2> QED BY <1>1, <2>3, <2>4, <2>5, <2>6, <2>7 DEF Typed, TypeOK, Expectations, Rigs
<1>14. CASE Key
  <2>1. rig' \in Rigs /\ actual' \in States
    BY <1>2, <1>14 DEF Key, Rigs, States
  <2>2. expect' \in Expectations
    BY <1>2, <1>14, Posted DEF Key
  <2>3. pc' \in Lines
    BY <1>14 DEF Key, Line, Lines
  <2>4. UNCHANGED <<cmd, requested, last, last_sequence_number, last_signalled, poll_timer,
                    open, lag, unkeyFailed, sets, starts, turns, faults>>
    BY <1>14 DEF Key, counts
  <2> QED BY <1>1, <2>1, <2>2, <2>3, <2>4 DEF Typed, TypeOK, Expectations, Rigs
<1>15. CASE End
  <2>1. requested' \in States /\ last' \in States /\ cmd' \in Calls /\ cmd'.s.rx # Garbled
    BY <1>2, <1>3, <1>15 DEF End, States, Idle
  <2>2. pc' \in Lines /\ last_sequence_number' \in Nat
    BY <1>2, <1>15 DEF End, Line, Lines, Calls
  <2>3. UNCHANGED <<actual, expect, last_signalled, poll_timer, open, rig, lag, unkeyFailed,
                    sets, starts, turns, faults>>
    BY <1>15 DEF End, pollVars, rigVars, counts
  <2> QED BY <1>1, <2>1, <2>2, <2>3 DEF Typed, TypeOK, Calls
<1>16. ASSUME NEW here \in Lines, NEW next \in Lines, NEW needed, Skip(here, next, needed)
       PROVE  Typed'
  <2>1. pc' \in Lines
    BY <1>16 DEF Skip, Line
  <2>2. UNCHANGED <<cmd, requested, actual, last, last_sequence_number, expect,
                    last_signalled, poll_timer, open, rig, lag, unkeyFailed, sets, starts,
                    turns, faults>>
    BY <1>16 DEF Skip, baseVars, pollVars, rigVars, counts
  <2> QED BY <1>1, <2>1, <2>2 DEF Typed, TypeOK
<1>17. CASE Throw
  <2>1. rig' \in Rigs
    BY <1>2, <1>17 DEF Throw, Rigs
  <2>2. pc' \in Lines /\ last' \in States /\ faults' \in Nat
    BY <1>1, <1>17 DEF Throw, Lines, Fault, TypeOK
  <2>3. UNCHANGED <<cmd, requested, actual, last_sequence_number, expect, last_signalled,
                    poll_timer, open, lag, unkeyFailed, sets, starts, turns>>
    BY <1>17 DEF Throw, pollVars
  <2> QED BY <1>1, <2>1, <2>2, <2>3 DEF Typed, TypeOK, Rigs
<1>18. CASE Poll
  <2>1. actual' \in States
    BY <1>1, <1>18, Polled DEF Poll
  <2>2. requested' \in States
    BY <1>2, <1>18, <2>1 DEF Poll, States
  <2>3. lag' \in 0..MaxLag
    <3>1. lag \in 0..MaxLag
      BY <1>1 DEF TypeOK
    <3>2. lag' = IF lag > 0 THEN lag - 1 ELSE 0
      BY <1>18 DEF Poll
    <3> QED BY <3>1, <3>2, BoundAssumption
  <2>4. Waited \in Expectations
    BY <1>2, BoundAssumption DEF Waited, Expectations
  <2>5. expect' \in Expectations /\ last_signalled' \in States /\ last' \in States
    BY <1>2, <1>18, <2>1, <2>4, BoundAssumption DEF Poll, Expectations
  <2>6. UNCHANGED <<pc, cmd, last_sequence_number, poll_timer, open, rig, unkeyFailed,
                    sets, starts, turns, faults>>
    BY <1>18 DEF Poll, slotVars, counts
  <2> QED BY <1>1, <2>1, <2>2, <2>3, <2>5, <2>6 DEF Typed, TypeOK, Expectations
<1>19. CASE PollThrows
  <2>1. pc' \in Lines /\ faults' \in Nat
    BY <1>1, <1>19 DEF PollThrows, Lines, Fault, TypeOK
  <2>2. UNCHANGED <<cmd, requested, actual, last, last_sequence_number, expect,
                    last_signalled, poll_timer, open, rig, lag, unkeyFailed, sets, starts, turns>>
    BY <1>19 DEF PollThrows, baseVars, pollVars, rigVars
  <2> QED BY <1>1, <2>1, <2>2 DEF Typed, TypeOK
<1>20. CASE Turn
  <2>1. rig' \in Rigs
    BY <1>2, <1>20 DEF Turn, Rigs
  <2>2. unkeyFailed' \in BOOLEAN
    BY <1>20 DEF Turn
  <2>3. turns' \in Nat
    <3>1. turns \in Nat
      BY <1>1 DEF TypeOK
    <3>2. turns' = turns + 1
      BY <1>20 DEF Turn
    <3> QED BY <3>1, <3>2
  <2>4. UNCHANGED <<pc, cmd, requested, actual, last, last_sequence_number, expect,
                    last_signalled, poll_timer, open, lag, sets, starts, faults>>
    BY <1>20 DEF Turn, slotVars, baseVars, pollVars
  <2> QED BY <1>1, <2>1, <2>2, <2>3, <2>4 DEF Typed, TypeOK, Rigs
<1>21. CASE UNCHANGED vars
  <2>1. UNCHANGED <<pc, cmd, requested, actual, last, last_sequence_number, expect,
                    last_signalled, poll_timer, open, rig, lag, unkeyFailed, sets, starts,
                    turns, faults>>
    BY <1>21 DEF vars, slotVars, baseVars, pollVars, rigVars, counts
  <2> QED BY <1>1, <2>1 DEF Typed, TypeOK
<1>22. CASE Step
  <2>1. /\ "unkey" \in Lines /\ "rx" \in Lines /\ "tx" \in Lines /\ "key" \in Lines
        /\ "end" \in Lines
    BY DEF Lines
  <2> QED
    BY <1>8, <1>9, <1>10, <1>12, <1>13, <1>14, <1>15, <1>16, <1>22, <2>1 DEF Step
<1> QED
  BY <1>5, <1>6, <1>7, <1>17, <1>18, <1>19, <1>20, <1>21, <1>22 DEF Next

-----------------------------------------------------------------------------
\* The inductive invariant

\* Skip for any of the lines of set: nothing but the line changes.
LEMMA Skipped ==
  ASSUME NEW here, NEW next, NEW needed, Skip(here, next, needed)
  PROVE  /\ pc = here /\ pc' = next /\ ~needed
         /\ UNCHANGED <<cmd, requested, actual, last, expect, last_signalled, poll_timer, open,
                        rig, unkeyFailed, starts>>
BY DEF Skip, Line, baseVars, pollVars, rigVars, counts

\* What a call leaves alone, and the line it starts at.
LEMMA Called ==
  ASSUME NEW slot, NEW s, Call(slot, s)
  PROVE  /\ pc = "idle" /\ cmd'.slot = slot /\ cmd'.s = s
         /\ UNCHANGED <<requested, actual, last, expect, last_signalled, poll_timer, open, rig,
                        unkeyFailed>>
BY DEF Call, baseVars, pollVars, rigVars

LEMMA OnKept == Typed /\ On /\ [Next]_vars => On'
<1> SUFFICES ASSUME Typed, On, [Next]_vars PROVE On'
  OBVIOUS
<1>1. TypeOK
  BY DEF Typed
<1>2. /\ requested \in States /\ actual \in States /\ open \in BOOLEAN
  BY <1>1 DEF TypeOK
<1>3. CASE CallStart \/ CallStop
  <2>1. /\ pc' = "shutdown"
        /\ UNCHANGED <<requested, actual, last, expect, last_signalled, poll_timer, open, rig,
                       unkeyFailed>>
    BY <1>3, Called DEF CallStart, CallStop
  <2> QED BY <2>1 DEF On
<1>4. CASE CallSet
  <2>1. PICK s \in Requests :
          /\ Call("set", s)
          /\ pc' = IF s.online # requested.online THEN "shutdown"
                   ELSE IF s.online THEN "unkey" ELSE "end"
    BY <1>4 DEF CallSet
  <2>2. UNCHANGED <<requested, actual, poll_timer, open>>
    BY <2>1, Called
  <2>3. pc' \in {"unkey", "rx", "tx", "key"} => open
    BY <2>1 DEF On
  <2> QED BY <2>2, <2>3 DEF On
<1>5. CASE Shutdown
  <2>1. PICK cut \in {"none", "ptt", "split"} : actual' = ShutdownActual(cut)
    BY <1>5 DEF Shutdown
  <2>2. ~actual'.online
    BY <1>1, <2>1, ShutDown
  <2>3. ~requested'.online
    BY <1>2, <1>5 DEF Shutdown, States
  <2>4. actual'.online = FALSE /\ requested'.online = FALSE
    <3>1. actual' \in States /\ requested' \in States
      BY <1>1, Typing DEF Typed, TypeOK
    <3> QED BY <2>2, <2>3, <3>1 DEF States
  <2>5. open' = FALSE /\ poll_timer' = FALSE /\ pc' \in {"idle", "startup", "end"}
    BY <1>5 DEF Shutdown, StopTimer
  <2> QED BY <2>4, <2>5 DEF On
<1>6. CASE Startup
  <2>1. PollOf(actual) \in States
    BY <1>1, Polled
  <2>2. actual'.online = TRUE /\ requested'.online = TRUE
    BY <1>2, <1>6, <2>1 DEF Startup, States
  <2>3. open' = TRUE /\ poll_timer' = TRUE
    BY <1>6 DEF Startup
  <2> QED BY <2>2, <2>3 DEF On
<1>7. CASE Unkey
  <2>1. actual'.online = actual.online
    BY <1>2, <1>7 DEF Unkey, States
  <2>2. UNCHANGED <<requested, poll_timer, open>> /\ open
    BY <1>7 DEF Unkey, Line, On
  <2> QED BY <2>1, <2>2 DEF On
<1>8. CASE SetFrequency
  <2>1. actual'.online = actual.online /\ requested'.online = requested.online
    BY <1>2, <1>8 DEF SetFrequency, States
  <2>2. UNCHANGED <<poll_timer, open>> /\ open
    BY <1>8 DEF SetFrequency, Line, On
  <2> QED BY <2>1, <2>2 DEF On
<1>9. CASE SetTxFrequency
  <2>1. actual'.online = actual.online /\ requested'.online = requested.online
    BY <1>2, <1>9 DEF SetTxFrequency, States
  <2>2. UNCHANGED <<poll_timer, open>> /\ open
    BY <1>9 DEF SetTxFrequency, Line, On
  <2> QED BY <2>1, <2>2 DEF On
<1>10. CASE Key
  <2>1. actual'.online = actual.online
    BY <1>2, <1>10 DEF Key, States
  <2>2. UNCHANGED <<requested, poll_timer, open>> /\ open
    BY <1>10 DEF Key, Line, On
  <2> QED BY <2>1, <2>2 DEF On
<1>11. CASE End
  <2>1. requested'.online = requested.online /\ UNCHANGED <<actual, poll_timer, open>>
    BY <1>2, <1>11 DEF End, States, pollVars, rigVars
  <2>2. pc' = "idle"
    BY <1>11 DEF End, Line
  <2> QED BY <2>1, <2>2 DEF On
<1>12. ASSUME NEW here \in {"unkey", "rx", "tx", "key"}, NEW next, NEW needed,
              Skip(here, next, needed)
       PROVE  On'
  <2>1. pc = here /\ UNCHANGED <<requested, actual, poll_timer, open>>
    BY <1>12, Skipped
  <2> QED BY <2>1 DEF On
<1>13. CASE Throw
  <2>1. pc' = "offline" /\ UNCHANGED <<requested, actual, poll_timer, open>>
    BY <1>13 DEF Throw, pollVars
  <2> QED BY <2>1 DEF On
<1>14. CASE Poll
  <2>1. PollOf(actual) \in States /\ actual'.online = actual.online
    BY <1>1, <1>14, Polled DEF Poll
  <2>2. requested'.online = requested.online
    BY <1>2, <1>14 DEF Poll, States
  <2>3. UNCHANGED <<pc, poll_timer, open>>
    BY <1>14 DEF Poll, slotVars
  <2> QED BY <2>1, <2>2, <2>3 DEF On
<1>15. CASE PollThrows
  <2>1. pc' = "offline" /\ UNCHANGED <<requested, actual, poll_timer, open>>
    BY <1>15 DEF PollThrows, baseVars, pollVars, rigVars
  <2> QED BY <2>1 DEF On
<1>16. CASE Turn
  BY <1>16 DEF Turn, slotVars, baseVars, pollVars, On
<1>17. CASE UNCHANGED vars
  BY <1>17 DEF vars, slotVars, baseVars, pollVars, rigVars, On
<1>18. CASE Step
  BY <1>5, <1>6, <1>7, <1>8, <1>9, <1>10, <1>11, <1>12, <1>18 DEF Step
<1> QED
  BY <1>3, <1>4, <1>13, <1>14, <1>15, <1>16, <1>17, <1>18 DEF Next

LEMMA UnkeyedKept == Typed /\ On /\ UnkeyedWhenClosed /\ [Next]_vars => UnkeyedWhenClosed'
<1> SUFFICES ASSUME Typed, On, UnkeyedWhenClosed, [Next]_vars PROVE UnkeyedWhenClosed'
  OBVIOUS
<1>1. rig \in Rigs /\ open \in BOOLEAN /\ unkeyFailed \in BOOLEAN
  BY DEF Typed, TypeOK, Rigs
<1>2. CASE CallStart \/ CallSet \/ CallStop
  BY <1>2, Called DEF CallStart, CallSet, CallStop, UnkeyedWhenClosed
<1>3. CASE Shutdown
  <2>1. PICK cut \in {"none", "ptt", "split"} :
          /\ rig' = ShutdownRig(cut)
          /\ unkeyFailed' = (rig'.ptt /\ (unkeyFailed \/ cut = "ptt"))
    BY <1>3 DEF Shutdown
  <2>2. CASE ~requested.online
    <3>1. ~open /\ rig' = rig
      BY <2>1, <2>2 DEF On, ShutdownRig
    <3> QED BY <2>1, <3>1 DEF UnkeyedWhenClosed
  <2>3. CASE cut = "ptt"
    BY <2>1, <2>3 DEF UnkeyedWhenClosed
  <2>4. CASE requested.online /\ cut # "ptt"
    <3>1. rig'.ptt = FALSE
      BY <1>1, <2>1, <2>4 DEF ShutdownRig, Rigs
    <3> QED BY <3>1 DEF UnkeyedWhenClosed
  <2> QED BY <2>2, <2>3, <2>4
<1>4. CASE Startup
  BY <1>4 DEF Startup, UnkeyedWhenClosed
<1>5. ASSUME open, UNCHANGED open PROVE UnkeyedWhenClosed'
  BY <1>5 DEF UnkeyedWhenClosed
<1>6. CASE Unkey \/ SetFrequency \/ SetTxFrequency \/ Key
  <2>1. pc \in {"unkey", "rx", "tx", "key"} /\ UNCHANGED open
    BY <1>6 DEF Unkey, SetFrequency, SetTxFrequency, Key, Line
  <2> QED BY <1>5, <2>1 DEF On
<1>7. CASE End
  BY <1>7 DEF End, rigVars, UnkeyedWhenClosed
<1>8. ASSUME NEW here, NEW next, NEW needed, Skip(here, next, needed)
      PROVE  UnkeyedWhenClosed'
  BY <1>8, Skipped DEF UnkeyedWhenClosed
<1>9. CASE Throw
  <2>1. CASE UNCHANGED rig
    BY <1>9, <2>1 DEF Throw, UnkeyedWhenClosed
  <2>2. CASE pc = "key"
    BY <1>5, <1>9, <2>2 DEF Throw, On
  <2> QED BY <1>9, <2>1, <2>2 DEF Throw
<1>10. CASE Poll
  BY <1>10 DEF Poll, UnkeyedWhenClosed
<1>11. CASE PollThrows
  BY <1>11 DEF PollThrows, rigVars, UnkeyedWhenClosed
<1>12. CASE Turn
  <2>1. rig'.ptt => rig.ptt
    BY <1>1, <1>12 DEF Turn, Rigs
  <2>2. open' = open /\ unkeyFailed' = (unkeyFailed /\ rig'.ptt)
    BY <1>12 DEF Turn
  <2> QED BY <2>1, <2>2 DEF UnkeyedWhenClosed
<1>13. CASE UNCHANGED vars
  BY <1>13 DEF vars, rigVars, UnkeyedWhenClosed
<1>14. CASE Step
  BY <1>3, <1>4, <1>6, <1>7, <1>8, <1>14 DEF Step
<1> QED
  BY <1>2, <1>9, <1>10, <1>11, <1>12, <1>13, <1>14 DEF Next

LEMMA TxFrequencySetKept ==
  Typed /\ TxFrequencySet /\ [Next]_vars => TxFrequencySet'
<1> SUFFICES ASSUME Typed, TxFrequencySet, [Next]_vars, pc' = "key"
             PROVE  (PttOn /\ cmd.s.tx \in Freqs => rig.tx = cmd.s.tx /\ rig.split = "on")'
  BY DEF TxFrequencySet
<1>1. rig \in Rigs /\ requested \in States
  BY DEF Typed, TypeOK, Rigs
<1>2. CASE SetTxFrequency
  <2>1. /\ rig' = [rig EXCEPT !.tx = IF cmd.s.tx = NoFreq THEN @ ELSE cmd.s.tx,
                              !.split = SplitOf(cmd.s.tx),
                              !.txMode = IF cmd.s.tx = NoFreq \/ cmd.s.mode = UNK THEN @
                                         ELSE cmd.s.mode]
        /\ cmd' = cmd
    BY <1>2 DEF SetTxFrequency
  <2>2. ASSUME cmd.s.tx \in Freqs PROVE rig'.tx = cmd.s.tx /\ rig'.split = "on"
    <3>1. cmd.s.tx # NoFreq
      BY <2>2, FrequencyAssumption DEF NoFreq
    <3> QED BY <1>1, <2>1, <3>1 DEF Rigs, SplitOf
  <2> QED BY <2>1, <2>2
<1>3. CASE Skip("tx", "key", SetsTx)
  <2>1. ~SetsTx /\ UNCHANGED <<cmd, requested, rig>>
    BY <1>3, Skipped
  <2>2. cmd.s.tx \in Freqs => cmd.s.tx \notin Bogus /\ cmd.s.tx # NoFreq
    BY FrequencyAssumption DEF NoFreq
  <2>3. ~(PttOn /\ cmd.s.tx \in Freqs)
    BY <2>1, <2>2 DEF SetsTx
  <2> QED BY <2>1, <2>3 DEF PttOn
<1>4. CASE UNCHANGED vars
  <2>1. UNCHANGED <<pc, cmd, requested, rig>>
    BY <1>4 DEF vars, slotVars, baseVars, rigVars
  <2> QED BY <2>1 DEF TxFrequencySet, PttOn
<1>5. ASSUME CallStart \/ CallSet \/ CallStop \/ Throw \/ Poll \/ PollThrows \/ Turn
      PROVE  FALSE
  <2>1. CASE CallStart \/ CallStop
    BY <2>1 DEF CallStart, CallStop
  <2>2. CASE CallSet
    BY <2>2 DEF CallSet
  <2>3. CASE Throw \/ PollThrows
    BY <2>3 DEF Throw, PollThrows
  <2>4. CASE Poll \/ Turn
    BY <2>4 DEF Poll, Turn, slotVars
  <2> QED BY <1>5, <2>1, <2>2, <2>3, <2>4
<1>6. ASSUME Shutdown \/ Startup \/ Unkey \/ SetFrequency \/ Key \/ End PROVE FALSE
  BY <1>6 DEF Shutdown, Startup, Unkey, SetFrequency, Key, End, Line
<1>7. ASSUME \/ Skip("unkey", "rx", PttOff) \/ Skip("rx", "tx", SetsRx)
             \/ Skip("key", "end", PttOn)
      PROVE  FALSE
  BY <1>7, Skipped
<1> QED
  BY <1>2, <1>3, <1>4, <1>5, <1>6, <1>7 DEF Next, Step

LEMMA NotExpectedKept == Typed /\ On /\ NotExpected /\ [Next]_vars => NotExpected'
<1> SUFFICES ASSUME Typed, On, NotExpected, [Next]_vars PROVE NotExpected'
  OBVIOUS
<1>1. /\ TypeOK /\ expect \in Expectations /\ starts \in Nat /\ open \in BOOLEAN
      /\ requested \in States /\ cmd \in Calls
  BY DEF Typed, TypeOK, Expectations, Calls
<1>2. ASSUME UNCHANGED <<starts, open>>, Starting' => Starting,
             expect'.next.online = expect.next.online
      PROVE  NotExpected'
  BY <1>2 DEF NotExpected
<1>3. ASSUME open, UNCHANGED <<starts, open>>, ~Starting' PROVE NotExpected'
  BY <1>1, <1>3 DEF NotExpected
<1>4. ASSUME starts' = starts + 1, UNCHANGED <<open, expect>> PROVE NotExpected'
  <2>1. starts' >= 1 /\ (starts' <= 1 => starts = 0)
    BY <1>1, <1>4
  <2> QED BY <1>1, <1>4, <2>1 DEF NotExpected
<1>5. CASE CallStart
  <2>1. UNCHANGED <<open, expect>> /\ starts' = starts + 1
    BY <1>5, Called DEF CallStart
  <2> QED BY <1>4, <2>1
<1>6. CASE CallSet
  <2>1. PICK s \in Requests :
          /\ Call("set", s)
          /\ pc' = IF s.online # requested.online THEN "shutdown"
                   ELSE IF s.online THEN "unkey" ELSE "end"
          /\ starts' = IF s.online /\ ~requested.online THEN starts + 1 ELSE starts
    BY <1>6 DEF CallSet
  <2>2. cmd'.slot = "set" /\ cmd'.s = s /\ UNCHANGED <<open, expect>>
    BY <2>1, Called
  <2>3. CASE s.online /\ ~requested.online
    BY <1>4, <2>1, <2>2, <2>3
  <2>4. CASE ~(s.online /\ ~requested.online)
    <3>1. starts' = starts
      BY <2>1, <2>4
    <3>2. s \in States
      BY RequestTypes
    <3>3. pc' # "startup"
      BY <2>1
    <3>4. pc' = "shutdown" => ~s.online
      BY <1>1, <2>1, <2>4, <3>2 DEF States
    <3>5. ~Starting'
      BY <2>2, <3>3, <3>4 DEF Starting
    <3> QED BY <1>2, <2>2, <3>1, <3>5
  <2> QED BY <2>3, <2>4
<1>7. CASE CallStop
  <2>1. cmd'.slot = "stop" /\ UNCHANGED <<open, expect>>
    BY <1>7, Called DEF CallStop
  <2>2. pc' = "shutdown" /\ starts' = starts
    BY <1>7 DEF CallStop
  <2> QED BY <1>2, <2>1, <2>2 DEF Starting
<1>8. CASE Shutdown
  <2>1. PICK cut \in {"none", "ptt", "split"} : expect' = ShutdownExpect(cut)
    BY <1>8 DEF Shutdown
  <2>2. expect'.next.online = expect.next.online
    BY <1>1, <2>1, ShutDown
  <2>3. starts' = starts /\ open' = FALSE
    BY <1>8 DEF Shutdown
  <2>4. pc' = "startup" => pc = "shutdown" /\ cmd.slot # "stop" /\ (cmd.slot = "start" \/ cmd.s.online)
    BY <1>8 DEF Shutdown
  <2>5. pc' # "shutdown"
    BY <1>8 DEF Shutdown
  <2>6. Starting' => Starting
    BY <2>4, <2>5 DEF Starting
  <2> QED BY <2>2, <2>3, <2>6 DEF NotExpected
<1>9. CASE Startup
  <2>1. Starting /\ starts >= 1
    BY <1>9 DEF Startup, Starting, NotExpected
  <2>2. starts' = starts
    BY <1>9 DEF Startup, counts
  <2>3. ~Starting'
    BY <1>9 DEF Startup, Starting
  <2> QED BY <1>1, <2>1, <2>2, <2>3 DEF NotExpected
<1>10. CASE Unkey \/ SetFrequency \/ SetTxFrequency \/ Key
  <2>1. /\ pc \in {"unkey", "rx", "tx", "key"} /\ pc' \in {"rx", "tx", "key", "end"}
        /\ UNCHANGED <<open, starts>>
    BY <1>10 DEF Unkey, SetFrequency, SetTxFrequency, Key, Line, counts
  <2> QED BY <1>3, <2>1 DEF On, Starting
<1>11. CASE End
  <2>1. pc' = "idle" /\ UNCHANGED <<open, starts, expect>>
    BY <1>11 DEF End, Line, pollVars, rigVars, counts
  <2> QED BY <1>2, <2>1 DEF Starting
<1>12. ASSUME NEW here, NEW next \in {"rx", "tx", "key", "end"}, NEW needed,
              Skip(here, next, needed)
       PROVE  NotExpected'
  <2>1. pc' = next /\ UNCHANGED <<open, starts, expect>>
    BY <1>12, Skipped
  <2> QED BY <1>2, <2>1 DEF Starting
<1>13. CASE Throw \/ PollThrows
  <2>1. pc' = "offline" /\ UNCHANGED <<open, starts, expect>>
    BY <1>13 DEF Throw, PollThrows, pollVars, rigVars
  <2> QED BY <1>2, <2>1 DEF Starting
<1>14. CASE Poll
  <2>1. open /\ pc = "idle" /\ UNCHANGED <<pc, open, starts>>
    BY <1>14 DEF Poll, On, slotVars, counts
  <2> QED BY <1>3, <2>1 DEF Starting
<1>15. CASE Turn \/ UNCHANGED vars
  <2>1. UNCHANGED <<pc, cmd, open, starts, expect>>
    BY <1>15 DEF Turn, vars, slotVars, pollVars, rigVars, counts
  <2> QED BY <1>2, <2>1 DEF Starting
<1>16. CASE Step
  BY <1>8, <1>9, <1>10, <1>11, <1>12, <1>16 DEF Step
<1> QED
  BY <1>5, <1>6, <1>7, <1>13, <1>14, <1>15, <1>16 DEF Next

\* While no change is awaited and what was signalled has split as its Tx frequency
\* asks, what was read, expected and signalled are one state; ...
LEMMA SettledMeans ==
  ASSUME Settled, starts <= 1, expect.retries = 0
  PROVE  /\ expect.next = last_signalled
         /\ open /\ last_signalled.split = SplitOf(last_signalled.tx) =>
              actual = expect.next /\ (pc = "idle" => last = last_signalled)
BY DEF Settled

\* ... and a command that expects no change then changes nothing.
LEMMA SettledByCommand ==
  ASSUME Typed, Settled, open, starts' = starts, pc' # "idle",
         UNCHANGED <<open, last_signalled>>,
         expect'.retries = 0 => expect' = expect /\ (expect.next = actual
                                  /\ actual.split = SplitOf(actual.tx) => actual' = actual)
  PROVE  Settled'
<1> SUFFICES ASSUME starts <= 1, expect'.retries = 0
             PROVE  /\ expect'.next = last_signalled
                    /\ last_signalled.split = SplitOf(last_signalled.tx) =>
                         actual' = last_signalled
  BY DEF Settled
<1>1. expect' = expect
  OBVIOUS
<1>2. expect.next = last_signalled
  BY <1>1, SettledMeans
<1>3. ASSUME last_signalled.split = SplitOf(last_signalled.tx) PROVE actual' = last_signalled
  <2>1. actual = last_signalled
    BY <1>1, <1>3, SettledMeans
  <2> QED BY <1>2, <1>3, <2>1
<1> QED BY <1>1, <1>2, <1>3

LEMMA SettledKept ==
  Typed /\ On /\ NotExpected /\ Settled /\ [Next]_vars => Settled'
<1> SUFFICES ASSUME Typed, On, NotExpected, Settled, [Next]_vars PROVE Settled'
  OBVIOUS
<1>1. /\ TypeOK /\ expect \in Expectations /\ starts \in Nat /\ open \in BOOLEAN
      /\ actual \in States
  BY DEF Typed, TypeOK, Expectations
<1>2. ASSUME UNCHANGED <<expect, last_signalled, actual, open, starts>>, pc' # "idle"
      PROVE  Settled'
  BY <1>2 DEF Settled
<1>3. CASE CallStart \/ CallSet \/ CallStop
  <2>1. /\ starts' \in {starts, starts + 1} /\ pc' # "idle"
        /\ UNCHANGED <<expect, last_signalled, actual, open>>
    BY <1>3, Called DEF CallStart, CallSet, CallStop
  <2>2. starts' <= 1 => starts <= 1
    BY <1>1, <2>1
  <2> QED BY <2>1, <2>2 DEF Settled
<1>4. CASE Shutdown
  <2>1. PICK cut \in {"none", "ptt", "split"} : expect' = ShutdownExpect(cut)
    BY <1>4 DEF Shutdown
  <2>2. expect'.retries = 0 => expect' = expect
    BY <1>1, <2>1, ShutDown
  <2>3. open' = FALSE /\ UNCHANGED <<last_signalled, starts>>
    BY <1>4 DEF Shutdown
  <2> QED BY <2>2, <2>3 DEF Settled
<1>5. CASE Startup
  <2>1. Starting /\ expect' = PostStart(expect) /\ starts' = starts
    BY <1>5 DEF Startup, Starting, counts
  <2>2. expect'.retries = 0 => expect.next.online
    BY <1>1, <2>1, Posted
  <2> QED BY <2>1, <2>2 DEF Settled, NotExpected
<1>6. CASE Unkey
  <2>1. expect' = PostPtt(expect, FALSE) /\ actual' = [actual EXCEPT !.ptt = FALSE]
    BY <1>6 DEF Unkey
  <2>2. expect'.retries = 0 => expect' = expect /\ expect.next.ptt = FALSE
    BY <1>1, <2>1, Posted
  <2>3. actual.ptt = FALSE => actual' = actual
    BY <1>1, <2>1 DEF States
  <2>4. open /\ pc' # "idle" /\ UNCHANGED <<open, last_signalled, starts>>
    BY <1>6 DEF Unkey, Line, On, counts
  <2> QED BY <2>2, <2>3, <2>4, SettledByCommand
<1>7. CASE SetFrequency
  <2>1. /\ expect' = PostFrequency(expect, cmd.s.rx, cmd.s.mode)
        /\ actual' = [actual EXCEPT !.rx = cmd.s.rx,
                                    !.mode = IF cmd.s.mode = UNK THEN @ ELSE cmd.s.mode]
    BY <1>7 DEF SetFrequency
  <2>2. cmd.s.rx \in Freqs /\ cmd.s.mode \in Modes \cup {UNK}
    BY <1>7, Asked DEF SetFrequency
  <2>3. expect'.retries = 0 =>
          expect' = expect /\ expect.next.rx = cmd.s.rx /\ cmd.s.mode \in {UNK, expect.next.mode}
    BY <1>1, <2>1, <2>2, PostedFrequency
  <2>4. actual.rx = cmd.s.rx /\ cmd.s.mode \in {UNK, actual.mode} => actual' = actual
    BY <1>1, <2>1 DEF States
  <2>5. open /\ pc' # "idle" /\ UNCHANGED <<open, last_signalled, starts>>
    BY <1>7 DEF SetFrequency, Line, On, counts
  <2> QED BY <2>3, <2>4, <2>5, SettledByCommand
<1>8. CASE SetTxFrequency
  <2>1. /\ expect' = PostTxFrequency(expect, cmd.s.tx)
        /\ actual' = [actual EXCEPT !.tx = cmd.s.tx, !.split = SplitOf(cmd.s.tx)]
    BY <1>8 DEF SetTxFrequency
  <2>2. cmd.s.tx \in Freqs \cup {NoFreq}
    BY <1>8, Asked DEF SetTxFrequency
  <2>3. expect'.retries = 0 => expect' = expect /\ expect.next.tx = cmd.s.tx
    BY <1>1, <2>1, <2>2, PostedFrequency
  <2>4. actual.tx = cmd.s.tx /\ actual.split = SplitOf(actual.tx) => actual' = actual
    BY <1>1, <2>1 DEF States
  <2>5. open /\ pc' # "idle" /\ UNCHANGED <<open, last_signalled, starts>>
    BY <1>8 DEF SetTxFrequency, Line, On, counts
  <2> QED BY <2>3, <2>4, <2>5, SettledByCommand
<1>9. CASE Key
  <2>1. expect' = PostPtt(expect, TRUE) /\ actual' = [actual EXCEPT !.ptt = TRUE]
    BY <1>9 DEF Key
  <2>2. expect'.retries = 0 => expect' = expect /\ expect.next.ptt = TRUE
    BY <1>1, <2>1, Posted
  <2>3. actual.ptt = TRUE => actual' = actual
    BY <1>1, <2>1 DEF States
  <2>4. open /\ pc' # "idle" /\ UNCHANGED <<open, last_signalled, starts>>
    BY <1>9 DEF Key, Line, On, counts
  <2> QED BY <2>2, <2>3, <2>4, SettledByCommand
<1>10. CASE End
  <2>1. last' = actual /\ UNCHANGED <<expect, last_signalled, actual, open, starts>>
    BY <1>10 DEF End, pollVars, rigVars, counts
  <2> QED BY <2>1 DEF Settled
<1>11. ASSUME NEW here, NEW next \in {"rx", "tx", "key", "end"}, NEW needed,
              Skip(here, next, needed)
       PROVE  Settled'
  <2>1. pc' # "idle" /\ UNCHANGED <<expect, last_signalled, actual, open, starts>>
    BY <1>11, Skipped
  <2> QED BY <1>2, <2>1
<1>12. CASE Throw \/ PollThrows
  <2>1. pc' = "offline" /\ UNCHANGED <<expect, last_signalled, actual, open, starts>>
    BY <1>12 DEF Throw, PollThrows, baseVars, pollVars, rigVars
  <2> QED BY <1>2, <2>1
<1>13. CASE Poll
  <2>1. open /\ pc = "idle" /\ UNCHANGED <<pc, open, starts>>
    BY <1>13 DEF Poll, On, slotVars, counts
  <2>2. CASE PollSignals(actual')
    <3>1. expect' = [next |-> actual', retries |-> 0] /\ last_signalled' = actual' /\ last' = actual'
      BY <1>13, <2>2 DEF Poll
    <3> QED BY <2>1, <3>1 DEF Settled
  <2>3. CASE ~PollSignals(actual')
    <3>1. expect' = Waited /\ UNCHANGED <<last_signalled, last>>
      BY <1>13, <2>3 DEF Poll
    <3>2. expect.retries \in Nat /\ expect.retries # 1
      BY <1>1, <2>3, BoundAssumption DEF PollSignals, Expectations
    <3>3. expect'.next = expect.next /\ (expect'.retries = 0 => expect.retries = 0)
      BY <1>1, <3>1, <3>2 DEF Waited, Expectations
    <3>4. expect.retries = 0 => actual' = last_signalled
      BY <2>3 DEF PollSignals
    <3> QED BY <2>1, <3>1, <3>3, <3>4 DEF Settled
  <2> QED BY <2>2, <2>3
<1>14. CASE Turn \/ UNCHANGED vars
  <2>1. UNCHANGED <<pc, expect, last_signalled, actual, last, open, starts>>
    BY <1>14 DEF Turn, vars, slotVars, baseVars, pollVars, rigVars, counts
  <2> QED BY <2>1 DEF Settled
<1>15. CASE Step
  BY <1>4, <1>5, <1>6, <1>7, <1>8, <1>9, <1>10, <1>11, <1>15 DEF Step
<1> QED
  BY <1>3, <1>12, <1>13, <1>14, <1>15 DEF Next

LEMMA ToldKept ==
  Typed /\ On /\ Settled /\ ClientToldState /\ [Next]_vars => ClientToldState'
<1> SUFFICES ASSUME Typed, On, Settled, ClientToldState, [Next]_vars,
                    pc' = "idle", open', starts' <= 1, expect'.retries = 0, SplitAsAsked'
             PROVE  last' = actual'
  BY DEF ClientToldState
<1>1. /\ expect \in Expectations /\ starts \in Nat
  BY DEF Typed, TypeOK, Expectations
<1>2. CASE CallStart \/ CallStop \/ Throw \/ PollThrows
  BY <1>2 DEF CallStart, CallStop, Throw, PollThrows
<1>3. CASE CallSet
  BY <1>3 DEF CallSet
<1>4. CASE Shutdown
  BY <1>4 DEF Shutdown
<1>5. CASE Startup \/ Unkey \/ SetFrequency \/ SetTxFrequency \/ Key
  BY <1>5 DEF Startup, Unkey, SetFrequency, SetTxFrequency, Key, Line
<1>6. CASE End
  BY <1>6 DEF End
<1>7. ASSUME NEW here, NEW next \in {"rx", "tx", "key", "end"}, NEW needed,
             Skip(here, next, needed)
      PROVE  last' = actual'
  BY <1>7, Skipped
<1>8. CASE Poll
  <2>1. open /\ pc = "idle" /\ UNCHANGED <<pc, open, starts>>
    BY <1>8 DEF Poll, On, slotVars, counts
  <2>2. CASE PollSignals(actual')
    BY <1>8, <2>2 DEF Poll
  <2>3. CASE ~PollSignals(actual')
    <3>1. expect' = Waited /\ UNCHANGED <<last_signalled, last>>
      BY <1>8, <2>3 DEF Poll
    <3>2. expect.retries \in Nat /\ expect.retries # 1
      BY <1>1, <2>3, BoundAssumption DEF PollSignals, Expectations
    <3>3. expect.retries = 0
      BY <1>1, <3>1, <3>2 DEF Waited, Expectations
    <3>4. actual' = last_signalled
      BY <2>3, <3>3 DEF PollSignals
    <3>5. last_signalled.split = SplitOf(last_signalled.tx)
      BY <3>4 DEF SplitAsAsked
    <3>6. last = last_signalled
      BY <2>1, <3>3, <3>5, SettledMeans
    <3> QED BY <3>1, <3>4, <3>6
  <2> QED BY <2>2, <2>3
<1>9. CASE Turn \/ UNCHANGED vars
  <2>1. UNCHANGED <<pc, expect, actual, last, open, starts>>
    BY <1>9 DEF Turn, vars, slotVars, baseVars, pollVars, rigVars, counts
  <2> QED BY <2>1 DEF ClientToldState, SplitAsAsked
<1>10. CASE Step
  BY <1>4, <1>5, <1>6, <1>7, <1>10 DEF Step
<1> QED
  BY <1>2, <1>3, <1>8, <1>9, <1>10 DEF Next

LEMMA Invariance == IInv /\ [Next]_vars => IInv'
BY Typing, OnKept, UnkeyedKept, NotExpectedKept, TxFrequencySetKept, SettledKept, ToldKept
DEF IInv

LEMMA AtStart == Init => IInv
<1> SUFFICES ASSUME Init PROVE IInv
  OBVIOUS
<1>1. Typed
  BY TypesAtStart
<1>2. On /\ NotExpected /\ Settled
  BY DEF Init, On, Blank, NotExpected, Starting, Settled
<1>3. UnkeyedWhenClosed
  <2>1. rig.ptt = FALSE
    BY DEF Init
  <2> QED BY <2>1 DEF UnkeyedWhenClosed
<1>4. TxFrequencySet /\ ClientToldState
  BY DEF Init, TxFrequencySet, ClientToldState
<1> QED BY <1>1, <1>2, <1>3, <1>4 DEF IInv

-----------------------------------------------------------------------------
\* The theorems

\* The invariant holds of every connection.
THEOREM Invariant == Spec => []IInv
<1>1. Init => IInv
  BY AtStart
<1>2. IInv /\ [Next]_vars => IInv'
  BY Invariance
<1> QED BY <1>1, <1>2, PTL DEF Spec

\* The slots of TransceiverBase and the polls of PollingTransceiver keep their
\* variables in the sets they range over.
THEOREM TypeCorrect == Spec => []TypeOK
<1>1. IInv => TypeOK
  BY DEF IInv, Typed
<1> QED BY <1>1, Invariant, PTL

\* However start, set, stop and failing commands follow each other, no command and no
\* poll reaches a closed driver, and a connection that is closed has let go of the
\* key unless the command to unkey failed (TransceiverBase::shutdown).
THEOREM Unkeyed == Spec => []ClosedAndUnkeyed
<1>1. IInv => ClosedAndUnkeyed
  BY DEF IInv, On, ClosedAndUnkeyed, GoNoGo
<1> QED BY <1>1, Invariant, PTL

\* When PollingTransceiver awaits no change of the rig, its client has been told the
\* state as it was read last, by a slot or by a poll.
THEOREM Told == Spec => []ClientToldState
<1>1. IInv => ClientToldState
  BY DEF IInv
<1> QED BY <1>1, Invariant, PTL

\* TransceiverBase::set keys a rig for a split transmission only with its Tx VFO on the
\* frequency asked for and split on, whatever the operator did to it in the meantime.
THEOREM KeyedOnFrequency == Spec => KeyedOnTxFrequency
<1>1. ASSUME IInv, [Next]_vars, rig'.ptt, ~rig.ptt, cmd.s.tx \in Freqs
      PROVE  rig'.tx = cmd.s.tx /\ rig'.split = "on"
  <2>1. rig \in Rigs /\ cmd \in Calls
    BY <1>1 DEF IInv, Typed, TypeOK, Rigs, Calls
  <2>2. ASSUME pc = "key", PttOn, rig' = [rig EXCEPT !.ptt = TRUE]
        PROVE  rig'.tx = cmd.s.tx /\ rig'.split = "on"
    BY <1>1, <2>1, <2>2 DEF IInv, TxFrequencySet, Rigs
  <2>3. CASE Key
    BY <2>2, <2>3 DEF Key, Line
  <2>4. CASE Throw
    <3>1. rig' # rig
      BY <1>1
    <3> QED BY <2>2, <2>4, <3>1 DEF Throw
  <2>5. ASSUME UNCHANGED rig \/ ~rig'.ptt PROVE FALSE
    BY <1>1, <2>5
  <2>6. CASE CallStart \/ CallSet \/ CallStop
    BY <2>5, <2>6, Called DEF CallStart, CallSet, CallStop
  <2>7. CASE Shutdown
    <3>1. PICK cut \in {"none", "ptt", "split"} : rig' = ShutdownRig(cut)
      BY <2>7 DEF Shutdown
    <3>2. UNCHANGED rig \/ ~rig'.ptt
      BY <2>1, <3>1 DEF ShutdownRig, Rigs
    <3> QED BY <2>5, <3>2
  <2>8. CASE Startup \/ End \/ Poll \/ PollThrows \/ UNCHANGED vars
    BY <2>5, <2>8 DEF Startup, End, Poll, PollThrows, vars, rigVars
  <2>9. CASE Unkey \/ SetFrequency \/ SetTxFrequency \/ Turn
    <3>1. rig'.ptt => rig.ptt
      BY <2>1, <2>9 DEF Unkey, SetFrequency, SetTxFrequency, Turn, Rigs
    <3> QED BY <1>1, <3>1
  <2>10. ASSUME NEW here, NEW next, NEW needed, Skip(here, next, needed) PROVE FALSE
    BY <2>5, <2>10, Skipped
  <2>11. CASE Step
    BY <2>3, <2>7, <2>8, <2>9, <2>10, <2>11 DEF Step
  <2> QED
    BY <1>1, <2>4, <2>6, <2>8, <2>9, <2>11 DEF Next
<1>2. IInv /\ [Next]_vars =>
        [rig'.ptt /\ ~rig.ptt /\ cmd.s.tx \in Freqs
           => rig'.tx = cmd.s.tx /\ rig'.split = "on"]_vars
  BY <1>1
<1> QED BY <1>2, Invariant, PTL DEF Spec, KeyedOnTxFrequency
=============================================================================
