--------------------------- MODULE CommanderDriver ---------------------------
(* The driver of rigs behind DX Lab Suite Commander                          *)
(* (DXLabSuiteCommanderTransceiver.cpp).                                     *)
(*                                                                           *)
(* Commander knows the VFOs of the rig itself and takes commands for the     *)
(* receiver and for the split transmitter.  Its commands have no answer, so  *)
(* that only a query can show that one was not carried out: the state that is*)
(* reported is what was asked for until the next query.                      *)
(*                                                                           *)
(* Around it, split operation on a rig that stays in simplex                 *)
(* (EmulateSplitTransceiver, which any driver can have around it).           *)
EXTENDS RigDevice

CONSTANTS
  Tunings,        \* how finely the rigs tune
  Starts,         \* what the VFOs of the rigs are set to at first
  Requests, MaxSets, MaxTurns, MaxFaults, MaxCommands

VARIABLES
  dev, want, fresh, seen, read, sets, turns, faults,
  asked,          \* rx_frequency_, tx_frequency_ and split_, from the last request
  shown           \* the last state that EmulateSplitTransceiver signalled, or a failure

----------------------------------------------------------------------------
DoPtt(d, on) == UpdatePtt(Tell(d, [d.rig EXCEPT !.key = on]), on)

\* CmdSetFreqMode with preservesplitanddual, or CmdSetFreq.
DoFrequency(d, f, m) ==
  LET tuned == Tune(d.rig, d.rig.rx, f)
      e == IF m = UNK THEN Tell(d, tuned)
           ELSE UpdateMode(Tell(d, PutMode(tuned, d.rig.rx, m)), m)
  IN UpdateRx(e, f)

\* CmdQSXSplit: the other VFO transmits on the frequency, in the mode of the
\* receiver unless the change of mode is suppressed.
DoTxFrequency(d, tx, m, no_ignore) ==
  LET v == Other(d.rig.rx)
      qsx == Tune(d.rig, v, tx)
      e == IF tx = 0 THEN Tell(d, Split(d.rig, FALSE))
           ELSE Tell(d, Split(IF m = UNK THEN qsx ELSE PutMode(qsx, v, d.rig.m[d.rig.rx]), TRUE))
  IN UpdateOther(UpdateSplit(e, tx # 0), tx)

\* The frequencies are not taken while the rig transmits: Commander is not
\* reliable on them then.
DoPoll(d) ==
  LET r == d.rig
      d1 == IF d.act.ptt THEN Ask(d) ELSE UpdateRx(Ask(d), r.f[r.rx])
      d2 == CASE ~d1.act.split -> d1
              [] d1.act.split /\ d1.act.ptt -> Ask(d1)
              [] OTHER -> UpdateOther(Ask(d1), r.f[r.tx])
      d3 == UpdateSplit(Ask(d2), InSplit(r))
  IN UpdateMode(Ask(d3), r.m[r.rx])

\* The driver reads the rig once before its start is over.
DoStart(d) ==
  LET e == Ask(d) IN DoPoll(FindResolution(e, e.rig.rx, e.rig.f[e.rig.rx], 2))

----------------------------------------------------------------------------

HasSplit(d) == TRUE

\* do_stop closes the connection.
DoStop(d) == d

Never(d) == FALSE

Always(d) == TRUE

Plain(d) == d

Base == INSTANCE DriverBase WITH
          Made <- Plain, Knows <- Always, ReadsSplit <- HasSplit, Defers <- Never, Hundred <- 2

Devices ==
  {[rig |-> [f |-> x.f, m |-> x.m, rx |-> rx, tx |-> rx, key |-> FALSE, grain |-> g, free |-> FALSE],
    act |-> Nothing, req |-> Nothing, rev |-> FALSE, res |-> 0, ok |-> TRUE, dead |-> FALSE,
    left |-> NoFault, cut |-> FALSE, hit |-> FALSE, lost |-> FALSE, panel |-> "commander"] :
     x \in Starts, rx \in Vfos, g \in Tunings}

Init == Base!InitWith(Devices)
Next == Base!Next
Spec == Init /\ [][Next]_Base!vars
----------------------------------------------------------------------------
\* EmulateSplitTransceiver asks the rig for the Tx frequency while it transmits and
\* for the Rx frequency else, and shows its clients a rig in split.
Emulated(s) ==
  [s EXCEPT !.f = IF s.ptt /\ s.tx # 0 THEN s.tx ELSE s.f, !.tx = 0]

\* handle_update, for a state that the wrapped transceiver signals: the rig
\* must be in simplex; what it receives on is followed, what it transmits on not.
Failure == [failed |-> TRUE, f |-> 0, tx |-> 0, ptt |-> FALSE]
Shown_followed(d, a) ==
  IF d.act.split THEN Failure
  ELSE [failed |-> FALSE, f |-> d.act.f, tx |-> a.tx, ptt |-> d.act.ptt]

Shown(d, a) ==
  IF d.act.split THEN Failure
  ELSE [failed |-> FALSE, f |-> IF d.act.ptt THEN a.f ELSE d.act.f, tx |-> a.tx,
        ptt |-> d.act.ptt]

EmulationInit ==
  /\ Init
  /\ asked = Base!NoRequest
  /\ shown = [Failure EXCEPT !.failed = FALSE]

\* Updates of a driver that fails are followed by its failure, which ends it.
Signals(a) == shown' = IF dev'.req.online THEN Shown(dev', a) ELSE Failure

EmulatedStart == Base!Start /\ asked' = Base!NoRequest /\ Signals(asked')
EmulatedSet(s) == Base!Set(Emulated(s)) /\ asked' = s /\ Signals(s)
EmulatedRestart(s) == Base!Restart(Emulated(s)) /\ asked' = s /\ Signals(s)
EmulatedPoll == Base!Poll /\ UNCHANGED asked /\ Signals(asked)
EmulatedTurns == Base!Turns /\ UNCHANGED <<asked, shown>>
EmulatedStop == Base!Stop /\ UNCHANGED <<asked, shown>>

EmulationNext ==
  \/ EmulatedStart \/ EmulatedStop \/ (\E s \in Requests : EmulatedSet(s) \/ EmulatedRestart(s))
  \/ EmulatedPoll \/ EmulatedTurns

\* Unless the clients were told of a failure, a rig that nobody touched transmits
\* in simplex on the Tx frequency that was asked for and receives on the Rx
\* frequency, which is the one they are shown all the while.  A rig that was
\* read in split is reported as a failure.
SplitTrue ==
  /\ fresh /\ ~shown.failed =>
       /\ dev.rig.key = asked.ptt /\ ~InSplit(dev.rig)
       /\ dev.rig.f[dev.rig.rx] = (IF asked.ptt /\ asked.tx # 0 THEN asked.tx ELSE asked.f)
       /\ shown.f = asked.f /\ shown.tx = asked.tx
  /\ read /\ InSplit(dev.rig) /\ ~dev.act.ptt => shown.failed
=============================================================================
