------------------------------ MODULE HrdDriver ------------------------------
(* The driver of rigs behind Ham Radio Deluxe (HRDTransceiver.cpp).          *)
(*                                                                           *)
(* Ham Radio Deluxe shows a rig as a panel of buttons and drop-down lists,   *)
(* and which of them there are differs from rig to rig: the driver finds out *)
(* at its start, and every operation takes its way from what it found.  Here *)
(* that is a record, dev.panel:                                              *)
(*   vfos      how many VFOs can be set by name                              *)
(*   vfoAB     buttons VFO A and VFO B      toggle   a button A / B          *)
(*   rxAB      buttons RX A and RX B        txAB     buttons TX A and TX B   *)
(*   receiver  the drop-down list Receiver  modeB    a list of modes for B   *)
(*   splitOn, splitOff  buttons             splitList  a drop-down list      *)
(*   data      data mode is a switch of its own beside the list of modes     *)
EXTENDS RigDevice

CONSTANTS
  Machines,       \* rigs: the panel that Ham Radio Deluxe shows, how finely it tunes
  Starts,         \* what the VFOs of the rigs are set to at first
  Requests, MaxSets, MaxTurns, MaxFaults, MaxCommands

VARIABLES dev, want, fresh, seen, read, sets, turns, faults

----------------------------------------------------------------------------
\* What the controls of a panel do (external).

\* A list of modes without one for VFO B, and the data switch, act on the VFO
\* that is selected.  With a data switch the list holds the sideband alone,
\* which both modes share.
ModeList(d, v, m) == IF d.panel.data THEN d.rig ELSE PutMode(d.rig, v, m)
DataSwitch(d, m) == IF d.panel.data THEN PutMode(d.rig, d.rig.rx, m) ELSE d.rig

Flip(d) == Receive(d.rig, Other(d.rig.rx))

----------------------------------------------------------------------------
\* Operations that others are made of.
SelectButton(d, v) ==
  IF d.panel.vfoAB THEN Tell(d, Receive(d.rig, v)) ELSE Tell(d, Flip(d))

SetModeA(d, m) == Tell(d, ModeList(d, IF d.panel.modeB THEN "A" ELSE d.rig.rx, m))
SetModeB(d, m) == Tell(d, ModeList(d, "B", m))
SetDataMode(d, m) == Tell(d, DataSwitch(d, m))
SetBoth(d, m) == SetDataMode(SetModeA(d, m), m)

\* set frequencies-hz, after get frequencies for the one that stays.
SetNamed(d, v, f) == LET e == Ask(d) IN Tell(e, Tune(e.rig, v, f))
SetCurrent(d, f) == Tell(d, Tune(d.rig, d.rig.rx, f))

RxVfo(d) == IF d.rev THEN "B" ELSE "A"
TxVfo(d) == Other(RxVfo(d))

ReadMode(d) ==
  UpdateMode(Ask(d), d.rig.m[IF d.panel.modeB THEN "A" ELSE d.rig.rx])

----------------------------------------------------------------------------
\* A rig with one VFO at a time is brought to VFO A: the driver looks at one,
\* selects B, looks, and selects A.
KnownState(d) ==
  LET f == d.rig.f[d.rig.rx]
      m == d.rig.m[d.rig.rx]
      d1 == SelectButton(Ask(Ask(d)), "B")
      fo == d1.rig.f[d1.rig.rx]
      mo == d1.rig.m[d1.rig.rx]
      d2 == SelectButton(UpdateOther(Ask(Ask(d1)), fo), "A")
  IN IF f # fo \/ m # mo THEN UpdateMode(UpdateRx(d2, f), m)
     ELSE ReadMode(UpdateRx(Ask(d2), d2.rig.f[d2.rig.rx]))

DoStart(d) ==
  LET p == d.panel
      e == IF p.vfos = 1 /\ (p.vfoAB \/ p.toggle) THEN KnownState(Ask(d)) ELSE Ask(d)
  IN FindResolution(Ask(e), e.rig.rx, e.rig.f[e.rig.rx], 2)

DoPtt(d, on) == UpdatePtt(Tell(d, [d.rig EXCEPT !.key = on]), on)

----------------------------------------------------------------------------
DoMode_data_lost(d, m) ==
  UpdateMode(SetModeA(d, m), m)

\* The mode of the VFO that receives, and in split that of the other one too.
DoMode(d, m) ==
  LET p == d.panel
      d1 == IF d.rev /\ p.modeB THEN SetModeB(d, m) ELSE SetModeA(d, m)
      there == IF p.rxAB \/ p.receiver THEN Tell(d1, Receive(d1.rig, TxVfo(d)))
               ELSE SelectButton(d1, TxVfo(d))
      set == SetModeA(there, m)
      back == IF p.rxAB \/ p.receiver THEN Tell(set, Receive(set.rig, RxVfo(d)))
              ELSE SelectButton(set, RxVfo(d))
      d2 == IF ~d.act.split THEN d1
            ELSE IF p.modeB THEN IF d.rev THEN SetModeA(d1, m) ELSE SetModeB(d1, m)
            ELSE LET e == IF p.rxAB \/ p.receiver \/ p.vfos > 1 THEN back
                          ELSE Demand(d1, p.vfoAB \/ p.toggle)
                 IN IF p.txAB THEN Tell(e, [e.rig EXCEPT !.tx = TxVfo(d)]) ELSE e
  IN UpdateMode(SetDataMode(d2, m), m)

DoFrequency(d, f, m) ==
  LET e == IF m = UNK THEN d ELSE DoMode(d, m)
  IN UpdateRx(IF e.panel.vfos > 1 /\ e.rev THEN SetNamed(e, "B", f) ELSE SetCurrent(e, f), f)

----------------------------------------------------------------------------
\* Which VFO receives, asked again whenever the Tx frequency is set.
Recheck(d) ==
  LET p == d.panel
      e == Ask(d)
  IN IF ~Running(e) THEN e
     ELSE IF p.receiver \/ p.vfoAB \/ p.rxAB THEN [e EXCEPT !.rev = (e.rig.rx = "B")]
     ELSE [e EXCEPT !.rev = FALSE]

\* The mode of the VFO that transmits.
TxMode(d, m) ==
  LET p == d.panel
      there == IF p.rxAB \/ p.receiver THEN Tell(d, Receive(d.rig, TxVfo(d)))
               ELSE SelectButton(d, TxVfo(d))
      set == SetBoth(there, m)
      back == IF p.rxAB \/ p.receiver THEN Tell(set, Receive(set.rig, RxVfo(d)))
              ELSE SelectButton(set, RxVfo(d))
  IN IF m = UNK THEN d
     ELSE IF p.modeB THEN IF d.rev THEN SetModeA(d, m) ELSE SetModeB(d, m)
     ELSE LET e == Demand(d, p.vfoAB \/ p.toggle)
          IN IF Running(e) /\ (p.rxAB \/ p.receiver \/ p.vfos > 1) THEN back ELSE e

\* The frequency of the VFO that transmits; a rig with one VFO at a time has
\* its mode set on the same visit.
TxSet(d, tx, m) ==
  LET p == d.panel
      there == SetCurrent(SelectButton(d, "B"), tx)
      moded == IF m # UNK /\ ~p.modeB THEN SetBoth(there, m) ELSE there
  IN CASE d.rev -> LET e == Demand(d, p.vfos > 1)
                   IN IF Running(e) THEN SetNamed(e, "A", tx) ELSE e
       [] ~d.rev /\ p.vfos > 1 -> SetNamed(d, "B", tx)
       [] OTHER -> IF p.vfoAB \/ p.toggle THEN SelectButton(moded, "A") ELSE d

\* Split on or off, by a button, a list, or the choice of the VFO that transmits.
SetSplit(d, on) ==
  LET p == d.panel
      tx == IF on THEN TxVfo(d) ELSE RxVfo(d)
      rx == IF p.rxAB \/ p.receiver THEN Tell(Ask(d), Receive(d.rig, RxVfo(d)))
            ELSE SelectButton(Ask(d), RxVfo(d))
  IN CASE p.splitOn \/ p.splitList -> Tell(d, Split(d.rig, on))
       [] ~(p.splitOn \/ p.splitList) /\ p.vfoAB /\ p.txAB ->
            IF d.rig.tx # tx THEN Tell(rx, [rx.rig EXCEPT !.tx = tx]) ELSE Ask(d)
       [] OTHER -> d

DoTxFrequency(d, tx, m, no_ignore) ==
  LET d1 == Recheck(d)
      d2 == IF tx = 0 THEN d1 ELSE TxSet(TxMode(d1, m), tx, m)
  IN UpdateSplit(SetSplit(UpdateOther(d2, tx), tx # 0), tx # 0)

----------------------------------------------------------------------------
\* What the rig is read for: split where a button, a list or the choice of the
\* Tx VFO tells it, the frequencies and the mode where reading is reliable.
DoPoll(d) ==
  LET p == d.panel
      chosen == ~p.splitOff /\ ~(p.splitOn /\ ~p.txAB) /\ ~p.splitList /\ p.vfoAB /\ p.txAB
      d1 == IF p.splitOff THEN d
            ELSE IF (p.splitOn /\ ~p.txAB) \/ p.splitList
                 THEN UpdateSplit(Ask(d), InSplit(d.rig))
            ELSE IF chosen
                 THEN LET e == UpdateSplit(Ask(Ask(d)), (d.rig.rx = "B") = (d.rig.tx = "A"))
                      IN IF Running(e) THEN [e EXCEPT !.rev = (e.rig.rx = "B")] ELSE e
            ELSE d
      now == Ask(d1)
      d2 == CASE p.vfos > 1 -> UpdateOther(UpdateRx(now, now.rig.f[RxVfo(now)]),
                                           now.rig.f[TxVfo(now)])
              [] p.vfos = 1 /\ ~d1.act.ptt -> UpdateRx(now, now.rig.f[now.rig.rx])
              [] OTHER -> d1
  IN IF p.vfos > 1 \/ ~d2.act.ptt THEN ReadMode(d2) ELSE d2

----------------------------------------------------------------------------
HasSplit(d) == ~d.panel.splitOff

\* do_stop closes the connection.
DoStop(d) == d

Never(d) == FALSE

\* The driver takes VFO A to receive unless it has read that VFO B does.
Found(d) == d.rev = (d.rig.rx = "B")

Plain(d) == d

Base == INSTANCE DriverBase WITH
          Made <- Plain, Knows <- Found, ReadsSplit <- HasSplit, Defers <- Never, Hundred <- 2

Devices ==
  {[rig |-> [f |-> x.f, m |-> x.m, rx |-> rx, tx |-> rx, key |-> FALSE, grain |-> p[2], free |-> p[1].txAB],
    act |-> Nothing, req |-> Nothing, rev |-> FALSE, res |-> 0, ok |-> TRUE, dead |-> FALSE,
    left |-> NoFault, cut |-> FALSE, hit |-> FALSE, lost |-> FALSE, panel |-> p[1]] :
     x \in Starts, rx \in Vfos, p \in Machines}

Init == Base!InitWith(Devices)
Next == Base!Next
Spec == Init /\ [][Next]_Base!vars

----------------------------------------------------------------------------
\* No assertion of the source fails unless the operator has put a rig with one VFO
\* at a time on VFO B, where its start never leaves it: such a rig is taken for one
\* with the VFOs exchanged, and a request for split asserts that there are two.
NoAssert == dev.dead => turns > 0 /\ dev.panel.vfos = 1 /\ dev.rev /\ dev.rig.rx = "B"

\* The assertion of HRDTransceiver.cpp:679, which such a request fails.
NeverAsserts == ~dev.dead
=============================================================================
