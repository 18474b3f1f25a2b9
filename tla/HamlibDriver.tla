---------------------------- MODULE HamlibDriver -----------------------------
(* The driver of rigs behind Hamlib (HamlibTransceiver.cpp).                 *)
(*                                                                           *)
(* Hamlib hides most of the differences between rigs, but not what a rig can *)
(* be asked at all.  dev.panel says it:                                      *)
(*   getVfo   the VFO in use can be read                                     *)
(*   setVfo   it can be chosen; otherwise the VFOs can only be exchanged     *)
(*   one      only one VFO can be commanded at a time (one_VFO_)             *)
(*   targets  the frequency of the other VFO can be read                     *)
(*   auto     the rig chooses a mode whenever its frequency is set           *)
(* and dev.query whether it can still be asked for split, dev.tickle whether *)
(* Hamlib has to be told of split before it sets a Tx frequency.             *)
EXTENDS RigDevice

CONSTANTS
  Machines,       \* rigs: what they can do, how finely they tune
  AutoMode,       \* the mode such a rig chooses
  Starts,         \* what the VFOs of the rigs are set to at first
  Requests, MaxSets, MaxTurns, MaxFaults, MaxCommands

VARIABLES dev, want, fresh, seen, read, sets, turns, faults

----------------------------------------------------------------------------
\* RIG_VFO_CURR: a rig that is commanded one VFO at a time means the one that
\* transmits while it does.
Curr(d) == IF d.panel.one /\ d.rig.key THEN d.rig.tx ELSE d.rig.rx

\* The VFO to transmit on in split; VFOs that can only be exchanged are alike.
TxVfo(d) ==
  IF ~d.panel.getVfo /\ ~d.panel.setVfo THEN Other(d.rig.rx)
  ELSE IF d.rev THEN "A" ELSE "B"

SetFreq(d, v, f) ==
  LET r == Tune(d.rig, v, f) IN Tell(d, IF d.panel.auto THEN PutMode(r, v, AutoMode) ELSE r)
SetMode(d, v, m) == Tell(d, PutMode(d.rig, v, m))
SetSplit(d, on) == Tell(d, [d.rig EXCEPT !.tx = IF on THEN TxVfo(d) ELSE d.rig.rx])
SetVfo(d, v) == Tell(d, Receive(d.rig, IF d.panel.setVfo THEN v ELSE Other(d.rig.rx)))

\* A query whose failure is not an error.
Fails(d) == Running(d) /\ d.left = 0
Peek(d) == IF Fails(d) THEN [Ask(d) EXCEPT !.ok = TRUE] ELSE Ask(d)

\* The VFO in use, read.
WhichVfo(d) ==
  LET e == Ask(d) IN IF Running(e) THEN [e EXCEPT !.rev = (e.rig.rx = "B")] ELSE e

GetVfos(d, for_split) ==
  CASE d.panel.getVfo -> WhichVfo(d)
    [] ~d.panel.getVfo /\ ~for_split /\ d.panel.setVfo -> SetVfo(d, "A")
    [] OTHER -> d

----------------------------------------------------------------------------
\* Where the VFO cannot be read, the rig is brought to VFO A, and what the other
\* one is set to is learnt on the way.
KnownState(d) ==
  LET f == d.rig.f[d.rig.rx]
      m == d.rig.m[d.rig.rx]
      d1 == Ask(Ask(SetVfo(Ask(Ask(d)), "B")))
      fo == d1.rig.f[d1.rig.rx]
      d2 == SetVfo(UpdateOther(d1, fo), "A")
      moved == f # fo \/ m # d1.rig.m[d1.rig.rx]
      d3 == IF moved THEN d2 ELSE Ask(Ask(d2))
  IN UpdateMode(UpdateRx(d3, IF moved THEN f ELSE d3.rig.f[d3.rig.rx]),
                IF moved THEN m ELSE d3.rig.m[d3.rig.rx])

\* A start's query of the mode that fails gives mode queries up; the rig is one
\* whose mode can be read.
Opened(d) ==
  IF d.panel.getVfo
  THEN LET e == Ask(WhichVfo(d)) IN UpdateMode(e, e.rig.m[e.rig.rx])
  ELSE KnownState(d)

\* Split is told by what the rig says or, once it failed to say, by the commands.
PollSplit(d) ==
  IF ~d.query THEN d
  ELSE IF Fails(d) THEN [Peek(d) EXCEPT !.query = FALSE]
  ELSE UpdateSplit(Ask(d), InSplit(d.rig))

\* Frequency and mode are read only while receiving or in simplex.
DoPoll(d) ==
  LET listens == ~d.act.ptt \/ ~d.act.split
      d1 == IF d.panel.getVfo THEN WhichVfo(d) ELSE d
      d2 == IF listens THEN UpdateRx(Ask(d1), d1.rig.f[Curr(d1)]) ELSE d1
      d3 == IF d.act.split /\ d.panel.targets /\ ~d.panel.one
            THEN UpdateOther(Ask(d2), d2.rig.f[TxVfo(d2)]) ELSE d2
      d4 == CASE ~listens -> d3
              [] listens /\ Fails(d3) -> Peek(d3)
              [] OTHER -> UpdateMode(Ask(d3), d3.rig.m[Curr(d3)])
      d5 == PollSplit(d4)
  IN UpdatePtt(Ask(d5), d5.rig.key)

DoStart(d) ==
  LET d1 == [Opened(Ask(d)) EXCEPT !.tickle = TRUE]
  IN DoPoll(FindResolution(Ask(d1), d1.rig.rx, d1.rig.f[d1.rig.rx], 3))

DoPtt(d, on) == UpdatePtt(Tell(d, [d.rig EXCEPT !.key = on]), on)

----------------------------------------------------------------------------
\* The mode is set if it differs from what the rig is in.
Ensure(d, v, m) ==
  LET e == Ask(d) IN IF e.rig.m[v] = m THEN e ELSE SetMode(e, v, m)

DoFrequency_once(d, f, m) ==
  LET v == Curr(d)
      set == UpdateRx(SetFreq(d, v, f), f)
      moded == Ensure(set, v, m)
  IN IF d.act.ptt /\ d.act.split /\ d.panel.one THEN d
     ELSE IF m = UNK THEN set
     ELSE IF set.rig.m[v] = m THEN UpdateMode(moded, m)
     ELSE UpdateMode(SetFreq(moded, v, f), m)

\* A new mode may move the frequency, and a new frequency the mode: both are set
\* twice.  A rig that transmits in split on the one VFO it listens to is left alone.
DoFrequency(d, f, m) ==
  LET v == Curr(d)
      set == UpdateRx(SetFreq(d, v, f), f)
      moded == Ensure(set, v, m)
  IN IF d.act.ptt /\ d.act.split /\ d.panel.one THEN d
     ELSE IF m = UNK THEN set
     ELSE IF set.rig.m[v] = m THEN UpdateMode(moded, m)
     ELSE UpdateMode(SetMode(SetFreq(moded, v, f), v, m), m)

\* Split for the first time in a session, so that Hamlib knows the Tx VFO.
Tickled(d) ==
  LET e == SetSplit(d, TRUE)
  IN IF d.tickle /\ Running(e) THEN UpdateSplit([e EXCEPT !.tickle = FALSE], TRUE)
     ELSE IF d.tickle THEN e ELSE d

\* The Tx frequency: of the VFO in use while such a rig transmits; of the Tx VFO,
\* split last, if it can be set or is about to be used; otherwise later.
DoTxFrequency(d, tx, m, no_ignore) ==
  LET d1 == GetVfos(d, tx # 0)
      v == TxVfo(d1)
      d2 == Tickled(d1)
      d3 == SetSplit(d2, TRUE)
      now == SetFreq(d3, Curr(d3), tx)
      there == LET e == SetFreq(d2, v, tx) IN IF m = UNK THEN e ELSE SetMode(e, v, m)
  IN CASE tx = 0 -> UpdateSplit(UpdateOther(SetSplit(d1, FALSE), 0), FALSE)
       [] tx # 0 /\ d.act.ptt /\ d.panel.one ->
            UpdateOther(IF m = UNK THEN now ELSE Ensure(now, Curr(d3), m), tx)
       [] tx # 0 /\ ~(d.act.ptt /\ d.panel.one) /\ (~d.panel.one \/ no_ignore) ->
            UpdateSplit(UpdateOther(SetSplit(there, TRUE), tx), TRUE)
       [] OTHER -> d2

----------------------------------------------------------------------------
CanAskSplit(d) == d.query
DefersRx(d) == d.panel.one /\ d.act.split

\* do_stop closes the connection.
DoStop(d) == d

\* The VFO in use is read, or is VFO A, or it is all one to the driver which it is.
Found(d) == d.panel.setVfo /\ ~d.panel.getVfo => d.rig.rx = "A"

Constructed(d) == [d EXCEPT !.query = d.panel.query, !.tickle = FALSE]

Base == INSTANCE DriverBase WITH
          Made <- Constructed, Knows <- Found, ReadsSplit <- CanAskSplit, Defers <- DefersRx, Hundred <- 3

Devices ==
  {[rig |-> [f |-> x.f, m |-> x.m, rx |-> rx, tx |-> rx, key |-> FALSE, grain |-> p[2], free |-> FALSE],
    act |-> Nothing, req |-> Nothing, rev |-> FALSE, res |-> 0, ok |-> TRUE, dead |-> FALSE,
    left |-> NoFault, cut |-> FALSE, hit |-> FALSE, lost |-> FALSE, panel |-> p[1],
    query |-> p[1].query, tickle |-> FALSE] :
     x \in Starts, rx \in Vfos, p \in Machines}

Init == Base!InitWith(Devices)
Next == Base!Next
Spec == Init /\ [][Next]_Base!vars
=============================================================================
