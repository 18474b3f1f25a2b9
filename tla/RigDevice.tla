------------------------------ MODULE RigDevice ------------------------------
(* A rig with two VFOs, and what a driver keeps of it.                       *)
(*                                                                           *)
(* The drivers of Ham Radio Deluxe, of DX Lab Commander and of OmniRig see   *)
(* the rig only through the commands of a program that is not in the source; *)
(* what a command does to the rig is therefore external.  A command or a     *)
(* query that fails throws, which ends the handler that gave it: the rest of *)
(* the handler does nothing.                                                 *)
EXTENDS Integers

CONSTANT UNK     \* Transceiver::UNK, no mode

Vfos == {"A", "B"}
Other(v) == IF v = "A" THEN "B" ELSE "A"

----------------------------------------------------------------------------
\* The rig: the frequency and the mode of each VFO, the VFO that receives, the
\* one that transmits, the key, and how fine it tunes.

\* How rigs round a frequency: to steps of so many Hz, down or to the nearest.
Tuned(f, g) == LET x == IF g.round THEN f + g.hz \div 2 ELSE f IN x - (x % g.hz)

Tune(r, v, f) == [r EXCEPT !.f[v] = Tuned(f, r.grain)]
PutMode(r, v, m) == [r EXCEPT !.m[v] = m]
InSplit(r) == r.tx # r.rx

\* To receive on another VFO: the rigs that choose the VFO that transmits on
\* its own leave it, the others keep simplex or split.
Receive(r, v) ==
  [r EXCEPT !.rx = v,
            !.tx = IF r.free THEN @ ELSE IF InSplit(r) THEN Other(v) ELSE v]
Split(r, on) == [r EXCEPT !.tx = IF on THEN Other(r.rx) ELSE r.rx]

----------------------------------------------------------------------------
\* The driver: the state it reports (act), the state it was asked for (req),
\* whether it takes the VFOs for exchanged (rev), the rig's resolution it found
\* (res), whether a command has thrown (ok) or an assertion failed (dead), and
\* after how many commands one fails (left, counted down to NoFault), whether all
\* that follow fail too (cut), and whether one has failed (hit, and lost when the
\* handler is over in which the link was cut or the unkeying itself failed, for as
\* long as the rig stays keyed).
NoFault == -1
Nothing == [f |-> 0, tx |-> 0, split |-> FALSE, mode |-> UNK, ptt |-> FALSE, online |-> FALSE]

Running(d) == d.ok /\ ~d.dead
Tell(d, r) ==
  IF ~Running(d) THEN d
  ELSE IF d.left = 0 THEN [d EXCEPT !.ok = FALSE, !.hit = TRUE, !.left = IF d.cut THEN 0 ELSE @ - 1]
  ELSE IF d.left = NoFault THEN [d EXCEPT !.rig = r]
  ELSE [d EXCEPT !.rig = r, !.left = @ - 1]
Ask(d) == Tell(d, d.rig)
Demand(d, c) == IF Running(d) /\ ~c THEN [d EXCEPT !.dead = TRUE] ELSE d
Throw(d) == IF Running(d) THEN [d EXCEPT !.ok = FALSE] ELSE d

UpdateRx(d, f) == IF Running(d) THEN [d EXCEPT !.act.f = f, !.req.f = f] ELSE d
UpdateOther(d, f) == IF Running(d) THEN [d EXCEPT !.act.tx = f] ELSE d
UpdateSplit(d, on) == IF Running(d) THEN [d EXCEPT !.act.split = on] ELSE d
UpdateMode(d, m) == IF Running(d) THEN [d EXCEPT !.act.mode = m] ELSE d
UpdatePtt(d, on) == IF Running(d) THEN [d EXCEPT !.act.ptt = on] ELSE d

\* How a driver finds out how fine the rig tunes: it asks for a frequency that
\* ends in 55, reads back what the rig made of it, asks for 51 if that leaves
\* two answers, and goes back.  What it says of steps of 100 Hz (hundred) is 2 or
\* 3, as the driver has it.
Tested(f, tens) == f - (f % 100) + tens
Coarse(f, g, hundred) ==
  LET off == Tuned(Tested(f, 55), g) - Tested(f, 55)
      found == CASE off = -5  -> -1
                 [] off = 5   -> 1
                 [] off = -15 -> -2
                 [] off = -55 -> -hundred
                 [] off = 45  -> hundred
                 [] OTHER     -> 0
  IN IF found = 1 /\ Tuned(Tested(f, 51), g) - Tested(f, 51) = 9 THEN 2 ELSE found

\* The same on the rig: each frequency is set and read back.
FindResolution(d, v, f, hundred) ==
  IF f % 10 # 0 \/ f = 0 THEN [d EXCEPT !.res = 0]
  ELSE LET d1 == Ask(Tell(d, Tune(d.rig, v, Tested(f, 55))))
           again == Tuned(Tested(f, 55), d.rig.grain) - Tested(f, 55) = 5
           d2 == IF again THEN Ask(Tell(d1, Tune(d1.rig, v, Tested(f, 51)))) ELSE d1
           d3 == Tell(d2, Tune(d2.rig, v, f))
       IN [d3 EXCEPT !.res = Coarse(f, d.rig.grain, hundred)]

\* What it should find: 0 for steps of 1 Hz, 1 for 10, 2 for 20, negative if the
\* rig rounds down.
Fineness(g, hundred) ==
  LET steps == CASE g.hz = 1 -> 0 [] g.hz = 10 -> 1 [] g.hz = 20 -> 2 [] OTHER -> hundred
  IN IF g.round THEN steps ELSE -steps
=============================================================================
