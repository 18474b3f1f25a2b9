----------------------------- MODULE DriverBase ------------------------------
(* What all drivers share: TransceiverBase starts a driver, carries out a    *)
(* request, and shuts it down; the timer of PollingTransceiver reads the rig.*)
(* The driver itself is the parameter.  The commands of one handler follow   *)
(* each other in the thread of the rig without a pause, but any of them may  *)
(* fail; between two handlers the operator is at the rig's own controls.     *)
(*                                                                           *)
(* The retries of PollingTransceiver and the rig that is slow to change over *)
(* are in module PollingTransceiver.                                         *)
EXTENDS RigDevice

CONSTANTS
  DoStart(_), DoPtt(_, _), DoFrequency(_, _, _), DoTxFrequency(_, _, _, _), DoPoll(_),
  DoStop(_),
  Made(_),        \* what the constructor of the driver sets besides
  Knows(_),       \* whether the driver takes the rig's VFOs for what they are
  ReadsSplit(_),  \* whether the driver can read split at all
  Defers(_),      \* whether a new Rx frequency waits until the rig receives
  Hundred,        \* what the driver says of a rig that tunes in steps of 100 Hz
  Requests,       \* the states that clients ask for
  MaxSets, MaxTurns, MaxFaults, MaxCommands  \* bounds

VARIABLES
  dev,            \* the driver and its rig
  want,           \* the last request that was carried out, with the mode that was set
                  \* while the driver knew the VFOs and the operator left alone since
  fresh,          \* nobody touched the rig since
  seen,           \* nobody touched the rig since it was started or last read, receiving,
                  \* in split and keyed only as it was asked to be
  read,           \* nobody touched the rig since it was read, receiving
  sets, turns, faults

vars == <<dev, want, fresh, seen, read, sets, turns, faults>>

NoRequest == [f |-> 0, tx |-> 0, mode |-> UNK, ptt |-> FALSE]
NoDriver == [NoRequest EXCEPT !.f = -1]  \* before the first start and after a stop

InitWith(devices) ==
  /\ dev \in devices
  /\ want = NoDriver /\ fresh = FALSE /\ seen = FALSE /\ read = FALSE
  /\ sets = 0 /\ turns = 0 /\ faults = 0

----------------------------------------------------------------------------
Forgiven(d) == [d EXCEPT !.ok = TRUE]

Shutdown(d) ==
  LET d1 == IF d.req.online THEN DoPtt(d, FALSE) ELSE d
      d2 == IF d.req.online /\ d.req.split THEN DoTxFrequency(d1, 0, UNK, TRUE) ELSE d1
  IN [DoStop(Forgiven(d2)) EXCEPT !.act.online = FALSE, !.req.online = FALSE]

\* The handler is over; if it threw, the driver reports the failure and shuts down.
Ended(d) ==
  LET e == IF d.ok THEN d ELSE Shutdown(Forgiven(d))
  IN [e EXCEPT !.left = NoFault, !.cut = FALSE, !.hit = FALSE,
               !.lost = (d.hit /\ (d.cut \/ d.ok)) \/ (d.lost /\ e.rig.key)]

\* The rig is opened.
Startup(d) ==
  LET e == DoStart(d)
  IN IF Running(e) THEN [e EXCEPT !.act.online = TRUE, !.req.online = TRUE] ELSE e

\* A driver that is new knows nothing yet.
New(d) == Made([d EXCEPT !.act = Nothing, !.req = Nothing, !.rev = FALSE, !.res = 0])

----------------------------------------------------------------------------
\* TransceiverBase::set on a driver that is on-line.
PttOff(d, s) == ~s.ptt /\ d.req.ptt
PttOn(d, s) == s.ptt /\ ~d.req.ptt
NewMode(d, s) == s.mode # UNK /\ s.mode # d.req.mode

Frequency(d, s) ==
  IF s.f # 0 /\ (s.f # d.req.f \/ NewMode(d, s) \/ PttOff(d, s))
  THEN LET e == DoFrequency(IF PttOff(d, s) THEN DoPtt(d, FALSE) ELSE d, s.f, s.mode)
       IN IF Running(e) THEN [e EXCEPT !.req.f = e.act.f, !.req.mode = e.act.mode] ELSE e
  ELSE IF PttOff(d, s) THEN DoPtt(d, FALSE) ELSE d

TxFrequency(d, s) ==
  IF s.tx # d.req.tx \/ NewMode(d, s) \/ (s.tx # 0 /\ PttOn(d, s))
  THEN LET e == DoTxFrequency(d, s.tx, s.mode, PttOn(d, s))
       IN IF Running(e) THEN [e EXCEPT !.req.tx = e.act.tx, !.req.split = e.act.split] ELSE e
  ELSE d

Key(d, s) ==
  LET e == IF PttOn(d, s) THEN DoPtt(d, TRUE) ELSE d
  IN IF Running(e) THEN [e EXCEPT !.req.ptt = e.act.ptt] ELSE e

Carried(d, s) == Key(TxFrequency(Frequency(d, s), s), s)

\* TransceiverBase::set on a driver that is off-line, which starts it again with
\* all it still knows.
Restarted(d, s) ==
  LET e == Startup(Shutdown(d)) IN IF Running(e) THEN Carried(e, s) ELSE e

----------------------------------------------------------------------------
\* A handler runs on a link that works, or fails at some command, once or for good.
Handler(F(_)) ==
  \E left \in (IF faults < MaxFaults THEN 0 .. MaxCommands ELSE {}) \cup {NoFault}, cut \in BOOLEAN :
    LET start == [dev EXCEPT !.left = left, !.cut = cut /\ left # NoFault]
        end == F(start)
    IN /\ (left = NoFault => ~cut)
       /\ (left # NoFault => end.hit)
       /\ dev' = Ended(end)
       /\ faults' = IF left = NoFault THEN faults ELSE faults + 1
       /\ UNCHANGED turns

\* The rig is in split, and keyed, only if that was asked for: not so after a link
\* that was cut, whose successor does not see what the rig was left in.
AsAsked(d) == Knows(d) /\ InSplit(d.rig) = d.req.split /\ d.rig.key = d.req.ptt

Start ==
  /\ ~dev.req.online /\ ~dev.dead /\ sets < MaxSets
  /\ sets' = sets + 1
  /\ Handler(LAMBDA d : Startup(Shutdown(New(d))))
  /\ fresh' = FALSE /\ seen' = (dev'.req.online /\ AsAsked(dev')) /\ read' = FALSE
  /\ want' = NoRequest

\* A request that was on its way when the driver failed.  What the
\* old session was asked for last counts as done: such a request may neither tune
\* the rig nor key it, and nothing is said of it until the rig has been read.
Restart(s) ==
  /\ ~dev.req.online /\ ~dev.dead /\ want # NoDriver /\ sets < MaxSets
  /\ sets' = sets + 1
  /\ Handler(LAMBDA d : Restarted(d, s))
  /\ want' = [s EXCEPT !.mode = UNK]
  /\ fresh' = FALSE /\ seen' = FALSE /\ read' = FALSE

Aimed(s) == IF NewMode(dev, s) THEN seen ELSE s.mode = want.mode

\* While it transmits a client changes frequencies, but neither the mode nor whether
\* it works in split, which are settings of the operator.
Set(s) ==
  /\ dev.req.online /\ ~dev.dead /\ sets < MaxSets
  /\ dev.req.ptt /\ s.ptt => s.mode \in {UNK, dev.req.mode} /\ (s.tx = 0) = (want.tx = 0)
  /\ sets' = sets + 1
  /\ Handler(LAMBDA d : Carried(d, s))
  /\ want' = [s EXCEPT !.mode = IF Aimed(s) THEN @ ELSE UNK]
  /\ fresh' = (dev'.req.online /\ seen) /\ seen' = (seen /\ dev'.req.online)
  /\ read' = (read /\ dev'.req.online)

Poll ==
  /\ dev.req.online /\ ~dev.dead
  /\ Handler(DoPoll)
  /\ seen' = (dev'.req.online /\ (seen \/ (~dev.act.ptt /\ AsAsked(dev'))))
  /\ read' = (dev'.req.online /\ (read \/ (~dev.act.ptt /\ Knows(dev'))))
  /\ fresh' = (fresh /\ dev'.req.online)
  /\ UNCHANGED <<want, sets>>

\* TransceiverBase::stop.
Stop ==
  /\ dev.req.online /\ ~dev.dead /\ sets < MaxSets
  /\ Handler(Shutdown)
  /\ fresh' = FALSE /\ seen' = FALSE /\ read' = FALSE /\ want' = NoDriver
  /\ UNCHANGED sets

\* The operator at the rig, which is receiving, turns any control.
Turn(r) ==
  /\ turns < MaxTurns /\ ~dev.rig.key /\ r # dev.rig
  /\ dev' = [dev EXCEPT !.rig = r]
  /\ turns' = turns + 1 /\ fresh' = FALSE /\ seen' = FALSE /\ read' = FALSE
  /\ want' = [want EXCEPT !.mode = UNK]
  /\ UNCHANGED <<sets, faults>>

Turns ==
  \/ \E v \in Vfos, f \in {s.f : s \in Requests} : Turn(Tune(dev.rig, v, f))
  \/ \E v \in Vfos : Turn(Receive(dev.rig, v))
  \/ \E on \in BOOLEAN : Turn(Split(dev.rig, on))

Next == Start \/ (\E s \in Requests : Set(s) \/ Restart(s)) \/ Poll \/ Stop \/ Turns

----------------------------------------------------------------------------
\* A request that was carried out, on a rig that nobody touched since it was
\* read: the rig receives on the frequency that was asked for, and if it is
\* keyed it transmits on the frequency that was asked for; in the mode too, if
\* the operator left the rig alone (a mode that was turned is not set again).
Keyed ==
  fresh => /\ dev.rig.key = want.ptt
           /\ (want.ptt /\ Defers(dev)) \/ dev.rig.f[dev.rig.rx] = want.f
           /\ want.ptt =>
                /\ dev.rig.f[dev.rig.tx] = (IF want.tx = 0 THEN want.f ELSE want.tx)
                /\ want.mode # UNK => dev.rig.m[dev.rig.tx] = want.mode

\* A failure never leaves the rig transmitting (TransceiverBase::offline unkeys
\* a driver that was on-line), unless the link to it is cut for good, or fails
\* in the very shutdown, which ignores it.
Unkeyed == ~dev.req.online /\ ~dev.lost => ~dev.rig.key

\* Read while it receives and not touched since, the rig is on the frequency
\* that the driver reports, and in split if the driver says so.
Told ==
  read /\ ~dev.act.ptt => /\ dev.act.f = dev.rig.f[dev.rig.rx]
                         /\ (ReadsSplit(dev) => dev.act.split = InSplit(dev.rig))

\* The start finds how fine the rig tunes.
ResolutionFound == seen /\ want = NoRequest => dev.res = Fineness(dev.rig.grain, Hundred)

\* All of them, while no assertion of the source has failed, which ends the program.
DriverTrue == ~dev.dead => Keyed /\ Unkeyed /\ Told /\ ResolutionFound
=============================================================================
