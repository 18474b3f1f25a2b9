---------------------------- MODULE OmniRigDriver ----------------------------
(* The driver of rigs behind OmniRig (OmniRigTransceiver.cpp).               *)
(*                                                                           *)
(* OmniRig is a server of its own: it takes commands into a queue, reads the *)
(* rig when it has time, and signals which parameters changed; the driver    *)
(* then looks the new values up in what the server read last.  So a command  *)
(* has not happened when the driver reports that it has, and what is         *)
(* signalled may be older than what was asked for since.                     *)
(*                                                                           *)
(* Beside the fields of RigDevice, dev has the server's queue (cmds), what   *)
(* it read last (cache), its signals on the way (events), whether it has the *)
(* rig on-line (up), the driver's rig_offline_ (away), its timers that run   *)
(* (timers), whether it has let go of the server's rig (gone), and, for the  *)
(* properties, whether the rig was on an odd frequency at its start.  Of the *)
(* rigs that OmniRig knows there are two kinds: those whose VFOs are read    *)
(* and set by name, and those with one frequency.                            *)
EXTENDS RigDevice, Sequences, SequencesExt

CONSTANTS
  WritableModes,  \* what sets of modes OmniRig can set on a rig
  Dials,          \* where the rigs are tuned at first
  MaxUpsets,      \* bound: how often the rig goes off-line or is turned
  Requests, MaxSets, MaxTurns, MaxFaults, MaxCommands

VARIABLES
  dev, want, fresh, seen, read, sets, turns, faults,
  behind          \* what the driver was not told of: "vfo", that the rig was in split or
                  \* on VFO B when it started, or on a rig with one frequency was put
                  \* there; "turn", that a control was turned before the server had read what
                  \* changed last; "haste", that a request was made while another was under way

----------------------------------------------------------------------------
\* The server (external).

\* What it can read of a rig; with one frequency, that of the VFO in use.
View(d) ==
  LET r == d.rig
  IN IF d.panel = "named" THEN [f |-> r.f, rx |-> r.rx, tx |-> r.tx, key |-> r.key, m |-> r.m[r.rx]]
     ELSE [f |-> r.f[IF r.key THEN r.tx ELSE r.rx], key |-> r.key, m |-> r.m[r.rx]]

Changed(old, new, p) ==
  (IF old.key # new.key THEN {IF new.key THEN "TX" ELSE "RX"} ELSE {})
  \cup (IF old.m # new.m THEN {"MODE"} ELSE {})
  \cup (IF p = "named"
        THEN (IF old.rx # new.rx \/ old.tx # new.tx THEN {"VFO"} ELSE {})
             \cup (IF old.f["A"] # new.f["A"] THEN {"FREQA"} ELSE {})
             \cup (IF old.f["B"] # new.f["B"] THEN {"FREQB"} ELSE {})
        ELSE IF old.f # new.f THEN {"FREQ"} ELSE {})

\* A command is carried out on the rig: split puts the receiver on VFO A and
\* the transmitter on VFO B, with its mode where there is one frequency (VFO
\* equalize), and simplex both on VFO A.
Effect(r, c, p) ==
  CASE c.op = "freq"    -> Tune(r, c.vfo, c.f)
    [] c.op = "current" -> Tune(r, r.rx, c.f)
    [] c.op = "vfo"     -> Receive(r, c.vfo)
    [] c.op = "mode"    -> PutMode(r, r.rx, c.m)
    [] c.op = "tx"      -> [r EXCEPT !.key = c.on]
    [] c.op = "simplex" -> [Tune(r, "A", c.f) EXCEPT !.rx = "A", !.tx = "A"]
    [] c.op = "split"   ->
         LET e == [Tune(Tune(r, "A", c.f), "B", c.tx) EXCEPT !.rx = "A", !.tx = "B"]
         IN IF p = "named" THEN e ELSE PutMode(e, "B", e.m["A"])

----------------------------------------------------------------------------
\* rig_ is used; the program ends if it was let go of.
Send(d, c) ==
  IF ~Running(d) THEN d
  ELSE IF d.gone THEN [d EXCEPT !.dead = TRUE]
  ELSE [d EXCEPT !.cmds = Append(@, c)]

DoPtt(d, on) == UpdatePtt(Send(d, [op |-> "tx", on |-> on]), on)

SetRx(d, f) ==
  IF d.panel = "named" THEN Send(d, [op |-> "freq", vfo |-> IF d.rev THEN "B" ELSE "A", f |-> f])
  ELSE Send(d, [op |-> "current", f |-> f])

\* Split or simplex, with the Rx frequency that the driver believes in; what
\* cannot be read of it is taken to be what was asked for.
Simplex(d, tx) ==
  IF tx # 0 THEN UpdateSplit(UpdateOther(Send(d, [op |-> "split", f |-> d.act.f, tx |-> tx]), tx), TRUE)
  ELSE LET e == UpdateSplit(Send(d, [op |-> "simplex", f |-> d.act.f]), FALSE)
       IN IF d.panel = "named" THEN e ELSE UpdateOther(e, 0)

DoStop(d) == [d EXCEPT !.gone = TRUE, !.events = <<>>]

\* TransceiverBase::offline in the middle of an operation, which then goes on.
Offline(d) ==
  LET d1 == IF d.req.online THEN DoPtt(d, FALSE) ELSE d
      d2 == IF d.req.online /\ d.req.split THEN Simplex(d1, 0) ELSE d1
  IN [DoStop(d2) EXCEPT !.act.online = FALSE, !.req.online = FALSE]

\* The mode can be set or the driver goes off-line.
DoMode(d, m) ==
  IF ~Running(d) THEN d
  ELSE IF d.gone \/ m \notin d.modes THEN Offline(d)
  ELSE UpdateMode(Send(d, [op |-> "mode", m |-> m]), m)

DoFrequency_kept(d, f, m) ==
  SetRx(IF m = UNK THEN d ELSE DoMode(d, m), f)

DoFrequency(d, f, m) ==
  UpdateRx(SetRx(IF m = UNK THEN d ELSE DoMode(d, m), f), f)

DoTxFrequency(d, tx, m, no_ignore) == Simplex(IF tx = 0 \/ m = UNK THEN d ELSE DoMode(d, m), tx)

\* The rig is taken as on-line only when its frequency ends in zero: one that
\* does not needs no test of the resolution, and the start is over.
DoStart(d) ==
  LET f == IF d.panel = "named" THEN d.cache.f[d.cache.rx] ELSE d.cache.f
      e == [d EXCEPT !.gone = FALSE, !.odd = f % 10 # 0]
      a == IF d.panel = "named" THEN e ELSE Send(e, [op |-> "vfo", vfo |-> "A"])
  IN IF ~d.up THEN Throw(e)
     ELSE IF f % 10 # 0 THEN a
     ELSE [UpdateRx(SetRx(SetRx(a, Tested(f, 55)), f), f) EXCEPT !.away = FALSE]

NoPoll(d) == d
Readable(d) == d.panel = "named"

Never(d) == FALSE

Always(d) == TRUE

\* A driver that is new has no timer that runs.
Constructed(d) == [d EXCEPT !.away = TRUE, !.timers = 0]

Base == INSTANCE DriverBase WITH
          Made <- Constructed, DoPoll <- NoPoll, Knows <- Always, ReadsSplit <- Readable,
          Defers <- Never, Hundred <- 2

----------------------------------------------------------------------------
\* The other handlers.

\* handle_params_change: what changed tells where to look, and the values are
\* those of the server now.
ParamsChanged(d, changed) ==
  LET c == d.cache
      d1 == IF "VFO" \in changed
            THEN [UpdateOther(UpdateRx(UpdateSplit(d, c.rx # c.tx), c.f[c.rx]), c.f[Other(c.rx)])
                    EXCEPT !.rev = (c.rx = "B")]
            ELSE d
      rx == IF d1.rev THEN "B" ELSE "A"
      d2 == CASE d.panel = "named" /\ changed \cap {"FREQA", "FREQB"} # {} ->
                   LET e == IF "FREQ" \o rx \in changed THEN UpdateRx(d1, c.f[rx]) ELSE d1
                   IN IF "FREQ" \o Other(rx) \in changed
                      THEN UpdateOther(e, c.f[Other(rx)]) ELSE e
              [] d.panel # "named" /\ "FREQ" \in changed /\ ~d.act.ptt -> UpdateRx(d1, c.f)
              [] OTHER -> d1
      d3 == IF changed \cap {"RX", "TX"} # {} THEN UpdatePtt(d2, "TX" \in changed) ELSE d2
  IN IF "MODE" \in changed THEN UpdateMode(d3, c.m) ELSE d3

Deliver ==
  /\ dev.events # <<>> /\ ~dev.gone
  /\ dev' = ParamsChanged([dev EXCEPT !.events = Tail(@)], Head(dev.events))
  /\ behind' = IF "VFO" \in Head(dev.events) THEN behind \ {"vfo"} ELSE behind
  /\ UNCHANGED <<want, fresh, seen, read, sets, turns, faults>>

\* The server carries out its next command, and reads the rig.
Execute ==
  /\ dev.cmds # <<>> /\ dev.up
  /\ dev' = [dev EXCEPT !.cmds = Tail(@), !.rig = Effect(@, Head(dev.cmds), dev.panel)]
  /\ UNCHANGED <<behind, want, fresh, seen, read, sets, turns, faults>>

ReadRig ==
  /\ dev.up /\ dev.cache # View(dev)
  /\ dev' = [dev EXCEPT !.cache = View(dev),
                        !.events = IF dev.gone THEN @
                                   ELSE Append(@, Changed(dev.cache, View(dev), dev.panel))]
  /\ UNCHANGED <<behind, want, fresh, seen, read, sets, turns, faults>>

\* handle_status_change: off-line starts a timer of 5 s unless the rig counts as
\* off-line already; on-line again, the frequency is looked up.
StatusChange ==
  /\ faults + turns < MaxUpsets \/ ~dev.up
  /\ dev' = IF dev.gone THEN [dev EXCEPT !.up = ~@]
            ELSE IF dev.up THEN [dev EXCEPT !.up = FALSE, !.away = TRUE,
                                            !.timers = IF dev.away THEN @ ELSE @ + 1]
            ELSE UpdateRx([dev EXCEPT !.up = TRUE, !.away = FALSE, !.odd = FALSE],
                          IF dev.panel = "named" THEN dev.cache.f[dev.cache.rx] ELSE dev.cache.f)
  /\ faults' = IF dev.up THEN faults + 1 ELSE faults
  /\ fresh' = FALSE
  /\ UNCHANGED <<behind, want, seen, read, sets, turns>>

\* timeout_check, 5 s after a status change, whatever happened since.
TimeoutCheck ==
  /\ dev.timers > 0
  /\ dev' = [(IF dev.away /\ ~dev.gone THEN Offline(dev) ELSE dev) EXCEPT !.timers = @ - 1]
  /\ UNCHANGED <<behind, want, fresh, seen, read, sets, turns, faults>>

\* Nothing is under way between the server and the rig, and with the driver.
Quiet == dev.cmds = <<>> /\ dev.cache = View(dev)
Settled == dev.req.online /\ dev.up /\ ~dev.gone /\ Quiet /\ dev.events = <<>>

\* A start never asks the server for split or for the VFO that receives, but waits
\* to be told of a change.
Unasked == IF InSplit(dev.rig) \/ dev'.rev # (dev.rig.rx = "B") THEN {"vfo"} ELSE {}
Haste(calm) == IF calm THEN {} ELSE {"haste"}

Start == Base!Start /\ behind' = Unasked \cup Haste(Quiet)
Restart == \E s \in Requests : Base!Restart(s) /\ behind' = Unasked \cup {"haste"}
Set == \E s \in Requests : Base!Set(s) /\ behind' = behind \cup Haste(Settled)
Stop == Base!Stop /\ UNCHANGED behind
Turns ==
  /\ faults + turns < MaxUpsets
  /\ Base!Turns
  /\ behind' = behind \cup (IF Quiet THEN {} ELSE {"turn"})
       \cup (IF dev.panel = "named" \/ <<dev.rig.rx, dev.rig.tx>> = <<dev'.rig.rx, dev'.rig.tx>>
             THEN {} ELSE {"vfo"})

Devices ==
  {[rig |-> r, act |-> Nothing, req |-> Nothing, rev |-> FALSE, res |-> 0, ok |-> TRUE,
    dead |-> FALSE, left |-> NoFault, cut |-> FALSE, hit |-> FALSE, lost |-> FALSE,
    panel |-> p, modes |-> modes, cmds |-> <<>>, events |-> <<>>, up |-> TRUE, away |-> TRUE,
    timers |-> 0, gone |-> TRUE, odd |-> FALSE,
    cache |-> View([rig |-> r, panel |-> p])] :
     r \in {[f |-> [v \in Vfos |-> f], m |-> [v \in Vfos |-> m], rx |-> "A", tx |-> "A",
             key |-> FALSE, grain |-> [hz |-> 1, round |-> FALSE], free |-> TRUE] :
              f \in Dials, m \in {s.mode : s \in Requests} \ {UNK}},
     p \in {"named", "single"}, modes \in WritableModes}

Init == Base!InitWith(Devices) /\ behind = {}

Next ==
  \/ Start \/ Restart \/ Set \/ Stop \/ Turns
  \/ Deliver \/ Execute \/ ReadRig \/ StatusChange \/ TimeoutCheck

Spec == Init /\ [][Next]_<<Base!vars, behind>>

----------------------------------------------------------------------------
\* Once all is settled the driver reports the rig as it is, unless it has not been
\* told of its VFOs.  A rig with one frequency is reported right while it receives
\* and nothing was asked in haste: a frequency that is signalled together with the
\* end of a transmission is dropped.
Agreed ==
  Settled /\ want # Base!NoRequest =>
    /\ dev.act.ptt = dev.rig.key
    /\ behind \cap {"vfo", "turn"} = {} /\ (dev.panel = "named" \/ ~(dev.rig.key \/ "haste" \in behind)) =>
         dev.act.f = dev.rig.f[dev.rig.rx]
    /\ behind \cap {"vfo", "turn"} = {} /\ dev.panel = "named" =>
         /\ dev.act.split = InSplit(dev.rig)
         /\ InSplit(dev.rig) => dev.act.tx = dev.rig.f[Other(dev.rig.rx)]

\* A settled request has the rig receive and transmit where it was asked to, if
\* the driver had been told of everything when it was made.
KeyedAgreed ==
  Settled /\ fresh /\ behind = {} =>
    /\ dev.rig.key = want.ptt
    /\ dev.rig.f[dev.rig.rx] = want.f
    /\ want.ptt => dev.rig.f[dev.rig.tx] = (IF want.tx = 0 THEN want.f ELSE want.tx)

\* A rig that is off-line is found so by a timer, unless it is back before or the
\* driver never took it for on-line, which its start does not on a frequency that
\* does not end in zero.
OfflineSeen == dev.req.online /\ ~dev.up => dev.timers > 0 \/ dev.odd

\* "give OmniRig 5 seconds to recover" (OmniRigTransceiver.cpp:341).
OfflineAlwaysSeen == dev.req.online /\ ~dev.up => dev.timers > 0

\* The driver never uses a rig that it has let go of.
NoAssert == ~dev.dead

OmniRigTrue == Agreed /\ KeyedAgreed /\ OfflineSeen /\ NoAssert
=============================================================================
