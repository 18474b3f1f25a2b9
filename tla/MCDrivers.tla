------------------------------ MODULE MCDrivers ------------------------------
(* A small world for the drivers of rigs: Ham Radio Deluxe with six kinds of *)
(* panel, Hamlib with four kinds of rig, DX Lab Commander, split emulated    *)
(* around it, and OmniRig.  "part" says which of them a behaviour is of;     *)
(* they do not meet.                                                         *)
EXTENDS Integers

CONSTANTS UNK, MaxSets, MaxTurns, MaxFaults, MaxCommands, MaxUpsets

VARIABLES part, dev, want, fresh, seen, read, sets, turns, faults, asked, shown, behind

----------------------------------------------------------------------------
\* The panels of Ham Radio Deluxe that differ in the way an operation takes.
Bare == [vfos |-> 1, vfoAB |-> FALSE, toggle |-> FALSE, rxAB |-> FALSE, txAB |-> FALSE,
         receiver |-> FALSE, modeB |-> FALSE, splitOn |-> FALSE, splitOff |-> FALSE,
         splitList |-> FALSE, data |-> FALSE]
Icom == [Bare EXCEPT !.vfoAB = TRUE, !.splitOn = TRUE, !.splitOff = TRUE, !.data = TRUE]
Toggle == [Bare EXCEPT !.toggle = TRUE, !.splitOn = TRUE, !.splitOff = TRUE]
Kenwood == [Bare EXCEPT !.vfos = 2, !.vfoAB = TRUE, !.splitOn = TRUE]
Yaesu == [Bare EXCEPT !.vfos = 2, !.vfoAB = TRUE, !.rxAB = TRUE, !.txAB = TRUE]
Dual == [Bare EXCEPT !.vfos = 2, !.vfoAB = TRUE, !.txAB = TRUE, !.receiver = TRUE]
Flex == [Bare EXCEPT !.vfos = 2, !.vfoAB = TRUE, !.modeB = TRUE, !.splitList = TRUE]

\* How finely they tune: the grains are shared out between two drivers.
Grain(hz, round) == [hz |-> hz, round |-> round]
Fine == Grain(1, FALSE)
Grains == {Fine, Grain(10, TRUE), Grain(10, FALSE), Grain(20, FALSE)}

Machines ==
  ({Kenwood, Yaesu, Dual, Flex} \X {Fine})
    \cup {<<Toggle, Grain(20, TRUE)>>, <<Icom, Grain(100, FALSE)>>}

\* What can be asked of rigs through Hamlib.
Readable == [getVfo |-> TRUE, setVfo |-> TRUE, one |-> FALSE, targets |-> TRUE, auto |-> FALSE,
             query |-> TRUE]
Auto == [Readable EXCEPT !.auto = TRUE, !.targets = FALSE]
Blind == [Readable EXCEPT !.getVfo = FALSE, !.one = TRUE, !.query = FALSE]
Swapped == [Readable EXCEPT !.getVfo = FALSE, !.setVfo = FALSE, !.targets = FALSE]
HamlibMachines == {<<Readable, Grain(100, TRUE)>>, <<Auto, Fine>>, <<Blind, Fine>>, <<Swapped, Fine>>}

\* Simplex and split, keyed or not; another mode; another band.
Requests ==
  [f : {1000}, tx : {0, 1100}, mode : {"USB"}, ptt : BOOLEAN]
    \cup [f : {1000}, tx : {0}, mode : {"DIG"}, ptt : {TRUE}]
    \cup [f : {1100}, tx : {0}, mode : {UNK}, ptt : {FALSE}]

\* Fewer for OmniRig, whose server takes steps of its own.
FewRequests ==
  [f : {1000}, tx : {0, 1100}, mode : {"USB"}, ptt : {TRUE}]
    \cup [f : {1100}, tx : {0}, mode : {UNK}, ptt : {FALSE}]

\* The VFOs differ in frequency, in mode or in nothing at first.
Both(f, m) == [f |-> [v \in {"A", "B"} |-> f], m |-> [v \in {"A", "B"} |-> m]]
Same == Both(1100, "USB")
Starts == {Same, [Same EXCEPT !.f["B"] = 1000], [Same EXCEPT !.m["B"] = "DIG"]}

Hrd == INSTANCE HrdDriver
Hamlib == INSTANCE HamlibDriver WITH
            Machines <- HamlibMachines, Starts <- {x \in Starts : x.m["B"] = "USB"}, AutoMode <- "USB"
Commander == INSTANCE CommanderDriver WITH Tunings <- Grains
Emulation == INSTANCE CommanderDriver WITH Tunings <- {Fine}
Omni == INSTANCE OmniRigDriver WITH
          Requests <- FewRequests, Dials <- {1100}, MaxSets <- MaxSets - 1,
          WritableModes <- {{"USB", "DIG"}}

----------------------------------------------------------------------------
Idle == asked = 0 /\ shown = 0
MCInit ==
  /\ behind = {}
  /\ \/ part = "hrd" /\ Hrd!Init /\ Idle
     \/ part = "hamlib" /\ Hamlib!Init /\ Idle
     \/ part = "commander" /\ Commander!Init /\ Idle
     \/ part = "emulation" /\ Emulation!EmulationInit
     \/ part = "omnirig" /\ Omni!Init /\ Idle

HrdStep == part = "hrd" /\ Hrd!Next /\ UNCHANGED <<asked, shown, behind>>
HamlibStep == part = "hamlib" /\ Hamlib!Next /\ UNCHANGED <<asked, shown, behind>>
CommanderStep == part = "commander" /\ Commander!Next /\ UNCHANGED <<asked, shown, behind>>
EmulationStep == part = "emulation" /\ Emulation!EmulationNext /\ UNCHANGED behind
OmniStep == part = "omnirig" /\ Omni!Next /\ UNCHANGED <<asked, shown>>

MCNext == (HrdStep \/ HamlibStep \/ CommanderStep \/ EmulationStep \/ OmniStep) /\ UNCHANGED part
MCSpec ==
  MCInit
    /\ [][MCNext]_<<part, dev, want, fresh, seen, read, sets, turns, faults, asked, shown, behind>>

----------------------------------------------------------------------------
\* Through Ham Radio Deluxe, Hamlib and DX Lab Commander a rig that the driver has
\* read is keyed on the frequencies and in the mode asked for, is reported as it is,
\* and its resolution is found; every failure unkeys it, unless the link is cut or
\* the unkeying itself fails (DriverBase).  No assertion fails, unless a rig with one
\* VFO at a time was put on VFO B by hand (HrdDriver).  Emulated split transmits and
\* receives where it was asked to and shows its clients the Rx frequency all the while
\* (CommanderDriver).  OmniRig does what it is asked for, unless it was asked in haste
\* or not told of the VFOs, and what it signals is true in the end; a rig that is
\* off-line is found so, unless it was on an odd frequency at the start
\* (OmniRigDriver).
DriversTrue ==
  /\ part = "hrd" => Hrd!Base!DriverTrue /\ Hrd!NoAssert
  /\ part = "hamlib" => Hamlib!Base!DriverTrue
  /\ part = "commander" => Commander!Base!DriverTrue
  /\ part = "emulation" => Emulation!SplitTrue
  /\ part = "omnirig" => Omni!OmniRigTrue
=============================================================================
