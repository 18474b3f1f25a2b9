----------------------------- MODULE MCStation ------------------------------
(* A small world for what surrounds the sequencers of the station: the audio *)
(* of a period until the decoder is started with it, and the pages of the    *)
(* settings dialog.  "part" says which component a behaviour is of; they do  *)
(* not meet, and the variables s1, s2 ... stand for those of the part.       *)
EXTENDS Integers, Sequences, TLC

CONSTANTS
  MaxTime, MaxOps, MaxEdits,
  News, Backs, Hides, Palette, OptionSets,                    \* SettingsOptions
  RigTypes, CatPtt, Indirect, Mic, FirstRig, Serial, Network, Usb, SavedRigs,   \* RigForm
  Devices, Channels,                                          \* SoundChoice
  Fields, Values, Default, Announced, Macros, MaxMacros,      \* SettingsStore
  PowerBands, PowerModes, Levels,                             \* PowerMemory
  Dials, Turned, Offsets, StartFreq, Span, Fmin, Top65, LastUsed    \* TxDial

VARIABLES part, s1, s2, s3, s4, s5, s6, s7, s8, s9, s10, s11, s12, s13, s14, s15, s16,
          s17, s18, s19

\* Four schedules a settings file may hold: rows of hour, minute, frequency and mix.
Row(h, m, b, x) == [hh |-> h, mm |-> m, band |-> b, mix |-> x]
Sched(rows, use) ==
  [hh |-> [r \in 1..3 |-> rows[r].hh], mm |-> [r \in 1..3 |-> rows[r].mm],
   band |-> [r \in 1..3 |-> rows[r].band], mix |-> [r \in 1..3 |-> rows[r].mix], use |-> use]
NoRow == Row(0, 0, 0, FALSE)
Schedules ==
  {Sched(<<NoRow, NoRow, NoRow>>, FALSE),
   Sched(<<Row(1, 1, 1, TRUE), Row(2, 1, 2, FALSE), NoRow>>, TRUE),
   Sched(<<Row(2, 1, 3, FALSE), NoRow, NoRow>>, TRUE),
   Sched(<<Row(1, 1, 1, FALSE), Row(2, 1, 3, FALSE), Row(1, 2, 1, TRUE)>>, TRUE)}

\* The parameters of a fresh installation, of a rig on a serial port that is keyed
\* by commands and of one that keys a line of its own port.
FourRigs == [None |-> "none", Icom |-> "serial", Hrd |-> "network", Omni |-> "none"]
At(serial, network) == [serial |-> serial, network |-> network, usb |-> ""]
NoRig == [rig |-> "None", address |-> At("", ""), hw |-> FALSE, dtr |-> FALSE, rts |-> FALSE,
          method |-> "VOX", pport |-> "", rear |-> FALSE, rest |-> 0]
ThreeRigs ==
  {NoRig,
   [NoRig EXCEPT !.rig = "Icom", !.address = At("S1", "N1"), !.method = "CAT", !.dtr = TRUE,
                 !.pport = "S1"],
   [NoRig EXCEPT !.rig = "Omni", !.address = At("", "N1"), !.method = "RTS", !.pport = "CAT"]}

\* Options in force at the start: none, and some that depend on each other.
TwoLoads ==
  {{}, {<<"new", "DXCC">>, <<"worked", "Color">>, <<"worked", "Underlined">>, <<"country", "">>}}

\* Frequencies of three modes near each other, one of WSPR, and two of the next band.
At250(f, mode) == [f |-> f, mode |-> mode]
SixDials == <<At250(100, "JT65"), At250(108, "JT9"), At250(116, "T10"), At250(178, "WSPR"),
              At250(300, "JT65"), At250(308, "JT9")>>
Older == {"JT9", "JT65", "JT9+JT65", "T10", "WSPR-2", "JT4", "Echo", "ISCAT", "JTMSK"}

\* Stations of one country and of none known; what may be highlighted as new, and filters.
St(call, country, grid) == [call |-> call, country |-> country, grid |-> grid]
New(x, band, mode) == [new |-> x, band |-> band, mode |-> mode]
Highlights ==
  {New({}, {}, {}), New({"DXCC"}, {"DXCC"}, {}), New({"Call"}, {"Call"}, {"Call"}),
   New({"DXCC", "Grid"}, {"Grid"}, {"DXCC"}), New({"Call", "Grid"}, {}, {})}
Filters ==
  {[new |-> n.new, band |-> n.band, mode |-> n.mode, potential |-> TRUE, dontShow |-> f # "cq73",
    hidefree |-> f = "cq", only |-> f, continents |-> {"A"}, country |-> f = "",
    bypass |-> f = "cq73"] : n \in Highlights, f \in {"", "cq", "cq73"}}

\* A file of calls that is missing, empty, in order, and without its last entry.
Entry(call, grid) == [call |-> call, grid |-> grid]
CallFiles == {<<Entry(-1, "")>>, <<>>, <<Entry(2, "g"), Entry(3, "h"), Entry(99, "")>>,
              <<Entry(1, "g"), Entry(3, "h")>>}

\* Lists of countries with and without the semicolon at the end; calls of two letters.
Name(n) == [name |-> n, prefixes |-> {}, last |-> FALSE]
Prefixes(p, last) == [name |-> "", prefixes |-> p, last |-> last]
Lists == {<<>>, <<Name("A")>>} \cup
  {<<Name("A"), Prefixes(p, TRUE), Name("B"), Prefixes(q, FALSE), Prefixes(r, e)>> :
     p, r \in SUBSET {<<1>>, <<1, 2>>}, q \in {{}, {<<2, 1, 1>>}}, e \in BOOLEAN}

----------------------------------------------------------------------------
\* A period of eight blocks, decoded after four or five of them.
Rec == INSTANCE Reception WITH
  now <- s1, active <- s2, kin <- s3, m_ns <- s4, d2 <- s5, audioQ <- s6, frameQ <- s7,
  k0 <- s8, ihsym <- s9, m_monitoring <- s10, m_transmitting <- s11, ndelay <- s12,
  m_addtx <- s13, at52 <- s14, job <- s15, decodes <- s16, heard <- s17, stalled <- s18,
  ops <- s19, Period <- 8, LateLimit <- 4, AddTx <- 1, MaxLag <- 2,
  Stop <- [b \in BOOLEAN |-> IF b THEN 4 ELSE 3], Stalls <- {3, 8}

\* Three rows of the schedule, three frequencies.
Plan == INSTANCE ScheduleForm WITH
  saved <- s1, form <- s2, open <- s3, lost <- s4, bare <- s5, clean <- s6,
  edits <- s7, Last <- 3,
  Hours <- 0..2, Minutes <- 0..2, Freqs <- 1..3, JT65 <- {1}, Defaults <- {1, 2}

\* Two things that can be new, two backgrounds; a turn less than the other pages.
Opt == INSTANCE SettingsOptions WITH
  force <- s1, ink <- s2, box <- s3, on <- s4, next <- s5, nextInk <- s6, look <- s7,
  seen <- s8, open <- s9, edits <- s10, cancelled <- s11, chosen <- s12, repainted <- s13,
  undone <- s14, Kinds <- News, Loaded <- OptionSets, MaxEdits <- MaxEdits - 1

\* Rigs on a serial port, on the network and behind OmniRig.
Rig == INSTANCE RigForm WITH
  params <- s1, page <- s2, rig <- s3, have <- s4, open <- s5, edits <- s6, stale <- s7,
  left <- s8,
  Types <- RigTypes, First <- FirstRig, Saved <- SavedRigs

\* Three sound devices.
Sound == INSTANCE SoundChoice WITH
  plugged <- s1, default <- s2, device <- s3, channel <- s4, file <- s5, box <- s6,
  channelBox <- s7, selected <- s8, restart <- s9, stream <- s10, open <- s11,
  edits <- s12, left <- s13, fallen <- s14

\* A call and the address of the UDP server.
Store == INSTANCE SettingsStore WITH
  force <- s1, form <- s2, file <- s3, told <- s4, macros <- s5, next_macros <- s6,
  fileMacros <- s7, list <- s8, shared <- s9, open <- s10, edits <- s11, touched <- s12,
  entered <- s13

Power == INSTANCE PowerMemory WITH
  band <- s1, mode <- s2, modeTx <- s3, level <- s4, txPower <- s5, tunePower <- s6,
  txMem <- s7, tuneMem <- s8, tune <- s9, lastChecked <- s10, timer <- s11, ops <- s12,
  chosen <- s13, strayed <- s14, fresh <- s15, Bands <- PowerBands, Modes <- PowerModes,
  MaxOps <- MaxOps + 2

Dial == INSTANCE TxDial WITH
  w <- s1, ops <- s2, heard <- s3, deferred <- s4, List <- Dials,
  Typed <- Turned

\* The modes of the menu and those of older settings files.
Menu == INSTANCE ModeMenu WITH
  m <- s1, file <- s2, vhf <- s3, ops <- s4, legacy <- s5,
  Menu <- {"JT9", "JT65", "JT9+JT65", "T10", "WSPR-2"}, Saved <- Older, Vhf <- BOOLEAN,
  MaxOps <- MaxOps + 1

\* Two contacts, one fault of a file or a server.
Log == INSTANCE QsoLog WITH
  opt <- s1, dx <- s2, contacts <- s3, marked <- s4, timer <- s5, dlg <- s6, on <- s7,
  frames <- s8, adif <- s9, text <- s10, mem <- s11, told <- s12, sent <- s13, ops <- s14,
  failed <- s15, over <- s16, old <- s17, MaxContacts <- 2, MaxOps <- MaxOps + 1, MaxFaults <- 1

\* Two bands, and two modes.
Text == INSTANCE DecodeDisplay WITH
  o <- s1, dial <- s2, mode <- s3, made <- s4, log <- s5, line <- s6, notified <- s7,
  beeps <- s8, Stations <- {St("a1", "A", "g1"), St("a2", "A", ""), St("n1", "", "g1")},
  Dials <- {7076, 14076}, Modes <- {"JT9", "JT65"},
  Options <- {f \in Filters : (f.only = "") # (f.new = {"DXCC", "Grid"})}, MaxContacts <- 1

\* Four calls, the second begins the third; calls of up to three letters for countries.
Ref == INSTANCE ReferenceFiles WITH
  txt <- s1, tmp <- s2, old <- s3, add <- s4, adds <- s5, known <- s6, crashed <- s7,
  shut <- s8, file <- s9, at <- s10, pc <- s11, name <- s12, data <- s13, Calls <- 1..4,
  Begins <- {<<2, 3>>}, Grids <- {"g", "h"}, Start <- CallFiles, MaxAdds <- MaxOps,
  Files <- Lists, Words <- UNION {[1..n -> {1, 2}] : n \in 0..3}

ASSUME MCAssumption ==
  /\ Rec!ReceptionAssumption
  /\ Plan!FormAssumption
  /\ Opt!OptionAssumption
  /\ Rig!FormAssumption
  /\ Sound!SoundAssumption
  /\ Store!StoreAssumption
  /\ Power!PowerAssumption
  /\ Dial!DialAssumption
  /\ Menu!MenuAssumption
  /\ Log!LogAssumption
  /\ Text!DisplayAssumption
  /\ Ref!CallAssumption /\ Ref!CountryAssumption

----------------------------------------------------------------------------
\* A part leaves the variables it has no use for alone.
MCInit ==
  \/ /\ part = "reception" /\ Rec!Init
  \/ /\ part = "schedule" /\ Plan!Init
     /\ s8 = 0 /\ s9 = 0 /\ s10 = 0 /\ s11 = 0 /\ s12 = 0 /\ s13 = 0 /\ s14 = 0 /\ s15 = 0
     /\ s16 = 0 /\ s17 = 0 /\ s18 = 0 /\ s19 = 0
  \/ /\ part = "options" /\ Opt!Init
     /\ s15 = 0 /\ s16 = 0 /\ s17 = 0 /\ s18 = 0 /\ s19 = 0
  \/ /\ part = "rig" /\ Rig!Init
     /\ s9 = 0 /\ s10 = 0 /\ s11 = 0 /\ s12 = 0 /\ s13 = 0 /\ s14 = 0 /\ s15 = 0 /\ s16 = 0
     /\ s17 = 0 /\ s18 = 0 /\ s19 = 0
  \/ /\ part = "sound" /\ Sound!Init
     /\ s15 = 0 /\ s16 = 0 /\ s17 = 0 /\ s18 = 0 /\ s19 = 0
  \/ /\ part = "store" /\ Store!Init
     /\ s14 = 0 /\ s15 = 0 /\ s16 = 0 /\ s17 = 0 /\ s18 = 0 /\ s19 = 0
  \/ /\ part = "power" /\ Power!Init
     /\ s16 = 0 /\ s17 = 0 /\ s18 = 0 /\ s19 = 0
  \/ /\ part = "dial" /\ Dial!Init
     /\ s5 = 0 /\ s6 = 0 /\ s7 = 0 /\ s8 = 0 /\ s9 = 0 /\ s10 = 0 /\ s11 = 0 /\ s12 = 0 /\ s13 = 0
     /\ s14 = 0 /\ s15 = 0 /\ s16 = 0 /\ s17 = 0 /\ s18 = 0 /\ s19 = 0
  \/ /\ part = "modes" /\ Menu!Init
     /\ s6 = 0 /\ s7 = 0 /\ s8 = 0 /\ s9 = 0 /\ s10 = 0 /\ s11 = 0 /\ s12 = 0 /\ s13 = 0 /\ s14 = 0 /\ s15 = 0
     /\ s16 = 0 /\ s17 = 0 /\ s18 = 0 /\ s19 = 0
  \/ /\ part = "log" /\ Log!Init
     /\ s18 = 0 /\ s19 = 0
  \/ /\ part = "display" /\ Text!Init
     /\ s9 = 0 /\ s10 = 0 /\ s11 = 0 /\ s12 = 0 /\ s13 = 0 /\ s14 = 0 /\ s15 = 0 /\ s16 = 0
     /\ s17 = 0 /\ s18 = 0 /\ s19 = 0
  \/ /\ part = "calls" /\ Ref!CallInit
     /\ s9 = 0 /\ s10 = 0 /\ s11 = 0 /\ s12 = 0 /\ s13 = 0 /\ s14 = 0 /\ s15 = 0 /\ s16 = 0
     /\ s17 = 0 /\ s18 = 0 /\ s19 = 0
  \/ /\ part = "countries" /\ Ref!CountryInit
     /\ s1 = 0 /\ s2 = 0 /\ s3 = 0 /\ s4 = 0 /\ s5 = 0 /\ s6 = 0 /\ s7 = 0 /\ s8 = 0
     /\ s14 = 0 /\ s15 = 0 /\ s16 = 0 /\ s17 = 0 /\ s18 = 0 /\ s19 = 0
ReceptionStep ==
  /\ part = "reception" /\ Rec!Next
ScheduleStep ==
  /\ part = "schedule" /\ Plan!Next
  /\ UNCHANGED <<s8, s9, s10, s11, s12, s13, s14, s15, s16, s17, s18, s19>>
OptionsStep ==
  /\ part = "options" /\ Opt!Next
  /\ UNCHANGED <<s15, s16, s17, s18, s19>>
RigStep ==
  /\ part = "rig" /\ Rig!Next
  /\ UNCHANGED <<s9, s10, s11, s12, s13, s14, s15, s16, s17, s18, s19>>
SoundStep ==
  /\ part = "sound" /\ Sound!Next
  /\ UNCHANGED <<s15, s16, s17, s18, s19>>
StoreStep ==
  /\ part = "store" /\ Store!Next
  /\ UNCHANGED <<s14, s15, s16, s17, s18, s19>>
PowerStep ==
  /\ part = "power" /\ Power!Next
  /\ UNCHANGED <<s16, s17, s18, s19>>
DialStep ==
  /\ part = "dial" /\ Dial!Next
  /\ UNCHANGED <<s5, s6, s7, s8, s9, s10, s11, s12, s13, s14, s15, s16, s17, s18, s19>>
ModesStep ==
  /\ part = "modes" /\ Menu!Next
  /\ UNCHANGED <<s6, s7, s8, s9, s10, s11, s12, s13, s14, s15, s16, s17, s18, s19>>
LogStep ==
  /\ part = "log" /\ Log!Next
  /\ UNCHANGED <<s18, s19>>
DisplayStep ==
  /\ part = "display" /\ Text!Next
  /\ UNCHANGED <<s9, s10, s11, s12, s13, s14, s15, s16, s17, s18, s19>>
CallsStep ==
  /\ part = "calls" /\ Ref!CallNext
  /\ UNCHANGED <<s9, s10, s11, s12, s13, s14, s15, s16, s17, s18, s19>>
CountriesStep ==
  /\ part = "countries" /\ Ref!CountryNext
  /\ UNCHANGED <<s1, s2, s3, s4, s5, s6, s7, s8, s14, s15, s16, s17, s18, s19>>
MCVars == <<part, s1, s2, s3, s4, s5, s6, s7, s8, s9, s10, s11, s12, s13, s14, s15,
            s16, s17, s18, s19>>
MCNext ==
  /\ UNCHANGED part
  /\ \/ ReceptionStep \/ ScheduleStep \/ OptionsStep \/ RigStep \/ SoundStep
     \/ StoreStep \/ PowerStep \/ DialStep \/ ModesStep \/ LogStep
     \/ DisplayStep \/ CallsStep \/ CountriesStep
MCSpec == MCInit /\ [][MCNext]_MCVars

----------------------------------------------------------------------------
\* What the clock sets off is what is due: the decoder is started with the gapless audio
\* of one period, for every period received from its start or from before the limit, and is
\* told what is missing (Reception); each row of the band schedule but the last is acted on
\* at its time with Enable Tx off, unless its frequency was taken out of the table or its
\* boxes were those of a start with a blank row, and the dialog shows the schedule that is
\* (ScheduleForm).
ClockTrue ==
  /\ part = "reception" => Rec!JobWhole /\ Rec!PeriodTold
  /\ part = "schedule" => Plan!RowsHeld /\ Plan!ShownAtOpen

\* The pages of the settings dialog show what OK would bring into force, and cannot
\* be clicked into a state that contradicts itself (SettingsOptions, SettingsStore).
PagesTrue ==
  /\ part = "options" => Opt!Consistent /\ Opt!PreviewTrue
  /\ part = "store" => Store!DialogTrue

\* However the dialog is left, the rig and the sound run as the settings in force say,
\* and these outlive the program; what was cancelled is undone but for the exceptions
\* named there (RigForm, SoundChoice, SettingsStore, SettingsOptions).
SettingsKept ==
  /\ [](part = "rig" => Rig!RigAsSet /\ Rig!KeyingPossible)
  /\ [](part = "sound" => Sound!StreamAsSet)
  /\ [][/\ (part = "sound" => Sound!KeptAtStart)
         /\ (part = "store" => Store!KeptAtStart)
         /\ (part = "options" => Opt!ChosenAtOK)]_MCVars

\* The signal on the air is the one shown, however the mode, the band, the offsets, the
\* tune button and the slider were used: its mode and submode and the period (ModeMenu), its
\* power (PowerMemory) and its frequency (TxDial), but for the cases named there.
SignalTrue ==
  /\ [](part = "modes" => Menu!PeriodsAgree /\ Menu!SignalTrue)
  /\ [](part = "power" => Power!PowerKept /\ Power!NotFullPower)
  /\ [](part = "dial" => Dial!RfTrue /\ Dial!ToneCentred /\ Dial!DialTrue)
  /\ [][part = "dial" => Dial!NearStep]_MCVars

\* What was worked is logged as a whole, is not lost and is known again: the contacts, unless
\* one is logged from m_hisCallOld after another, offered in the boxes of another, taken from
\* the window by another, or stands behind a record cut short (QsoLog); the calls with their
\* grids, unless the program stopped between two renames or the file lacks its last entry, and
\* the countries (ReferenceFiles); and what the text windows show of them (DecodeDisplay).
LogKept ==
  /\ [](part = "log" => Log!RecordsWhole /\ Log!LogsAgree /\ Log!MemoryIsFile)
  /\ [](part = "calls" => Ref!Found /\ Ref!InOrder /\ Ref!OldKept)
  /\ [](part = "countries" => Ref!FindTrue /\ Ref!NeverStuck)
  /\ [](part = "display" => Text!MarkTrue /\ Text!NewShown /\ Text!BeepsOnce /\ Text!RightInLeft)
  /\ [][part = "log" => Log!DropStep /\ Log!ClickStep]_MCVars

============================================================================
