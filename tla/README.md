# A TLA+ specification of JTDX

JTDX is an amateur radio program for weak signals, a descendant of WSJT-X: a Qt/C++
program that keys a radio, plays and records audio in periods of one minute (JT65, JT9,
T10) or two (WSPR), and hands what it received to a decoder, a Fortran program that runs
beside it. Nearly all of its state lives in one class, `MainWindow`; the rig, the audio,
the decoder and the network are reached through queued signals, files, pipes and sockets.
The specifications here model the parts in which order, timing and failure decide what
happens. What is only arithmetic on samples, text layout or drawing is left out.

Contents: [the system](#the-system), [the modules](#the-modules),
[what is checked](#what-is-checked), [disagreements](#disagreements),
[what is proved](#what-is-proved), [what is not modelled](#what-is-not-modelled),
[plan](#plan), [how to run](#how-to-run).

## The system

The processes and threads, and what passes between them:

```
 operator --> MainWindow (GUI thread) --tune, start, end--> Modulator  (audio thread) --> sound card
                | ^  100 ms m_guiTimer <--framesWritten---- Detector   (audio thread) <-- sound card
                | |  single-shot timers
                | +--update, failure-- Configuration <--update, failure-- Transceiver (rig thread) <-- rig
                +----frequency, PTT--> Configuration --start, set, stop--> Transceiver           --> rig
                |
                +-- shared memory, .lock, .quit --> jtdxjt9 (process) -- stdout --> readFromStdout
                +-- .wav --> wsprd (process) -- wspr_spots.txt, stdout --> p1ReadFromStdout
                +-- UDP (MessageClient), PSK Reporter, WSPRnet (HTTP), log files
```

| component | state | operations | hard because | correct if |
|---|---|---|---|---|
| Transmit sequencer (`mainwindow.cpp`) | `m_auto`, `m_tune`, `m_bTxTime`, `m_btxok`, `g_iptt`, `m_transmitting`, statics of handlers, five timers | `guiUpdate` every 100 ms, `stopTx`, time-outs, buttons, the watchdog | flags are set by many handlers and read by one; timers outlive what started them; audio is in another thread | the rig is never left keyed, the end of a transmission is never lost, no transmission outside its period, no carrier without Tune |
| Modulator and sound output | `m_state`, `m_tuning` | `start`, `stop`, `tune`, `readData` | driven by queued calls, read across threads | follows the sequencer through the queue |
| Transceiver base and polling | `requested_`, `actual_`, `last_`, `next_state_`, `retries_`, the poll timer | `start`, `set`, `stop`, polls | any command may throw, the rig takes time, the operator touches it | no command to a closed driver; unkeyed when closed; clients see no intermediate state and miss no final one |
| Rig control (`Configuration`, `MainWindow`) | `rig_active_`, `cached_rig_state_`, the command number, the last state shown | `open_rig`, `close_rig`, commands, updates, failures | two event queues cross; instances are replaced and die | one connection at a time has the rig; none is forgotten; display and rig agree in the end |
| Drivers (Hamlib, HRD, Commander, OmniRig) and emulated split | what a rig offers, which VFO receives, what was asked for | the `do_...` operations, polls, signals | several commands make one operation, any fails; remote programs answer late or not at all | what is reported is what the rig does, or a failure that was |
| Decode handshake (`decode`, `jt9a.f90`) | shared memory, the files `.lock` and `.quit`, `m_decoderBusy` | `decode`, `readFromStdout`, `closeEvent`, the decoder's loop | two processes that see each other only through files | one job at a time, whole, answered; the decoder ends with the program |
| Reception (`Detector`, `dataSink`) | `kin`, `ihsym`, `ndelay`, `m_monitoring` | `writeData`, `dataSink`, Monitor | samples counted in one thread, used in another; switched on and off in mid-period | what is decoded is one period, and what is missing of it is told |
| Recordings (`diskDat`, `BWFFile`, the sample downloader) | the reader threads, `m_diskData`, `m_loopall`, a file's header | Open, Open Next, Decode Remaining, saving, downloading | nested event loops; files may be torn | a job has the samples of one file; a torn file is refused |
| QSO sequencer (`processMessage`) | DX call, stage, reports, `m_qsohistory`, timers | a decoded line, a click, a transmitted message | hundreds of cases that depend on what both stations said | a contact is logged when it was earned, nobody is called over |
| WSPR: hopping, schedule, decoder, upload | the table of bands, the permutations, the schedule, hashes, the file of spots, requests | `next_hop`, `create_tx_schedule`, `wsprd`, `uploadSpots`, `networkReply` | random choice under rules; replies come late; a process and a thread share files | sent on the band hopped to; every band visited; limits kept; each spot told once |
| PSK Reporter | the spot queue, the description of the station | `addRemoteStation`, `sendReport` | the band changes between hearing and telling | a report says where a station was heard |
| UDP (`MessageClient`, `MessageServer`) | the backlog, the schema, the clients | messages, heartbeats, host look-up, replay | unreliable network, look-ups that cross, restarts | the last status is told, no message of an unknown schema |
| Log, CALL3.TXT, countries, text windows | the log's window, files, the memory of stations worked | a contact ends, Log QSO, OK, Add, Lookup | nested event loops; torn writes; crashes between renames | records whole, none lost, known again |
| Settings dialog | settings in force, in the dialog, in the file | a hundred boxes, OK, Cancel, Test | boxes that set and enable each other | shown is what OK brings into force, what is in force runs |
| Modes, power, dial | submode, period, slider and its memories, offsets, split dial | menus, clicks, locks, band changes, Tune | handlers that read widgets others set later | the signal on the air is the one shown |

`PROJECT.json` has the same list with the files, and under `hazards` the places where
this code can go wrong in ways that a test would hardly show.

## The modules

| module | of | extends or uses |
|---|---|---|
| `TxSequencer`, `TxSequencerProofs` | the transmit sequencer with its timers, the operator and the Modulator's queue | |
| `PollingTransceiver`, `PollingTransceiverProofs` | one rig connection, line by line | |
| `RigControl`, `RigControlProofs` | `Configuration` and `MainWindow` over several connections | `RigLink` (refined) |
| `RigLink` | abstract: what the connections promise about the rig | |
| `RigDevice`, `DriverBase` | a rig with two VFOs and what a driver keeps of it; what all drivers share, with the driver as parameter | |
| `HrdDriver`, `HamlibDriver`, `CommanderDriver`, `OmniRigDriver` | the drivers; split emulated on a rig that stays in simplex is in `CommanderDriver` | `RigDevice`, `DriverBase` |
| `MCDrivers` | the drivers side by side | the four above |
| `DecodeHandshake`, `DecodeHandshakeProofs` | `MainWindow` and `jtdxjt9` | |
| `DiskAudio`, `WaveFile`, `SampleFile` | recordings: decoded, saved and read, downloaded | |
| `WsprDecoder`, `FanoDecoder` | `wsprd`: messages and hashes, candidates and passes; the decoder of the code | |
| `MCDecode` | what surrounds the decoders, side by side | the six above |
| `Reception` | `Detector` and `dataSink` | |
| `ScheduleForm`, `SettingsOptions`, `RigForm`, `SoundChoice`, `SettingsStore` | the settings dialog | |
| `ModeMenu`, `PowerMemory`, `TxDial` | mode, power and frequency of the signal | |
| `QsoLog`, `DecodeDisplay`, `ReferenceFiles` | the log, the text windows, CALL3.TXT and cty.dat | |
| `MCStation`, `StationProofs` | these eleven and `Reception` side by side | the twelve above |
| `QsoSequencer`, `QsoProofs` | two stations that work each other | |
| `MessageLink`, `MessageLinkProofs` | the UDP client, its servers and the network | |
| `WsprHopping`, `TxSchedule`, `SpotUpload`, `PskSpots` | band hopping, its schedule, and the two uploads of spots | |
| `MCSpots`, `SpotsProofs` | these four side by side | |

In each module a variable has the name it has in the code where there is one; comments
at the variables name the others. Each handler, slot or time-out is one action. Where a
handler is long, operators named for what they decide stand for its parts, in the order
of its text.

The four `MC` modules that put components "side by side" have a variable `part` that is
chosen at the start and never changes: it says which component a behaviour is of. The
components share nothing in the program either, so that one run can ask the same kind
of question of all of them, and a state of one is never multiplied by those of another.

### TxSequencer

| TLA+ | code |
|---|---|
| `now`, `Elapse` | the time of day modulo two T/R periods, in steps of the 100 ms of `m_guiTimer` |
| `guiTimer`, `timer` | the steps left until a timer must have been served: a due time-out may be up to `MaxLate` steps late, and due time-outs are served in any order |
| `GuiUpdate` | `MainWindow::guiUpdate` with the `stopTx`, `transmitDisplay` and `WSPR_scheduling` it calls |
| `Warn`, `Answer` | the run of `guiUpdate` that warns of the WSPR sub-band: up to its message box (`mainwindow.cpp:2971`), and from the operator's answer on. Meanwhile `m_guiTimer` cannot enter its slot again, but time-outs, queued calls and the decoder go on |
| `StartTx2`, `StopTx2`, `TuneButtonTimeout`, `AutoButtonTimeout`, `TuneATUTimeout` | the slots of the single-shot timers |
| `HaltTx`, `HaltTune`, `ClickTune` | `on_stopTxButton_clicked`, `stop_tuning`, `on_tuneButton_clicked`, which other handlers call |
| `AudioCall`, `MessageEnds` | the slots of `Modulator` in the audio thread, and `readData` at the end of a message |
| `Press...`, `SelectMessage`, `ChangeBand`, `ChangeFrequency` | the operator |
| `DecoderHalts`, `ReceptionDone` | what `readFromStdout` and `dataSink` do to the sequencer |

The rig is the last PTT value emitted (`ptt`). `icw` is zero or the length of the CW
identification. The message is one of a few, some of which are 73s. What band hopping
answers (`Hops`) is open: the same band, a new one, with or without a tuner carrier.
Between the box and `m_btxok = false` (2985) PTT stays up until the operator answers, Halt
Tx or not, and `TransmitterStops` says so (`Answered`). `Watchdog` is `m_config.watchdog()`;
Echo, which 3646 also asks about, is among the modes left out.

### PollingTransceiver and the drivers

| TLA+ | code |
|---|---|
| `CallStart`, `CallSet`, `CallStop` | the slots of `TransceiverBase`; `pc` is the line of the slot that comes next |
| `Shutdown`, `Startup` | `shutdown` and `startup`, with the driver's `do_stop` and `do_start` |
| `Unkey`, `SetFrequency`, `SetTxFrequency`, `Key`, `End` | the lines of `set`, and `update_complete` |
| `Throw`, `PollThrows` | an exception of the driver, and `offline` |
| `PostStart`, `PostFrequency`, ... | what each `do_post_...` of `PollingTransceiver` expects |
| `Poll` | `handle_timeout` and `do_sync` |
| `Turn` | the operator at the rig |

A slot runs to its end before a poll, as both run in the rig thread; it is cut into lines
because the rig and the exceptions see the lines. A command that changes the rig may leave
it changing over for up to `MaxLag` polls, during which it reports `Garbled`. A keying
command whose answer is lost may have been obeyed.

`DriverBase` takes a driver as operators (`Made`, `DoStart`, `DoPtt`, `DoFrequency`,
`DoTxFrequency`, `DoPoll`, `DoStop`): functions of a record `dev` that holds the rig and
what the driver remembers of it. `Start` constructs an instance and starts it (`New`);
`Restart` is the `set` that finds its instance off-line and starts it again with all that it
remembers (`TransceiverBase.cpp:55`). One of a handler's commands may fail, which ends the
handler; between handlers the operator turns any control of the rig. `HrdDriver` takes the
panel that Ham Radio Deluxe shows of a rig as part of `dev`, `HamlibDriver` what the rig's
back-end can be asked; `CommanderDriver` reports what was asked for until the next query;
`OmniRigDriver` adds the server's queue, what it read last, and its signals on the way
(`Execute`, `ReadRig`, `StatusChange`, `Deliver`, `TimeoutCheck`).

`DriverTrue` and `OmniRigTrue` say that what is reported to the clients is what the rig does,
and that it sends where it was asked to. They look at the state for what they except:

- a driver that takes the rig's VFOs for others than they are (`Knows`): `reversed_` is
  learnt when Ham Radio Deluxe's driver looks, and the operator may change VFOs after;
- a request since which the rig was turned, or that came before the rig was read again
  (`fresh`, `seen`, `read`), and the first request to an instance that was restarted: what
  the old session was asked for counts as done, so that it may neither tune nor key;
- a link cut for good, or that fails in the very shutdown (`lost`): the rig stays keyed, and
  the driver that takes it over neither unkeys it nor leaves split before a client asks;
- at OmniRig (`behind`): a VFO or split that was not signalled since the start, a turn that
  was not signalled yet, a request made before the last was signalled; and (`odd`) a start
  on a frequency not divisible by ten, which returns before it takes the rig for on-line.

An assertion of the source fails for one class of states, which `NoAssert` names: the
operator has put a rig that shows one VFO at a time on VFO B, and split is asked for. The
program ends there (`dead`). The clients are taken not to enter or leave split, nor to change
the mode, while they transmit.

### RigControl and RigLink

Both event queues are sequences; what was posted is delivered even if its sender is
disconnected meanwhile, what is emitted after the disconnect is not. An instance serves a
call in one step, except that between the signals of a failing one the GUI may run. A poll
takes two steps, as commands and the order to quit come in while it waits for the rig.
Numbers of commands are those of the code. `LinkKept` says that `RigControl` implements
`RigLink` under the mapping `owners <- Online`, `retired <- ` the instances whose `stop`
has been served, `key <- rig.ptt`: one connection at a time has the rig, an instance takes
it only when all older ones have retired, and letting go of it never keys it.

### DecodeHandshake and the parts of MCDecode

`MainWindow` and `jtdxjt9` take turns at every file operation, copy and line of output.
The audio and the parameters of a job are copied in two steps, as `jt9a` does. A job
prints any number of lines, at most `MaxLines` of them unread. `overrun` and `missed` are
history: the end of a period overtook the running job, a job was requested while the
decoder still waited for `.lock` to come back. `waitForFinished` handles the output it
waits behind, so `ReadLine` is possible while the window closes.

| module | TLA+ | code |
|---|---|---|
| `DiskAudio` | `Open`, `OpenNext`, `DecodeRemaining`, `stopButton`, `Monitor`, `DecodeButton` | the buttons, which may come in at each of `diskDat`'s steps |
| | `readers`, `watched` | the threads that run `read_wav_file`, and the one the watcher knows |
| `WaveFile` | `WriteRiff` ... `RiffSize`, `Crash` | `BWFFile`'s writes, one by one, with a crash or a full disk at any of them; `read_header` is an operator on the bytes that result |
| `SampleFile` | `Check`, `Uncheck`, `Abort`, `Refresh`, `Network`, `NetworkError` | `FileNode` and `RemoteFile` with the answers of the server |
| `WsprDecoder` | `Packed`, `Said`, `nhash` | `get_wspr_channel_symbols`, `unpk_`, `nhash`: pure operators on the fifty bits |
| | `Decode`, `Miss`, `NextPass`, `Report`, `Truncate`, `Save`, `Crash` | the loop of `wsprd` over its candidates, and hashtable.txt; what was decoded is packed again to be subtracted, and is found again if that gives another signal |
| `FanoDecoder` | `Forward`, `Backward`, `Relax` | the moves of `fano` |

### Reception and the other parts of MCStation

| module | TLA+ | code |
|---|---|---|
| `Reception` | `Elapse`, `Stall`, `AudioCall` | the sound card's blocks, its pauses, `Detector::writeData` and its queued calls |
| | `dataSink`, `SetMonitor`, `StartTx`, `stopTx`, `ChangeSettings` | the GUI thread |
| `ScheduleForm` | `Open`, `Change`, `accept`, `reject`, `Restart`; `Set` | the boxes of the band scheduler; the clock of the main window that tunes by it, with Enable Tx off and in a minute divisible by five only (`mainwindow.cpp:3503`) |
| `SettingsOptions` | `..._clicked`, `..._chosen`, `exec`, `accept`, `reject`, `restart` | the boxes and colours that depend on each other |
| `RigForm` | `on_...`, `transceiver_online`, `handle_transceiver_failure` | the page of the rig with `set_rig_invariants` |
| `SoundChoice`, `SettingsStore` | `device_chosen`, `edited`, `macros_edited`, `exits`, `crashes` | devices and channels, plain settings and macros, each in force, in the dialog and in the file |
| `ModeMenu` | `ChooseMode`, `SpinSubmode`, `TickFast9`, `NewSettings` | `on_action..._triggered`, `on_sbSubmode_valueChanged`, `fast_config`, settings and restart |
| `PowerMemory` | `MoveSlider`, `ChangeBand`, `ChangeMode`, `AnswerOtherMode`, `PressTune`, ... | the attenuator and its memories per band, mode and for tuning |
| `TxDial` | `Click`, `DoubleClick`, `Lock`, `Turn`, `StartTx`, ... | Rx and Tx offset, dial, split dial and the tone: the window and the rig are one record `w`, and what the handlers share are functions of it |
| `QsoLog` | `First73`, `ClickLog`, `ClearDX`, `PressAutoSeq`, `ClickOK`, `WriteText`, `Eqsl`, `Dismiss`, ... | `MainWindow`'s two ways into the log (with AutoSeq and an empty DX Call, that of `m_hisCallOld`), and `LogQSO::accept` cut where its event loops run |
| `DecodeDisplay` | `add`, `Tune`, `Decode`, `Finished` | the memory of stations worked, the dial and mode, a decoded line and the end of a decode |
| `ReferenceFiles` | `Add`, `Read`, `RenameOld`, `RenameNew`, `Crash`; `CountryNext` | `on_addButton_clicked`, `on_lookupButton_clicked`; `CountryDat::load` and the search |

### QsoSequencer

Two stations run the program and hear each other through a channel that loses messages.
A period is cut at the seconds at which the code looks at the clock; what is left of a
slow decode is read in the next period (`LateLines`). `Clockwork` is the clock, the
decoder's lines with `processMessage` (cut into the cases of the partner's message) and
the single-shot timers; `DoubleClick` and `Operator` are hands on the buttons. The two
stations give one set of reports and a third station another (`OtherReports`), so that a
report logged with the wrong contact can be told.

### MessageLink

One client, a server at each address, and a network that keeps the order of what it does
not lose. `host_info_results` is cut into the answers that are thrown away, that give an
address and send the backlog, and that fail. `ClientReads` and `ServerReads` are the two
`parse_message`; `Ends` and `Restart` the program's end and start, `ServerRestarts` that
of a server. `Requests` is what a server asks of the client. Any datagram may be lost
(`Lose`), and every server may be of an older build than the client. Two things the code
gets wrong are history: `missed`, the last status or the last request for it was lost, after
which an equal one is suppressed (`MessageClient.cpp:238`); and `taught`, the server that
raised a client's `schema_`, which is kept when the server is changed. Port 0, at which
`MessageClient` would be silent, cannot be entered (`Configuration.cpp:1119`).

### WsprHopping, TxSchedule, SpotUpload, PskSpots

`WsprHopping` has `next_hop` as a set of possible answers (`Hops`) and the part of
`guiUpdate` that calls it as `WSPR_scheduling`. `TxSchedule` cuts the construction of the
table into the steps of `create_tx_schedule`, and `rand()` is a free choice. `SpotUpload`
follows an interval from the mark at three quarters of it (`MarkFrequency`) through the
process `wsprd` and its file to the requests of `WSPRNet`. Nothing makes `wsprd` wait for an
upload: it may open, fill and close its file at any time while another's spots are read or
posted, and `late` remembers the intervals whose file met what was left of another's.
`PskSpots` follows a station from the audio it is in to the report that names it; a spot is
`astray` when it was decoded while a band chosen in the program was on its way to the rig and
back (`asked`), or after the rig had been moved away again before it reported that band
(`outrun`).

## What is checked

`tlc` finishes each run in under five minutes with two workers. "Bounds" are the constants
that bound a run; the modules name them at their declaration. A component that an `MC`
module puts beside others has its bounds in that module where the configuration does not
give them.

| run | properties | shows | bounds |
|---|---|---|---|
| `tx_jt` | `PttReleased` `StopEdgeKept` `TuneOver` `NoRxWhileTx` `TxInSlot` `TransmitterStops` `WatchdogStops` | JT modes: no interleaving of the timer, late time-outs, message boxes, buttons, 73s and the watchdog leaves PTT up, loses the end of a transmission, leaves a carrier or transmits outside the period; the transmitter goes off once a box is answered, and the watchdog ends a station that repeats itself | period of 5 steps, 2 interventions, time-outs a step late, 2 calls queued |
| `tx_wspr` | `WsprIntervalCloses` | WSPR: an interval begun as a transmission is closed, so that the next is decided | period of 6 steps, 1 intervention |
| `rig_poll` | `ClosedAndUnkeyed` `ClientToldState` `KeyedOnTxFrequency` `ClientLearnsDial` | one connection with a rig that takes its time, an operator at it and a command that fails at any line | 2 sets, 1 start, 1 turn, 1 fault, 2 polls of change-over |
| `control` | `FreshUpdate` `NoStuckKey` `LinkKept` | connections replaced, failing, retried and closed never share the rig, never leave it keyed; an update with the last number tells of the last command | 2 instances, 1 command, 2 faults |
| `control_live` | `DisplayAgrees` `PttOffObeyed` | what is shown comes to agree with the rig, PTT off is obeyed | 2 instances, 2 commands, 1 turn, 1 fault |
| `decode` | `OneJob` `JobWhole` `Answered` `DecoderEnds` `DecodesTrue` `RecordingsTrue` | one job at a time, whole unless the end of a period overtook it, answered unless lost between the processes, no decoder left behind; `wsprd` says what was sent, each station once unless a message with a hash was told in full between its passes; recordings are whole, and the chains of decodes and downloads end | 3 periods, 2 repeats, 1 click, a crash; 2 commands on files, 2 runs of `wsprd`, 2 bit errors |
| `station` | `ClockTrue` `PagesTrue` `SettingsKept` `SignalTrue` `LogKept` | audio of one period for each decode; each row of the band schedule but the last is acted on at its time; the settings dialog shows and keeps the truth, but for what was cancelled; the signal is the one shown, but for levels that strayed; the log and the files of reference keep what they were given, but for the cases named at `LogKept` | 13 blocks of audio in periods of 8, decoded after 4 or 3, `dataSink` up to 2 blocks behind; 3 operations (modes and the log 4, the power 5); 2 contacts and a failing log; 3 edits of a dialog (the options 2) |
| `qso` | `QsoEarned` `NotCalledOver` `LogRight` | two stations over a channel that loses, and a third that calls in: a contact is logged once, and with its own reports if no line was double-clicked in it; and one who answers another station is not called on | 1 loss, 3 acts of the operators, 1 line of the third station, 2 reports; no late lines, which the theorems cover |
| `udp` | `LastKept` `SchemaKept` `ServerAgrees` | look-ups, failures, losses and restarts on both sides, servers of different builds: the last status is held or told, what was negotiated is kept to, and a server comes to show the status unless the very last of it was lost | 2 hosts, 2 ports, 2 builds, 2 faults, 1 datagram each way |
| `spots` | `OnHoppedBand` `ScheduleKept` `SpotsTrue` `EveryBand` `SpotsTold` | sent on the band hopped to until a hand moves it, every band visited, the limits of the schedule; no spot lost, doubled or put on a wrong band, but for those of an interval whose file met another upload | 3 bands, 1 tick, 1 hand, 1 button; a table of 3 by 3; 2 intervals of 2 spots, 1 recording, 1 event; 2 band changes |
| `drivers` | `DriversTrue` | what each driver reports is what the rig does, but for what its module excepts | 4 requests (OmniRig 3), 1 turn of any control, 1 fault at any of 7 commands, 4 commands queued at OmniRig |
| `decode_stuck` | `DecoderStarts` | a [disagreement](#disagreements) | as small as shows it |

Why these bounds are enough to be interesting: the timers of the sequencer are 1 to 3
steps long and a period 5 or 6, so that each can be running across the end of a
transmission and across the next start; one intervention can undo another's effect, which
two suffice for. A rig connection needs a request, a second that replaces its
expectations, and one failure with the shutdown that follows; two turns of the dial or
three sets gave nothing new when tried. Two connections show what a predecessor does to
its successor; three were checked once for `LinkKept` and `NoOrphan`. Three periods let a
job be overtaken twice. In `station`, three operations reach every pair of handlers that
read each other's widgets with a third that shows the effect; the proofs of its pages and
of the signal need no such bound. In `qso` the second act and the first loss are what it
takes to let the stations' stages part, the third what it takes to confuse them again; a
double-click by then has led a contact, and the reports that it may leave are told from
the contact's own by their value. In `udp` two faults are a server taken for dead and a
loss after it, or a change of server and back. In `spots` two intervals meet in one file;
three, with an event and a recording, were checked once for the upload alone (9 million
states). The theorems do without bounds. Behaviours drawn at random with larger bounds
(TLC's simulation, some hundreds of steps each) broke none of the properties.

Type invariants (`TypeOK`) stand in the modules; those of the modules with proofs are
proved.

Each property of a passing run has a mutant in `PROJECT.json`: a change of one mapped
definition, as a plausible mistake in the code would make it, under which TLC finds the
property violated.

**Fairness.** `TxSequencer`: time passes, due time-outs are served, the audio thread
serves its queue (weak fairness of each): an event loop does that as long as no handler
blocks it, and a message box runs a loop of its own. Nobody has to press a button or to
answer a box: the two properties that hold only if boxes are answered (`Answered`) say so
themselves. `PollingTransceiver`: a slot that was begun runs on, the poll timer is served.
`RigControl`: both threads serve their queues; strong fairness of the poll timer, because
calls come before timers but not for ever, and of a poll that signals a change, because
`PollingTransceiver` holds a change back for three polls at most (`Waited`,
`PollSignals`). `DecodeHandshake`: both processes run, a job comes to an end, and the wait
in `closeEvent` is limited to a second. `DiskAudio`: the reader's thread, the event loop
and the decoder go on; `SampleFile`: the network answers or reports an error.
`MessageLink`: both event loops and their timers run, look-ups are answered, and what is
not lost is delivered; the bound on faults makes losses finite. `WsprHopping`: `guiUpdate`
runs, audio and time go on.

**Deadlock.** Runs of `TxSequencer`, `PollingTransceiver` and `QsoSequencer` check for it:
their clocks and timers never stop. The others switch it off: when the bounds on requests
are used up, or the program has been closed, nothing has to happen any more.

## Disagreements

Where the code does other than a comment or document says. The first has a run that
expects TLC to find the violation (`findings` in `PROJECT.json` has the details).

| property | the code | the text |
|---|---|---|
| `DecoderStarts` (`decode_stuck`) | `.lock` removed before the decoder saw it come back: both wait for ever | `mainwindow.cpp:2322`: "Allow jtdxjt9 to start" |

These were found in the same way and are stated in the modules, but have no run of their
own. To replay one, put it in a configuration of the module as its only property, with the
constants given; "part" means the run of that name with the property stated for its part
in the run's module, such as `part = "upload" => Upload!ReplaysNotSpotted`. "Quiet" stands
for `Period = 5, TxTicks = 2, CwTicks = 1, SecTicks = 1, HaltDelay = 1, WatchdogLimit = 2,
MaxLate = 0, Messages = {cq}, Msgs73 = {}, MaxOps = 2, MaxAudioLag = 2` and the other
constants of `tx_jt.cfg`.

| property | constants | the code | the text |
|---|---|---|---|
| `HaltEndsTransmission` | Quiet | `stopTx` leaves `ptt1Timer` running, so that audio starts after Halt Tx | the guide: "*Halt Tx* terminates a transmission in progress" |
| `TuneCarrierKeyed` | Quiet, `MaxOps = 4` | `guiUpdate` keys again without cancelling `ptt0Timer`, and `stopTx2` lowers PTT under the new carrier (`mainwindow.cpp:3641`) | the guide: Tune switches into Tx mode and generates a carrier |
| `NoLateStart` | Quiet, `Period = 9`, `TxTicks = 5` | `fTR<99` is always true (`mainwindow.cpp:2977`) | the guide: "not be started any later than 24 s into a UTC minute" |
| `WsprTxScheduled` | `tx_wspr.cfg`, `Period = 4`, `TxTicks = 2`, `CwTicks = 0`, `PctTx = 100`, `MaxOps = 3` | `m_bTxTime` of an interval outlives Halt Tx and restarts the transmission in another | `mainwindow.cpp:2929`: "we need m_auto and scheduled transmit" |
| `PttOffApplied` | `MaxOpens = 2`, `MaxCommands = 2`, `MaxFaults = 1`, `Reconfigures = TRUE`, the other bounds 0 | the first PTT off of a connection that found the rig keyed sends no command | `Transceiver.hpp:120`: a set applies state changes to the rig |
| `NoPingPong` | `MaxOpens = 1`, `MaxCommands = 2`, `MaxReports = 1`, the other bounds 0 | the cache that commands are built from takes the frequency of outdated updates | `Transceiver.hpp:124`: numbers avoid "ping-pong" |
| `UnkeyedAtEnd` | `MaxOpens = 1`, `MaxCommands = 1`, `Closes = TRUE`, the other bounds 0 | the rig thread quits behind a poll and drops the posted stop | `TransceiverBase.cpp:147`: "try and ensure PTT isn't left set" |
| `NoStaleFailure` | as `PttOffApplied`, `MaxCommands = 1` | a failure posted before the disconnect closes the new connection (`Configuration.cpp:4301`) | `Configuration.hpp:295`: a failed connection is closed |
| `FailureSignalled` | as `UnkeyedAtEnd`, `MaxFaults = 1`, `Closes = FALSE` | the off-line update of a failed start disconnects the instance before it signals the failure (`Configuration.cpp:4275`) | `Configuration.hpp:293`: signals a failure |
| `NoIntermediateState` | `rig_poll.cfg`, `MaxFaults = 0`, dial only | an expectation is compared with the last poll, not the rig: after a turn of the dial nothing is held back (`PollingTransceiver.cpp:76`) | `PollingTransceiver.hpp:27`: clients don't see intermediate states |
| `TxModeFollows` | `rig_poll.cfg`, `Modes = AskedModes = {"USB", "DIG_U"}`, `MaxLag = 0`, no turns or faults | `requested_.mode` is overwritten before the test for the Tx VFO (`TransceiverBase.cpp:87`) | `TransceiverBase.cpp:92`: "or mode change" |
| `RequestUsesDxCall` | `decode_stuck.cfg` | a repeated decode copies nothing that lies before `nutc` | release notes, line 608: data from the DXCall window |
| `NoEarlyDecode` | `station`, part "reception" | a period received from its middle is decoded before its end | release notes, lines 1059-1061 |
| `MonitorOffSilent` | the same | a period begun with Monitor on is decoded with Monitor off | guide, controls of the main window: Monitor is green "when the WSJT-X is receiving" |
| `AddressOfSettings`, `HeldForLookup` | `udp.cfg` | an earlier look-up answered late decides the address; messages wait when no look-up is under way | `MessageClient.cpp:75`: "hold messages sent before host lookup completes" |
| `SignedOffAlways` | `qso.cfg` with `BackToCQ`, `Retransmit` and `SameReport` 0, `HistLen = 9`, `MaxClicks = 4`, `MaxLoss = 0` | RR73 or 73 of another station than the DX call makes the program send 73 to its DX call | `mainwindow.cpp:2728`, `2743`: for "MYCALL TNX 73" style messages in place of the standard one |
| `HistoryWhole` | `qso.cfg` | the `removeLast` without braces takes an entry off the history when none was added (`mainwindow.cpp:2562-2565`) | every other change keeps the 14 entries of `mainwindow.cpp:260`, which are read by index |
| `LogTrueAlways` | `qso.cfg` | a line that is double-clicked leaves the reports of another contact, or of an earlier one, to be logged with the next: nothing clears `m_rptSent` and `m_rptRcvd` (`mainwindow.cpp:2763`) | the log is of contacts |
| `SchemaOfServer` | `udp.cfg` | `schema_` is kept when the settings name another server | `MessageClient.cpp:129`: "one time record of server's negotiated schema" |
| `StatusShownAlways` | `udp.cfg` | a status lost on the way is not sent again: its repetition equals `last_message_` and is suppressed (`MessageClient.cpp:238`) | `NetworkMessage.hpp:119`: status messages "allow the server to track the relevant state of each client" |
| `JobAlwaysWhole` | `station`, part "reception" | a period is decoded a second time at its very end while `dataSink` is behind | release notes, line 1059: "early additional decoding" fixed |
| `SwitchedBetween` | `spots`, part "hop" | `m_rxDone` left set hops in the first second of an interval | `wspr.adoc:38`: "Band-switching occurs after each 2-minute interval" |
| `OnChosenBand` | the same | the static `old_row` takes a hop for made that a hand undid | `mainwindow.cpp:6637` |
| `ReplaysNotSpotted` | `spots`, part "upload" | Monitor pressed during the decode of a recording lets its spots be posted | `mainwindow.cpp:6536`: "do not spot replays" |
| `NextSpotsKept`, `NoSpotAlwaysTrue` | `SpotUpload` alone: 2 bands, 2 spots, 2 intervals, no replay, 1 event | an upload that is late empties or removes the file of the next interval, or has it called empty: not its own spots are lost | `mainwindow.cpp:6541`: "Previous upload has not completed, spots were lost" |
| `ReportAlwaysTrue` | `spots`, part "psk" | what is decoded after the dial moved is queued with the new frequency | `mainwindow.cpp:5364`: "Upload any queued spots before changing band" |
| `AcceptedKept` | `station`, part "store" | a crash loses what OK accepted | `Configuration.cpp:84-88` |
| `PrintedOnce` | `decode`, part "wspr" | a message with a hash that is printed as `<...>` packs as another and is not subtracted; told in full in between, it is printed again (`wsprd.c:1083-1103`) | `wsprd.c`: "Remove dupes (same callsign and freq within 3 Hz)" |
| `NeverAsserts` | `drivers`, part "hrd" | split is asked of a rig with one VFO at a time that a hand has put on VFO B | `HRDTransceiver.cpp:679`: `Q_ASSERT (vfo_count_ > 1)` |
| `OfflineAlwaysSeen` | `drivers`, part "omnirig" | `do_start` returns early on a frequency that is no multiple of ten, with `rig_offline_` still set | `OmniRigTransceiver.cpp:341`: "give OmniRig 5 seconds to recover" |

Further remarks on the code, each seen while a component was modelled and named in its
module: a RIFX file cannot be read (`BWFFile.cpp:207`), and a file that is no recording
leads to a division by zero in `read_wav_file`; Decode pressed again on a file divides its
time by 100 once more; a Decode Remaining in the middle of a decode labels the first file
wrongly; `MessageAggregator` erases a client and goes on with its iterator; a prefix code
of exactly 32768 is packed wrongly, and a grid that looks like no grid stops the unpacking
of about one in a hundred numbers; a list of countries without its last semicolon is read
for ever; a band change while tuning stores the tuning level for the new band; a 73 sent
with no DX call leaves the log's timer armed; the options that Cancel should undo leave
their colours for the next OK; a port typed before Cancel is the one the rig is opened on
next; the box of a decoration of worked calls comes back ticked when the other is taken
off, though the option does not; Tune pressed where no power is remembered reads 0 dB; the
box about the WSPR sub-band (`mainwindow.cpp:2965-2971`) holds up the end of the very
transmission it warns of, which is stopped at 2985; with AutoSeq on and DX Call emptied,
Log QSO logs `m_hisCallOld` with the times and the frequency of the latest contact
(`mainwindow.cpp:4697-4717`); row 5 of the band scheduler uses row 4's time
(`mainwindow.cpp:3515`).

## What is proved

Each theorem holds for all values of the constants that satisfy the module's assumptions
(`ModeAssumption` and `TimeAssumption`, `FrequencyAssumption` and `BoundAssumption`,
`ControlAssumption`, `DecodeAssumption`, `LinkAssumption`, `QsoAssumption`, and
`MCAssumption` of `MCSpots` and of `MCStation`): every period, delay and lateness, every
number of interventions, connections, commands, failures, repeats, lines, servers,
datagrams, builds, bands, spots, rigs, devices, fields, levels of power and frequencies.
None needs more.

| module | theorem | property |
|---|---|---|
| `TxSequencerProofs` | `TypeCorrect` | `TypeOK` |
| | `NoStuckPtt` | `PttReleased`: the rig is never left keyed with no transmission on and no timer to lower PTT |
| | `StopEdgeNotLost` | `StopEdgeKept`: the end of a transmission is always seen |
| | `TuneAlwaysEnds`, `CarrierAlwaysEnds`, `TuneEndsWhole` | `TuneEnds` and `CarrierEnds`, together `TuneOver`: Tune's flag and its handler's memory differ only while the timer that ends Tune runs, and no carrier outlives them |
| | `ReceiverOff` | `NoRxWhileTx` |
| | `SlotKept` | `TxInSlot` |
| `PollingTransceiverProofs` | `TypeCorrect` | `TypeOK` |
| | `Unkeyed` | `ClosedAndUnkeyed`: no command to a closed driver, and a closed rig was unkeyed or the order to unkey failed |
| | `Told` | `ClientToldState`: with nothing under way, the client has been told the state last read |
| | `KeyedOnFrequency` | `KeyedOnTxFrequency`: PTT goes on only with the frequency, the VFO and the split that were asked for |
| `RigControlProofs` | `TypeCorrect` | `TypeOK` |
| | `NobodyForgotten` | `NoOrphan`: a connection let go of has its stop on the way |
| | `UpdatesFresh` | `FreshUpdate`: an update with the last number tells the result of the last command |
| | `KeyLetGo` | `NoStuckKey` |
| | `LinkRefined` | `LinkKept`: `RigControl` implements `RigLink` |
| `DecodeHandshakeProofs` | `TypeCorrect`, `OneJobAtATime`, `JobsWhole` | `TypeOK`, `OneJob`, `JobWhole` |
| `MessageLinkProofs` | `TypeCorrect` | `TypeOK` |
| | `LastMessageKept` | `LastKept`: the last thing the client was told is the last message it sent or holds |
| | `SchemaRespected` | `SchemaKept`: with servers of any builds, a datagram that its server cannot read comes from a client that another server taught the schema |
| `QsoProofs` | `InvariantHolds` | the inductive invariant |
| | `QsoIsEarned` | `QsoEarned`: RR73 and 73 go only to those whose report or roger was heard |
| | `NobodyCalledOver` | `NotCalledOver` |
| `SpotsProofs` | `HopKeepsBand` | `OnHoppedBand` |
| | `ScheduleHolds` | `ScheduleKept`: the share, the limit in a row and the limit of additions, for a table of any size |
| | `SpotsAreTrue`, `SpotsAreTold` | `SpotsTrue` and `SpotsTold`: however slow an upload is, only intervals whose file it met lose or double spots, and none changes its band |
| `StationProofs` | `StationHolds` | the inductive invariants of seven parts |
| | `PagesAreTrue` | `PagesTrue`: the pages show what OK would bring into force, and no clicks make options that contradict each other |
| | `SettingsAreKept` | `SettingsKept`: rig and sound run as the settings in force say, and these outlive the program |
| | `SignalIsTrue` | `SignalTrue`: mode, period, power and frequency of the signal are those shown |

In all modules the argument is an inductive invariant (TLC checked it on the instance of
the run before it was proved), lemmas that each group of actions keeps it, and the
theorems, which follow from it.

**`TxSequencerProofs`.** `IInv` is the type invariant, the first five properties and
`CarrierInv`. The properties need each other: `PttReleased` is kept by a run of
`guiUpdate` only because the edge it ends a transmission on is not lost (`StopEdgeKept`),
and that holds because whatever else clears `m_btxok` leaves `g_iptt` and `btxok0` alone.
`CarrierEnds` says that some call in the queue turns the carrier off; that is not
inductive, as a later call may turn it on again, and `CarrierInv` is its strengthening:
with Tune off, the last tuning call queued turns the carrier off, or the carrier is off
and no call turns it on. `SlotKept` needs the invariant only for its types: it is a
property of what one run of `guiUpdate` leaves behind.

**`PollingTransceiverProofs`.** The slots are cut into lines, so the invariant says of
each `pc` what has been done so far: `On` that a command goes only to a driver that was
started, `UnkeyedWhenClosed` that a shutdown reaches its end only by way of the unkeying,
`TxFrequencySet` that the line which keys comes after the lines that set what it keys on.
For `Told` the two memories have to be related: `NotExpected` and `Settled` say that while
a slot has no line left and no expectation is open, what the last poll read, what the
slots set (`last_`) and what was signalled last agree as far as the client was told. It is
stated for the first connection of an instance: after a second start the expectations of
the first are still there (`PollingTransceiver.cpp` resets neither), and the client may
never be told, which TLC shows.

**`RigControlProofs`.** That connections do not meet at the rig rests on the order of the
rig thread's queue alone, as nobody waits for a stop to be served. `Ordered` states it:
the calls of a connection come after those of older ones, its start first, its stop last,
the commands between by rising numbers. `Released` says of each connection let go of that
it is finished or its stop is queued; from both, the call at the head of the queue goes to
a connection all of whose predecessors are finished (`HeadFacts`), so that one which goes
on line finds the rig free (`Owning`, `SoleOwner`). The same order makes an answered last
number mean that no command is queued any more (`Told`, `Known`). `Known` also says that
a connection that knows no frequency has served no call, which is why an update that is
forwarded always brings one. `Doing` keeps a failing or polling instance unfinished until
its slot ends, and `Unkeyed` is `NoStuckKey`. For `LinkRefined`, a start or set served is
`Acquire`, `Use` or a stutter (`CallLinks`), a shutdown is `Retire`, `Release` or a
stutter (`ShutdownLinks`), and all other steps are stutters.

**`DecodeHandshakeProofs`.** `Handshake` ties the decoder's place in its loop to
`m_decoderBusy` and `.lock`; it would break if lines could follow the one that ends a job,
so `LastLine` says that this is the last in the pipe and that the job is over. `Counted`
ties the number of a request to its period and the repeats, and `Whole` follows the two
copies of a job: unless the job was overtaken, what has been copied so far agrees with the
shared memory, which nobody writes while the decoder is busy.

**`MessageLinkProofs`.** Sending a backlog is a loop over a sequence in which a message
equal to the one sent before it is suppressed; the module states what is sent without
recursion (`InSequence`, `News`), and the proof shows what the loop leaves behind: the
last message of the backlog is the last one sent (`Sending`, `SendingKeeps`). Where an
argument goes by induction over the backlog it is made by the least counterexample, with
the least element of a set of naturals (`LeastNumber`, from the library's theorem that
`<` on the naturals is well founded), since theorems with operators for parameters cannot
be cited. `SchemaRespected` needs a bound for each datagram on the way, not only for the
client's record. The invariant `Types(T, B)` is of the builds `B` and of the teachers `T`:
an incarnation of the client has none, or the server whose message raised its schema, and
all that it has sent is of schema 2 or of what that server offers (`Offered`); a server
offers, and writes, no more than its own build reads (`Replies`). The property follows: what
a server cannot read was sent by an incarnation that another server taught. That such are
sent is `SchemaOfServer`'s violation.

**`SpotsProofs`.** The behaviours of the run's four parts are one specification, and the
invariant is one of each part. *Hopping* (`HopInv`): until a hand moves the band, it is
the row hopped to last, and the band that the next interval is planned for. *The upload*
(`UpInv`): a file of spots is of one interval that is over (`FileWhole`); the process that
runs for an interval is the first for it (`RunNew`); a file's spots are either not yet
asked for, or each of them is posted or in the queue (`Turn`), no two the same (`Once`).
What is left to be asked for or answered (the end of `RunNew`, `Turn`, `FoundKept`,
`Once`) is said of intervals that are not `late`. `wsprd` makes its interval late when it
opens the file before all that the run before left to do is over (`Over`), and with it the
interval whose upload was still to begin; an upload under way has all its spots in the
queue by then, so that none which is not late can lose one. That the bands are right holds
for late ones too, as a spot carries its band through file and queue (`Asked`). *The
reports* (`PskInv`): a queued spot was heard where it says while the program's memory of
the band is what the rig last reported (`Followed`, `Queued`); what is decoded while that
is not so is `astray`, and the property excepts it, as the code gets it wrong
(`ReportAlwaysTrue`). *The schedule* (`SchedInv`): every step that adds a transmission
looks at the runs it would join, so the table is within the limit in a row whenever it is
used; only what `tx_trim` starts from is not, and `Trimmed` states that the rows before
the interval it looks at are, with `count` the run that ends there. While the table is
topped up, its sum and the number still to be added make the share, or the table is
`Crowded`: no empty interval would keep the limit, and it stays so. `InTheRow` ties the
transmissions answered in a row to the intervals of the table before the one asked about
next, since a table is drawn at its first interval or when the percentage changes.

**`QsoProofs`.** What goes on the air was chosen earlier, by a line, a button or a timer,
and the DX call may have changed before it was composed or while it is sent. The invariant
(`IInv`) therefore speaks of three messages at once: the one chosen, which is a text that
`genStdMsgs` wrote for a DX call that may be gone; the one on the air; and the 73 that a
timer will send to whoever is in the DX call then. Each is `Earned`, and unless a stop is
due each `Spares` those who were heard answering another. Most operations leave all three
alone: they are calm (`Calm`, `Still73`), and one lemma says that a calm step keeps the
invariant. What is left are `processMessage` (`Answered`), the timer's 73 and the start of
a transmission. `SignedOff` excepts a 73 for a station that was in the DX call when
another's 73 was read (`swayed`), as the code gets that wrong (`SignedOffAlways`). The
lines read may be late ones, of the period before, which the run leaves out for its size.
TLC checked `IInv` on four configurations, with late lines and without.

**`StationProofs`.** One invariant for each part, stated at the end of its module; a part
takes no step of another (`StepOf`). *The options* (`OptionsInv`): unless a dialog was
cancelled, the members that OK copies are what the boxes show, but for those of worked
calls while nothing new is shown, and a box is enabled only if what it depends on is
ticked. That a decoration which comes back was on before needs one more, `Decorated`,
which fails once one in force was taken off (`undone`, until the next start): the property
excepts this, as the code gets it wrong. *The rig* (`RigInv`): outside the dialog what is
gathered from the page is what is in force, because a page built from settled parameters
is settled; inside it, an open rig was opened with what was saved for comparison. The
parameters a settings file may hold are assumed to be such as the page can produce
(`Proper`), and the first rig of the list to be on a serial port. *Sound* and *plain
settings* (`SoundInv`, `StoreInv`): file, dialog and what is in force agree but for what
was cancelled or stood in for a missing device. *The mode* (`MenuInv`): every handler of
the menu leaves a plain window, whatever the one before left, and its period, the
detector's and the modulator's agree. *The power* (`PowerInv`): until something strays
(the cases are named at `PowerKept`), what the operator chose is what is remembered,
whatever will be read has been written, and Tune's flag and its handler's memory of it go
together. *The dial* (`DialInv`): it follows the frequency shown, and the transmit dial is
set in split only. That a signal is where it is shown rests on `Together`: while a
transmission lasts the shift, the transmit dial and the tone belong to the same offset,
since the offset's box is enabled then only where a change of it is told to the rig (`txOn
<=> qsy \/ ~split`). The handlers of the window call each other; what each does is a lemma
in one of three forms, it changes an offset (`Steady`, and `Moved` with the rig told of
it) or goes on to another frequency (`Onward`), and these compose. That the frequency
chosen for a mode is in the list (`BestIs`) needs the least element of a set of naturals,
from `WellFoundedInduction`. TLC checked each of these invariants before it was proved, on
up to 1.5 million states. The menu of modes and the number of operations over the others'
are those written in `MCStation`.

Only model-checked: all liveness properties (the prover has no rules for fairness and
ENABLED); `ClockTrue` and `LogKept`, which name a recursive function each (`Later`, the
boxes of the schedule's later rows, and `find`, the search for a country): that a function
so defined exists and has this value needs induction over data; `LogRight`, whose
exception is a history of the stations' lines and clicks that the invariant of `QsoProofs`
does not relate to the reports; `DriversTrue`, not attempted; `DecodesTrue` and
`RecordingsTrue`, which are mostly about what functions over sequences of bytes and bits
return.

## What is not modelled

- The decoders of JT65, JT9 and T10, the synchronisation in `wsprd`, tones, the waterfall,
  astronomy: numbers, not states. The packing of messages other than those of WSPR.
- The fast modes and Echo, in every component; compound calls and contests in
  `QsoSequencer`.
- The texts of protocols: Ham Radio Deluxe's, Commander's, what a request to a server says.
- In `RigControl`: mode, split and Tx frequency of a command, a factory that throws.
- In `Reception`: spectra, WSPR's own timing beyond the end of an interval.
- The item models of bands, frequencies and stations but for what the dialog edits.
- `lib/ldpc` and `wsprd_exp.c`, which the program is not built from.

`PROJECT.json` names what each component leaves out.

## Plan

1. Proofs for the parts of `LogKept` and `ClockTrue` that use no recursive function: the
   log, the file of calls, the text windows, and the audio of a period.
2. Proofs for `MCDrivers`: what each driver reports is what the rig does.
3. The composition of `TxSequencer` with `RigControl`: the rig is unkeyed when the
   sequencer says so, also across a failing connection.
4. `Reception` composed with `DecodeHandshake`: the audio of a job is that of the period.

## How to run

`tlc -workers 2 -config <run>.cfg <module>.tla`, with the module that `PROJECT.json` names
for the run; `tlapm <module>.tla` for the eight modules of proofs, each in a few minutes
(`StationProofs` takes about a quarter of an hour).
