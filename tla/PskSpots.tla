----------------------------- MODULE PskSpots ------------------------------
(***************************************************************************)
(* Spots for pskreporter.info: the queue of PSK_Reporter, its five-minute   *)
(* timer and the lookup of its address, and the places of MainWindow that   *)
(* queue a decoded station, send the queue off before a band change and set *)
(* the description of the station that goes with it.                        *)
(*                                                                          *)
(* A frequency is its band.  The rig takes a new band at once and reports   *)
(* it later (modules PollingTransceiver and RigControl).                    *)
(***************************************************************************)
EXTENDS Integers, Sequences, FiniteSets

CONSTANTS
  Bands,
  None,          \* no audio is being decoded
  MaxChanges,    \* bound: band changes, in the program or at the rig
  MaxQueue       \* bound: spots waiting

PskAssumption == IsFiniteSet(Bands) /\ None \notin Bands /\ MaxQueue \in Nat

VARIABLES
  rig,           \* the band the rig is on
  freq,          \* m_freqNominal
  shown,         \* m_rigState: the band of the rig's last update
  m_lastDialFreq,
  text,          \* the text of the band combo box
  recent,        \* no more than 50 s since m_secBandChanged
  audio,         \* the band of the period being decoded, or None
  m_spotQueue,
  antenna,       \* the band whose station description is m_rxAnt
  known,         \* m_pskReporterAddress is not null
  report,        \* history: the spots of the last report sent
  described,     \* history: its description of the station
  knob,          \* history: an update after a turn of the knob met spots in the queue
  crossed,       \* history: knob, when the last report was sent
  asked,         \* history: the rig has not reported a band chosen in the program
  outrun,        \* history: it left that band for another before it had
  changes

link == <<asked, outrun>>
vars == <<rig, freq, shown, m_lastDialFreq, text, recent, audio, m_spotQueue, antenna, known,
          report, described, knob, crossed, link, changes>>

Init ==
  /\ rig \in Bands /\ freq = rig /\ shown = rig /\ m_lastDialFreq = rig
  /\ text = rig /\ antenna = rig
  /\ recent = FALSE /\ audio = None /\ m_spotQueue = <<>> /\ known = FALSE
  /\ report = <<>> /\ described = rig /\ knob = FALSE /\ crossed = FALSE
  /\ asked = FALSE /\ outrun = FALSE /\ changes = 0

----------------------------------------------------------------------------
pskSetLocal == antenna' = text

\* The queue is emptied whether or not there is an address to send it to.
SendReport ==
  /\ m_spotQueue' = <<>> /\ knob' = FALSE
  /\ IF m_spotQueue # <<>> /\ known
     THEN report' = m_spotQueue /\ described' = antenna /\ crossed' = knob
     ELSE UNCHANGED <<report, described, crossed>>

ReportTimer ==
  /\ m_spotQueue # <<>> /\ SendReport
  /\ UNCHANGED <<rig, freq, shown, m_lastDialFreq, text, recent, audio, antenna, known,
                 link, changes>>

dnsLookupResult ==
  /\ ~known /\ known' = TRUE
  /\ UNCHANGED <<rig, freq, shown, m_lastDialFreq, text, recent, audio, m_spotQueue, antenna,
                 report, described, knob, crossed, link, changes>>

\* Mutant: the queue waits for its timer.
BandChanged_unsent ==
  /\ changes < MaxChanges /\ changes' = changes + 1
  /\ \E b \in Bands \ {text} : text' = b /\ freq' = b /\ rig' = b /\ asked' = (b # shown)
  /\ outrun' = FALSE
  /\ UNCHANGED <<m_spotQueue, knob, report, described, crossed>>
  /\ UNCHANGED <<shown, m_lastDialFreq, recent, audio, antenna, known>>

\* The operator chooses a band: band_changed
BandChanged ==
  /\ changes < MaxChanges /\ changes' = changes + 1
  /\ \E b \in Bands \ {text} : text' = b /\ freq' = b /\ rig' = b /\ asked' = (b # shown)
  /\ outrun' = FALSE
  /\ SendReport
  /\ UNCHANGED <<shown, m_lastDialFreq, recent, audio, antenna, known>>

\* The operator turns the knob of the rig.
RigMoved ==
  /\ changes < MaxChanges /\ changes' = changes + 1
  /\ \E b \in Bands \ {rig} : rig' = b
  /\ outrun' = (outrun \/ asked)
  /\ UNCHANGED <<freq, shown, m_lastDialFreq, text, recent, audio, m_spotQueue, antenna, known,
                 report, described, knob, crossed, asked>>

\* The program follows the rig if the band differs from the one shown last, and
\* describes the station before the combo box shows the new band.
handle_transceiver_update ==
  /\ rig # shown \/ rig # text
  /\ shown' = rig /\ text' = rig
  /\ freq' = IF rig # shown THEN rig ELSE freq
  /\ IF rig # shown /\ rig # m_lastDialFreq
     THEN m_lastDialFreq' = rig /\ recent' = TRUE /\ pskSetLocal
     ELSE UNCHANGED <<m_lastDialFreq, recent, antenna>>
  /\ asked' = FALSE /\ outrun' = (outrun /\ rig = shown)
  /\ knob' = (knob \/ (~asked /\ m_spotQueue # <<>>))
  /\ UNCHANGED <<rig, audio, m_spotQueue, known, report, described, crossed, changes>>

\* A period ends: its audio, of one band that the rig has reported long since,
\* is decoded while the next is received.
PeriodEnds ==
  /\ audio = None /\ shown = rig /\ audio' = rig
  /\ UNCHANGED <<rig, freq, shown, m_lastDialFreq, text, recent, m_spotQueue, antenna, known,
                 report, described, knob, crossed, link, changes>>

\* readFromStdout: a decoded station is queued with the frequency of now.
Decoded ==
  /\ audio # None /\ Len(m_spotQueue) < MaxQueue
  /\ IF recent THEN UNCHANGED <<m_spotQueue, antenna>>
     ELSE /\ m_spotQueue' = Append(m_spotQueue,
                              [heard |-> audio, freq |-> freq,
                               astray |-> asked \/ outrun])
          /\ pskSetLocal
  /\ UNCHANGED <<rig, freq, shown, m_lastDialFreq, text, recent, audio, known, report,
                 described, knob, crossed, link, changes>>

DecodeFinished ==
  /\ audio # None /\ audio' = None
  /\ UNCHANGED <<rig, freq, shown, m_lastDialFreq, text, recent, m_spotQueue, antenna, known,
                 report, described, knob, crossed, link, changes>>

\* 50 s after a change the decoding of the audio before it is over.
Elapse ==
  /\ recent /\ audio \in {None, m_lastDialFreq} /\ recent' = FALSE
  /\ UNCHANGED <<rig, freq, shown, m_lastDialFreq, text, audio, m_spotQueue, antenna, known,
                 report, described, knob, crossed, link, changes>>

Next ==
  \/ ReportTimer \/ dnsLookupResult \/ BandChanged \/ RigMoved
  \/ handle_transceiver_update \/ PeriodEnds \/ Decoded \/ DecodeFinished \/ Elapse

Spec == Init /\ [][Next]_vars

----------------------------------------------------------------------------
(* Properties *)

\* A report says where each station was heard, unless it was decoded while the rig
\* had not reported a band chosen in the program, or had left it before it did, and
\* describes the station as it was, unless the rig was moved by its knob while a
\* spot waited.
ReportTrue ==
  \A n \in DOMAIN report :
    \/ report[n].astray
    \/ report[n].heard = report[n].freq /\ (described = report[n].freq \/ crossed)

\* Not so: "Upload any queued spots before changing band" (mainwindow.cpp:5364)
\* keeps the reports true.
ReportAlwaysTrue ==
  \A n \in DOMAIN report : report[n].heard = report[n].freq /\ described = report[n].freq
=============================================================================
