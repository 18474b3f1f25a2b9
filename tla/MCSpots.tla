------------------------------ MODULE MCSpots -------------------------------
(* A small world for the band hopping of WSPR, for its schedule, for the    *)
(* upload of its spots and for the spots of the other modes.  The four      *)
(* share no state that changes: "part" says which of them a behaviour is of.*)
EXTENDS Integers, Sequences, FiniteSets

CONSTANTS HopBands, Coordinated, Enabled0, RxOnly0, MaxDialog, MaxHand, MaxButtons,
          Rows, Cols, Gaps, Pcts, MaxRounds, MaxPercents, Bands, None, MaxSpots, MaxIntervals,
          MaxReplays, MaxEvents, MaxChanges, MaxQueue

VARIABLE part

\* A coordinated cycle of two slots.
TwoSlots == [s \in 0 .. 1 |-> IF s = 0 THEN "a" ELSE "b"]
\* The gaps that the last transmissions are added to, in a table of nine intervals.
TwoGaps == <<5, 3>>

\* WsprHopping
VARIABLES slot, phase, freq, old_row, enabled, tune, rxOnly, rx_permutation, tx_permutation,
          m_ntr, m_rxDone, m_WSPR_tx_next, m_txNext, m_auto, m_pctx, m_monitoring, hopping,
          online, whole, plan, sent, byHand, dialogs, hands, buttons

Hop == INSTANCE WsprHopping WITH Bands <- HopBands, NoRow <- None

\* TxSchedule
VARIABLES tx, tableOf, cell, fresh, pctx, stage, at, round, count, run, pure, changes

Schedule == INSTANCE TxSchedule WITH MaxChanges <- MaxPercents

\* SpotUpload
VARIABLES interval, marked, m_dialFreqRxWSPR, m_diskData, m_uploadSpots, m_uploading,
          uploadTimer, saved, p1, finished, file, urlQueue, requests, sendTimer,
          m_uploadType, posted, refused, found, late, replays, events

Upload == INSTANCE SpotUpload

\* PskSpots
VARIABLES rig, shown, m_lastDialFreq, text, recent, audio, m_spotQueue, antenna, known,
          report, described, knob, crossed, asked, outrun

Psk == INSTANCE PskSpots

ASSUME MCAssumption == /\ Hop!BandAssumption /\ Schedule!SizeAssumption
                       /\ Upload!UploadAssumption /\ Psk!PskAssumption

----------------------------------------------------------------------------
\* The variables that only one part has; freq, online and changes are shared.
hopOnly == <<slot, phase, old_row, rx_permutation, tx_permutation, enabled, tune, rxOnly,
             m_ntr, m_rxDone, m_WSPR_tx_next, m_txNext, plan, m_auto, m_pctx, m_monitoring,
             whole, hopping, sent, byHand, dialogs, hands, buttons>>
scheduleOnly == <<tx, tableOf, cell, fresh, pctx, stage, at, round, count, run, pure>>
uploadOnly == <<interval, marked, m_dialFreqRxWSPR, m_diskData, m_uploadSpots, m_uploading,
                uploadTimer, saved, p1, finished, file, urlQueue, requests, sendTimer,
                m_uploadType, posted, refused, found, late, replays, events>>
pskOnly == <<rig, shown, m_lastDialFreq, text, recent, audio, m_spotQueue, antenna, known,
             report, described, knob, crossed, asked, outrun>>

NoHop == /\ slot = 0 /\ phase = "none" /\ old_row = 0 /\ rx_permutation = 0 /\ tx_permutation = 0
         /\ enabled = 0 /\ tune = 0 /\ rxOnly = 0 /\ m_ntr = 0 /\ m_rxDone = 0
         /\ m_WSPR_tx_next = 0 /\ m_txNext = 0 /\ plan = 0 /\ m_auto = 0 /\ m_pctx = 0
         /\ m_monitoring = 0 /\ whole = 0 /\ hopping = FALSE /\ sent = 0 /\ byHand = 0
         /\ dialogs = 0 /\ hands = 0 /\ buttons = 0
NoSchedule == /\ tx = 0 /\ tableOf = 0 /\ cell = 0 /\ fresh = 0 /\ pctx = 0 /\ stage = 0
              /\ at = 0 /\ round = 0 /\ count = 0 /\ run = 0 /\ pure = 0
NoUpload == /\ interval = 0 /\ marked = 0 /\ m_dialFreqRxWSPR = 0 /\ m_diskData = 0
            /\ m_uploadSpots = 0 /\ m_uploading = 0 /\ uploadTimer = 0 /\ saved = 0
            /\ p1 = 0 /\ finished = 0 /\ file = 0 /\ urlQueue = 0 /\ requests = 0
            /\ sendTimer = 0 /\ m_uploadType = 0 /\ posted = 0 /\ refused = 0 /\ found = 0
            /\ late = 0 /\ replays = 0 /\ events = 0
NoPsk == /\ rig = 0 /\ shown = 0 /\ m_lastDialFreq = 0 /\ text = 0 /\ recent = 0
         /\ audio = 0 /\ m_spotQueue = 0 /\ antenna = 0 /\ known = 0 /\ report = 0
         /\ described = 0 /\ knob = 0 /\ crossed = 0 /\ asked = 0 /\ outrun = 0

MCInit ==
  \/ part = "hop" /\ Hop!Init /\ NoSchedule /\ NoUpload /\ NoPsk /\ changes = 0
  \/ part = "schedule" /\ Schedule!Init /\ NoHop /\ NoUpload /\ NoPsk /\ freq = None /\ online = 0
  \/ part = "upload" /\ Upload!Init /\ NoHop /\ NoSchedule /\ NoPsk /\ changes = 0
  \/ part = "psk" /\ Psk!Init /\ NoHop /\ NoSchedule /\ NoUpload /\ online = 0

HopStep == part = "hop" /\ Hop!Next /\ UNCHANGED <<scheduleOnly, uploadOnly, pskOnly, changes>>
ScheduleStep ==
  part = "schedule" /\ Schedule!Next /\ UNCHANGED <<hopOnly, uploadOnly, pskOnly, freq, online>>
UploadStep == part = "upload" /\ Upload!Next /\ UNCHANGED <<hopOnly, scheduleOnly, pskOnly, changes>>
PskStep == part = "psk" /\ Psk!Next /\ UNCHANGED <<hopOnly, scheduleOnly, uploadOnly, online>>

MCNext == (HopStep \/ ScheduleStep \/ UploadStep \/ PskStep) /\ UNCHANGED part

MCVars == <<part, freq, online, changes, hopOnly, scheduleOnly, uploadOnly, pskOnly>>

MCSpec ==
  /\ MCInit
  /\ [][MCNext]_MCVars
  /\ part = "hop" => Hop!Fairness

----------------------------------------------------------------------------
\* A hop's carrier or transmission goes out on its band (WsprHopping).
OnHoppedBand == part = "hop" => Hop!OnHoppedBand

\* A band that stays ticked is visited again and again (WsprHopping).
EveryBand == part = "hop" => Hop!EveryBand

\* A schedule never transmits too often in a row, and transmits as often as
\* asked or as far as there is room (TxSchedule).
ScheduleKept == part = "schedule" => Schedule!NotInARow /\ Schedule!ShareKept

\* No spot is posted twice, unless the file of its interval met another upload,
\* and none under a wrong band (SpotUpload); and a report to pskreporter.info says
\* where each station was heard, unless it was decoded while a band chosen in the
\* program was on its way to the rig and back (PskSpots).
SpotsTrue ==
  /\ part = "upload" => Upload!SpotsSound
  /\ part = "psk" => Psk!ReportTrue

\* No spot is removed before it was posted, and no interval reported as empty that
\* was not, unless its file met another upload (SpotUpload).
SpotsTold == Upload!SpotsKept /\ Upload!NoSpotTrue
=============================================================================
