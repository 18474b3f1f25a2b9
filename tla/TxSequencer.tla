---------------------------- MODULE TxSequencer ----------------------------
(***************************************************************************)
(* The transmit sequencer of MainWindow: guiUpdate, run by a 100 ms timer,  *)
(* decides when to key the rig, two single-shot timers delay the audio      *)
(* after PTT and PTT after the audio, and the operator's buttons, the       *)
(* watchdog and the decoder set the flags it reads.  The Modulator lives in *)
(* the audio thread and is reached through queued calls.                    *)
(*                                                                          *)
(* One step of the clock is one period of m_guiTimer (100 ms).  The rig is  *)
(* seen as the last PTT request emitted to Configuration.  The message box   *)
(* that guiUpdate opens is modal and stops guiUpdate itself, whose timer does *)
(* not enter its slot twice; timers, the decoder, the rig and UDP go on.      *)
(* The Echo, ISCAT, JTMSK and fast JT9 modes, and the /txboth test file, are  *)
(* left out.                                                                  *)
(***************************************************************************)
EXTENDS Integers, Sequences

CONSTANTS
  Wspr,          \* m_mode begins with "WSPR"; otherwise a JT mode
  Period,        \* m_TRperiod, in clock steps
  TxTicks,       \* txDuration, in clock steps
  CwTicks,       \* length of the CW identification, in clock steps
  SecTicks,      \* clock steps in which m_nseq is 0 (one second)
  PttDelay, TuneDelay, AutoDelay, AtuDelay, \* intervals of the single-shot timers, in clock steps
  HaltDelay,     \* the 50 ms with which the decoder starts tuneButtonTimer
  Watchdog,      \* m_config.watchdog ()
  WatchdogLimit, \* m_watchdogLimit
  DisableTxOn73, \* m_disable_TX_on_73
  PctTx,         \* m_pctx: per cent of WSPR intervals spent transmitting
  MaxLate,       \* bound: clock steps by which the event loop is late for a timer
  Messages,      \* the texts m_ntx can select
  NoMessage,     \* what msgsent holds before the first transmission
  Msgs73,        \* those for which message_is_73 holds
  MaxOps,        \* bound: operator and decoder interventions
  MaxAudioLag    \* bound: calls queued to the audio thread

Timers == {"ptt0", "ptt1", "tuneButton", "autoButton", "tuneATU"}

\* ptt0Timer and ptt1Timer have one interval.
Delay ==
  [t \in Timers |->
     CASE t \in {"ptt0", "ptt1"} -> PttDelay [] t = "tuneButton" -> TuneDelay
       [] t = "autoButton" -> AutoDelay [] t = "tuneATU" -> AtuDelay]

ASSUME ModeAssumption ==
  /\ Wspr \in BOOLEAN /\ DisableTxOn73 \in BOOLEAN /\ Watchdog \in BOOLEAN
  /\ Msgs73 \subseteq Messages /\ Messages # {} /\ NoMessage \notin Messages

ASSUME TimeAssumption ==
  /\ Period \in Nat \ {0} /\ TxTicks \in Nat /\ CwTicks \in Nat
  /\ TxTicks + CwTicks + 1 < Period
  /\ SecTicks \in Nat \ {0} /\ HaltDelay \in Nat \ {0}
  /\ {PttDelay, TuneDelay, AutoDelay, AtuDelay} \subseteq Nat \ {0}
  /\ WatchdogLimit \in Nat /\ PctTx \in 0..100
  /\ MaxOps \in Nat /\ MaxAudioLag \in Nat /\ MaxLate \in Nat

VARIABLES
  now,            \* the time of day modulo two T/R periods (t2p)
  guiTimer,       \* m_guiTimer: 0 served, else steps left in which to serve it
  timer,          \* single-shot timers: 0 idle, k: to be served in k-1 steps
  boxed,          \* guiUpdate waits for the answer to its message box
  m_auto, m_tune,
  lastChecked,    \* the static of on_tuneButton_clicked
  uiTune,         \* tuneButton is shown checked
  m_txFirst,
  subBand,        \* onAirFreq, the Tx frequency, lies in the 30 m WSPR sub-band
  warned,         \* where onAirFreq0, the last frequency warned of, lies
  m_bTxTime, m_btxok, g_iptt, m_transmitting, m_monitoring,
  iptt0, btxok0,  \* the statics of guiUpdate
  m_ntx,          \* the selected message
  msgsent,        \* the message last generated
  m_msgSent0, m_repeatMsg, m_restart,
  icw,            \* clock steps of CW identification after the message
  m_ntr, m_WSPR_tx_next, m_txNext, m_rxDone, m_tuneup,
  ptt,            \* last value emitted by transceiver_ptt
  audioQ,         \* calls queued to the audio thread
  modActive,      \* Modulator::m_state # Idle
  modTuning,      \* Modulator::m_tuning
  ops             \* interventions so far

clockVars == <<now, guiTimer, timer>>
tuneVars == <<m_tune, lastChecked, uiTune>>
setVars == <<m_txFirst, subBand, warned>>
Warnings == {"never", "elsewhere", "here"}
seqVars == <<g_iptt, m_transmitting, iptt0, btxok0>>
msgVars == <<msgsent, m_msgSent0, icw>>
wsprVars == <<m_ntr, m_WSPR_tx_next, m_rxDone, m_tuneup>>
modVars == <<modActive, modTuning>>
vars == <<clockVars, boxed, m_auto, tuneVars, setVars, m_bTxTime, m_btxok, seqVars,
          m_monitoring, m_ntx, msgVars, m_repeatMsg, m_restart, wsprVars,
          m_txNext, ptt, audioQ, modVars, ops>>

AudioCalls == {"start", "stop", "tune on", "tune off"}

Init ==
  /\ now \in 0..(2 * Period - 1) /\ guiTimer = 0 /\ timer = [t \in Timers |-> 0]
  /\ boxed = FALSE /\ warned = "never"
  /\ m_auto = FALSE /\ m_tune = FALSE /\ lastChecked = FALSE /\ uiTune = FALSE
  /\ m_txFirst \in BOOLEAN /\ subBand \in BOOLEAN
  /\ m_bTxTime = FALSE /\ m_btxok = FALSE /\ g_iptt = 0
  /\ m_transmitting = FALSE /\ m_monitoring \in BOOLEAN
  /\ iptt0 = 0 /\ btxok0 = FALSE
  /\ m_ntx \in Messages /\ msgsent = NoMessage /\ m_msgSent0 = NoMessage
  /\ m_repeatMsg = 0 /\ m_restart = FALSE /\ icw = 0
  /\ m_ntr = 0 /\ m_WSPR_tx_next = FALSE /\ m_txNext = FALSE
  /\ m_rxDone = FALSE /\ m_tuneup = FALSE
  /\ ptt = FALSE /\ audioQ = <<>> /\ modActive = FALSE /\ modTuning = FALSE
  /\ ops = 0

-----------------------------------------------------------------------------
\* Timers and time

Active(tm, t) == tm[t] # 0                        \* QTimer::isActive
Start(tm, t, d) == [tm EXCEPT ![t] = d + MaxLate + 1]  \* QTimer::start
StartIfIdle(tm, t, d) == IF Active(tm, t) THEN tm ELSE Start(tm, t, d)
Fired(t) == [timer EXCEPT ![t] = 0]

\* stopTx leaves PTT up for as long as the sequencer delay.
DropPttLater_swapped(tm) == Start(tm, "ptt1", Delay["ptt1"])
DropPttLater(tm) == Start(tm, "ptt0", Delay["ptt0"])

\* Tune switched off: tuneButtonTimer will end it.
EndTuneLater_missing(tm) == tm
EndTuneLater(tm) == StartIfIdle(tm, "tuneButton", Delay["tuneButton"])

\* The signal tune (checked), as the audio thread receives it.
TuneCall(checked) == IF checked THEN "tune on" ELSE "tune off"

\* on_monitorButton_clicked (true) is refused while the station transmits.
MonitorOn_unguarded == TRUE
MonitorOn == m_monitoring \/ ~m_transmitting

\* The time of day wraps at midnight, here at two periods.
Later(t) == (t + 1) % (2 * Period)

\* A tenth of a second passes.  The event loop serves a timer at most MaxLate
\* steps late.
Elapse ==
  /\ guiTimer # 1 /\ \A t \in Timers : timer[t] # 1
  /\ now' = Later(now)
  /\ guiTimer' = IF guiTimer # 0 THEN guiTimer - 1
                 ELSE IF boxed THEN 0 ELSE MaxLate + 1
  /\ timer' = [t \in Timers |-> IF timer[t] = 0 THEN 0 ELSE timer[t] - 1]
  /\ UNCHANGED <<boxed, m_auto, tuneVars, setVars, m_bTxTime, m_btxok, seqVars,
                 m_monitoring, m_ntx, msgVars, m_repeatMsg, m_restart, wsprVars,
                 m_txNext, ptt, audioQ, modVars, ops>>

m_nseq == now % Period

\* The T/R window of the selected (even or odd) period, CW identification
\* included.
TxWindow ==
  LET tx1 == IF m_txFirst THEN 0 ELSE Period
  IN  tx1 <= now /\ now < tx1 + TxTicks + icw

-----------------------------------------------------------------------------
\* guiUpdate, in the order of its text.  Each operator is the value a flag has
\* after the lines it stands for.  With boxed set the run is the one that waited
\* for the answer, and what it had found out before the box stands.

\* The WSPR decision taken once in the first second of an interval.
Deciding == Wspr /\ m_nseq < SecTicks /\ m_ntr = 0

TxThisInterval ==
  m_auto /\ ((m_WSPR_tx_next /\ PctTx # 0) \/ m_txNext \/ PctTx = 100)

NtrDecided ==
  IF ~Deciding THEN m_ntr ELSE IF TxThisInterval THEN -1 ELSE 1

Engaged_auto == m_auto \/ m_tune

\* A transmission, Enable Tx or Tune makes guiUpdate look at the PTT.
Engaged == boxed \/ m_transmitting \/ m_auto \/ m_tune

\* No mode but WSPR transmits in the WSPR sub-band of 30 m.
Barred == boxed \/ (Engaged /\ subBand /\ ~Wspr)

\* The operator is warned once of a frequency, until he is warned of another.
Warning == ~boxed /\ Barred /\ warned # "here"

TxTime ==
  /\ ~Barred
  /\ \/ m_tune
     \/ ~Wspr /\ TxWindow
     \/ Wspr /\ (IF Deciding THEN TxThisInterval ELSE m_bTxTime)

Keying == Engaged /\ g_iptt = 0 /\ (TxTime \/ m_tune)

Keyed == IF Keying THEN 1 ELSE g_iptt

TimeToStop_auto == m_auto /\ ~TxTime /\ ~m_tune

TimeToStop == Engaged /\ ~TxTime /\ ~m_tune

\* A WSPR interval is over: received, or transmitted to its end.
IntervalOver ==
  Wspr /\ \/ NtrDecided = 1 /\ m_rxDone
          \/ NtrDecided = -1 /\ m_nseq > TxTicks + icw

EndWsprTx == IntervalOver /\ m_transmitting

EndWsprRx == IntervalOver /\ ~m_transmitting /\ NtrDecided # -1

FirstTick == Keyed = 1 /\ iptt0 = 0

BtxokBeforeStop_unset == m_btxok /\ ~TimeToStop /\ ~EndWsprTx

BtxokBeforeStop == FirstTick \/ (m_btxok /\ ~TimeToStop /\ ~EndWsprTx)

\* The falling edge of m_btxok that ends a transmission.
StopEdge == ~BtxokBeforeStop /\ btxok0 /\ Keyed = 1

\* WSPR_scheduling: what band hopping may answer.  There may be no hop, or one
\* to the band in use or to a new one.  A hop may ask for a short carrier for
\* the antenna tuner, but not when it announces a transmission.
Hops == {"none", "same", "new"}

Schedule(called, hop, atu, next) ==
  IF called THEN atu => (hop # "none" /\ m_auto /\ ~next)
            ELSE hop = "none" /\ ~atu /\ ~next

\* The carrier is asked for by on_tuneButton_clicked (true), which ignores a
\* Tune that is on already.
TuneOn(atu) == atu /\ ~lastChecked

\* A new band and a fresh Tune reset the watchdog and switch the monitor on.
Fresh(hop, atu) == hop = "new" \/ (TuneOn(atu) /\ ~m_tune)

ScheduledTimers(tm, atu) ==
  LET started == IF atu THEN Start(tm, "tuneATU", Delay["tuneATU"]) ELSE tm
  IN  IF TuneOn(atu) /\ m_tune THEN EndTuneLater(started) ELSE started

ScheduledCalls(atu) == IF TuneOn(atu) THEN Append(audioQ, TuneCall(TRUE)) ELSE audioQ

\* Tones are made for a new transmission, or anew when the message has changed.
Tones == FirstTick \/ m_restart

Sent(atu) == IF Tones /\ ~m_tune /\ ~TuneOn(atu) THEN m_ntx ELSE msgsent

Sent73(atu) == Tones /\ ~m_tune /\ ~TuneOn(atu) /\ m_ntx \in Msgs73

GuiTimers(atu) ==
  LET scheduled == ScheduledTimers(timer, atu)
      keyed == IF Keying THEN Start(scheduled, "ptt1", Delay["ptt1"]) ELSE scheduled
      ended == IF Sent73(atu) /\ DisableTxOn73
               THEN StartIfIdle(keyed, "autoButton", Delay["autoButton"]) ELSE keyed
  IN  IF StopEdge THEN DropPttLater(ended) ELSE ended

\* m_repeatMsg is only compared with the limit: counting stops there.
Repeated(n) == IF n < WatchdogLimit THEN n + 1 ELSE n

\* All of guiUpdate, or what is left of it after the box.
FinishUpdate ==
  /\ Len(audioQ) < MaxAudioLag /\ guiTimer' = 0 /\ boxed' = FALSE
  /\ \E hop \in Hops, atu \in BOOLEAN, next \in BOOLEAN :
       /\ Schedule(EndWsprRx, hop, atu, next)
       /\ m_WSPR_tx_next' = IF EndWsprRx THEN next
                            ELSE m_WSPR_tx_next /\ ~(Deciding /\ PctTx = 0)
       /\ m_tuneup' = IF hop = "none" THEN m_tuneup /\ ~Deciding ELSE atu
       /\ m_tune' = (m_tune \/ TuneOn(atu))
       /\ lastChecked' = (lastChecked \/ TuneOn(atu))
       /\ msgsent' = Sent(atu)
       /\ m_msgSent0' = IF FirstTick THEN Sent(atu) ELSE m_msgSent0
       /\ LET repeats == IF Fresh(hop, atu) THEN 0 ELSE m_repeatMsg
          IN  m_repeatMsg' = IF ~FirstTick THEN repeats
                             ELSE IF Sent(atu) = m_msgSent0 THEN Repeated(repeats) ELSE 0
       /\ m_monitoring' = (StopEdge \/ (~FirstTick /\ (m_monitoring \/ Fresh(hop, atu))))
       /\ timer' = GuiTimers(atu)
       /\ audioQ' = IF StopEdge THEN Append(ScheduledCalls(atu), "stop")
                    ELSE ScheduledCalls(atu)
  /\ m_ntr' = IF EndWsprRx THEN 0 ELSE NtrDecided
  /\ m_txNext' = (m_txNext /\ ~(Deciding /\ TxThisInterval))
  /\ m_rxDone' = (m_rxDone /\ ~(IntervalOver /\ m_monitoring))
  /\ m_bTxTime' = (TxTime /\ ~EndWsprTx)
  /\ m_auto' = (m_auto /\ (boxed \/ ~Barred))
  /\ icw' \in IF Tones THEN {0, CwTicks} ELSE {icw}
  /\ m_restart' = FALSE
  /\ ptt' = (ptt \/ Keying)
  /\ m_btxok' = BtxokBeforeStop
  /\ g_iptt' = IF StopEdge THEN 0 ELSE Keyed
  /\ m_transmitting' = ((m_transmitting \/ FirstTick) /\ ~StopEdge)
  /\ iptt0' = g_iptt' /\ btxok0' = m_btxok'
  /\ UNCHANGED <<now, uiTune, setVars, m_ntx, modVars, ops>>

\* A run with no box, and a run up to its box.
GuiUpdate == guiTimer # 0 /\ ~boxed /\ ~Warning /\ FinishUpdate

Warn ==
  /\ guiTimer # 0 /\ Warning /\ guiTimer' = 0 /\ boxed' = TRUE
  /\ m_bTxTime' = FALSE /\ m_auto' = FALSE /\ warned' = "here"
  /\ UNCHANGED <<now, timer, tuneVars, m_txFirst, subBand, m_btxok, seqVars, m_monitoring,
                 m_ntx, msgVars, m_repeatMsg, m_restart, wsprVars, m_txNext, ptt, audioQ,
                 modVars, ops>>

\* The operator answers the box.
Answer == boxed /\ FinishUpdate

-----------------------------------------------------------------------------
\* on_stopTxButton_clicked, the Halt Tx of the operator, the watchdog and the
\* decoder: what it does to Tune, then to the rest.  tm and calls are the timers
\* and the queue it finds.  With Tune on it calls stop_tuning, which calls
\* on_tuneButton_clicked (false).

HaltTune(tm, calls) ==
  /\ m_tune' = FALSE /\ lastChecked' = (lastChecked /\ ~m_tune)
  /\ uiTune' = (uiTune /\ ~m_tune)
  /\ m_bTxTime' = (m_bTxTime /\ ~m_tune)
  /\ timer' = IF m_tune /\ lastChecked
              THEN EndTuneLater(tm) ELSE tm
  /\ audioQ' = IF m_tune /\ lastChecked THEN Append(calls, TuneCall(FALSE)) ELSE calls

HaltTx_inverted(tm, calls) ==
  /\ HaltTune(tm, calls)
  /\ m_auto' = (m_auto /\ ~m_tuneup)
  /\ m_btxok' = FALSE /\ m_repeatMsg' = 0

HaltTx(tm, calls) ==
  /\ HaltTune(tm, calls)
  /\ m_auto' = (m_auto /\ m_tuneup)
  /\ m_btxok' = FALSE /\ m_repeatMsg' = 0

\* on_tuneButton_clicked (checked), from the button or from ATU tuning's end.
\* Turning Tune off only starts the timer that will do it.
ClickTune(tm, checked) ==
  /\ lastChecked' = checked
  /\ IF lastChecked = checked
     THEN timer' = tm /\ UNCHANGED <<m_tune, m_monitoring, m_repeatMsg, audioQ>>
     ELSE /\ audioQ' = Append(audioQ, TuneCall(checked))
          /\ m_tune' = TRUE
          /\ timer' = IF m_tune THEN EndTuneLater(tm) ELSE tm
          /\ m_monitoring' = IF m_tune THEN m_monitoring ELSE MonitorOn
          /\ m_repeatMsg' = IF m_tune THEN m_repeatMsg ELSE 0

-----------------------------------------------------------------------------
\* Timeouts of the single-shot timers

TimeOut(t) == timer[t] \in 1..(MaxLate + 1) /\ Len(audioQ) < MaxAudioLag

\* ptt1Timer, startTx2: the rig has had time to switch over, start the audio.
\* isActive reads the audio thread's state as it is now.
StartTx2 ==
  /\ TimeOut("ptt1") /\ timer' = Fired("ptt1")
  /\ audioQ' = IF modActive THEN audioQ ELSE Append(audioQ, "start")
  /\ UNCHANGED <<now, guiTimer, boxed, m_auto, tuneVars, setVars, m_bTxTime, m_btxok, seqVars,
                 m_monitoring, m_ntx, msgVars, m_repeatMsg, m_restart, wsprVars,
                 m_txNext, ptt, modVars, ops>>

Runaway == ~Wspr /\ Watchdog /\ m_repeatMsg >= WatchdogLimit - 1

WsprTxOver_auto == Wspr /\ m_ntr = -1 /\ m_auto
WsprTxOver == Wspr /\ m_ntr = -1 /\ ~m_tuneup

\* ptt0Timer, stopTx2: lower PTT, then look at the watchdog, or schedule the
\* next WSPR interval.
StopTx2 ==
  /\ TimeOut("ptt0") /\ ptt' = FALSE
  /\ \/ Runaway /\ HaltTx(Fired("ptt0"), audioQ) /\ UNCHANGED <<wsprVars, m_monitoring>>
     \/ \E hop \in Hops, atu \in BOOLEAN, next \in BOOLEAN :
          /\ ~Runaway /\ Schedule(WsprTxOver, hop, atu, next)
          /\ m_ntr' = IF WsprTxOver THEN 0 ELSE m_ntr
          /\ m_WSPR_tx_next' = IF WsprTxOver THEN next ELSE m_WSPR_tx_next
          /\ m_tuneup' = IF hop = "none" THEN m_tuneup ELSE atu
          /\ m_tune' = (m_tune \/ TuneOn(atu))
          /\ lastChecked' = (lastChecked \/ TuneOn(atu))
          /\ timer' = ScheduledTimers(Fired("ptt0"), atu)
          /\ audioQ' = ScheduledCalls(atu)
          /\ m_repeatMsg' = IF Fresh(hop, atu) THEN 0 ELSE m_repeatMsg
          /\ m_monitoring' = IF Fresh(hop, atu) THEN MonitorOn ELSE m_monitoring
          /\ UNCHANGED <<m_auto, m_btxok, m_bTxTime, uiTune, m_rxDone>>
  /\ UNCHANGED <<now, guiTimer, boxed, setVars, seqVars, m_ntx, msgVars, m_restart, m_txNext,
                 modVars, ops>>

\* tuneButtonTimer is connected to on_stopTxButton_clicked.
TuneButtonTimeout ==
  /\ TimeOut("tuneButton") /\ HaltTx(Fired("tuneButton"), audioQ)
  /\ UNCHANGED <<now, guiTimer, boxed, setVars, seqVars, m_monitoring, m_ntx, msgVars,
                 m_restart, wsprVars, m_txNext, ptt, modVars, ops>>

\* autoButtonTimer, auto_button_off: Enable Tx goes off after a 73.
AutoButtonTimeout ==
  /\ TimeOut("autoButton") /\ timer' = Fired("autoButton") /\ m_auto' = FALSE
  /\ UNCHANGED <<now, guiTimer, boxed, tuneVars, setVars, m_bTxTime, m_btxok, seqVars,
                 m_monitoring, m_ntx, msgVars, m_repeatMsg, m_restart, wsprVars,
                 m_txNext, ptt, audioQ, modVars, ops>>

\* tuneATU_Timer, stopTuneATU: the tuner has had its carrier.
TuneATUTimeout ==
  /\ TimeOut("tuneATU") /\ ClickTune(Fired("tuneATU"), FALSE) /\ m_bTxTime' = FALSE
  /\ UNCHANGED <<now, guiTimer, boxed, m_auto, uiTune, setVars, m_btxok, seqVars, m_ntx,
                 msgVars, m_restart, wsprVars, m_txNext, ptt, modVars, ops>>

-----------------------------------------------------------------------------
\* The audio thread serves its queue in order; a message ends by itself, a
\* tuning carrier does not.

AudioCall ==
  /\ audioQ # <<>> /\ audioQ' = Tail(audioQ)
  /\ CASE Head(audioQ) = "start"    -> modActive' = TRUE /\ UNCHANGED modTuning
       [] Head(audioQ) = "stop"     -> modActive' = FALSE /\ UNCHANGED modTuning
       [] Head(audioQ) = "tune on"  -> modTuning' = TRUE /\ UNCHANGED modActive
       [] Head(audioQ) = "tune off" -> modTuning' = FALSE /\ modActive' = FALSE
  /\ UNCHANGED <<clockVars, boxed, m_auto, tuneVars, setVars, m_bTxTime, m_btxok, seqVars,
                 m_monitoring, m_ntx, msgVars, m_repeatMsg, m_restart, wsprVars,
                 m_txNext, ptt, ops>>

MessageEnds ==
  /\ modActive /\ ~modTuning /\ modActive' = FALSE
  /\ UNCHANGED <<clockVars, boxed, m_auto, tuneVars, setVars, m_bTxTime, m_btxok, seqVars,
                 m_monitoring, m_ntx, msgVars, m_repeatMsg, m_restart, wsprVars,
                 m_txNext, ptt, audioQ, modTuning, ops>>

-----------------------------------------------------------------------------
\* The operator, the decoder and the receiver.  The open box lets no button be
\* pressed, but a UDP client may halt, send a free text or reply to a station
\* (processMessage chooses the period and the message and, with quick call, sets
\* Enable Tx), and the decoder and the rig's dial go on.

Intervention == ops < MaxOps /\ Len(audioQ) < MaxAudioLag /\ ops' = ops + 1

Pressed == Intervention /\ ~boxed

PressHaltTx ==
  /\ Intervention /\ HaltTx(timer, audioQ)
  /\ UNCHANGED <<now, guiTimer, boxed, setVars, seqVars, m_monitoring, m_ntx, msgVars, m_restart,
                 wsprVars, m_txNext, ptt, modVars>>

\* autoButton is checkable: a click is on_autoButton_clicked with its new state.
PressEnableTx ==
  /\ Intervention /\ m_auto' = ~m_auto
  /\ UNCHANGED <<clockVars, boxed, tuneVars, setVars, m_bTxTime, m_btxok, seqVars, m_monitoring,
                 m_ntx, msgVars, m_repeatMsg, m_restart, wsprVars, m_txNext, ptt, audioQ,
                 modVars>>

PressTune ==
  /\ Pressed /\ uiTune' = ~uiTune /\ ClickTune(timer, ~uiTune)
  /\ UNCHANGED <<now, guiTimer, boxed, m_auto, setVars, m_bTxTime, m_btxok, seqVars, m_ntx,
                 msgVars, m_restart, wsprVars, m_txNext, ptt, modVars>>

\* A message is chosen for now (on_txb1_clicked and its like, which send it at
\* once when a transmission is on) or for the next transmission (set_ntx).
SelectMessage ==
  /\ Intervention /\ m_ntx' \in Messages
  /\ \/ m_restart' = (m_restart \/ m_transmitting) /\ UNCHANGED m_repeatMsg
     \/ m_repeatMsg' = 0 /\ UNCHANGED m_restart
  /\ UNCHANGED <<clockVars, boxed, m_auto, tuneVars, setVars, m_bTxTime, m_btxok, seqVars,
                 m_monitoring, msgVars, wsprVars, m_txNext, ptt, audioQ, modVars>>

PressTxMinute ==
  /\ Intervention /\ m_txFirst' = ~m_txFirst
  /\ UNCHANGED <<clockVars, boxed, m_auto, tuneVars, subBand, warned, m_bTxTime, m_btxok, seqVars,
                 m_monitoring, m_ntx, msgVars, m_repeatMsg, m_restart, wsprVars, m_txNext,
                 ptt, audioQ, modVars>>

\* The operator picks a band (band_changed).  A JT station halts when its audio
\* frequency would fall outside the waterfall.
ChangeBand ==
  /\ Pressed /\ m_repeatMsg' = 0 /\ m_monitoring' = MonitorOn
  /\ \/ UNCHANGED <<m_auto, tuneVars, m_bTxTime, m_btxok, timer, audioQ>>
     \/ ~Wspr /\ HaltTune(timer, audioQ) /\ m_auto' = FALSE /\ m_btxok' = FALSE
  /\ UNCHANGED <<now, guiTimer, boxed, setVars, seqVars, m_ntx, msgVars, m_restart, wsprVars,
                 m_txNext, ptt, modVars>>

\* The Tx frequency enters or leaves the WSPR sub-band, or moves inside it.
ChangeFrequency ==
  /\ Intervention /\ subBand' \in BOOLEAN
  /\ warned' \in IF warned = "never" THEN {"never"}
                 ELSE IF subBand' THEN {"elsewhere", "here"} ELSE {"elsewhere"}
  /\ UNCHANGED <<clockVars, boxed, m_auto, tuneVars, m_txFirst, m_bTxTime, m_btxok, seqVars,
                 m_monitoring, m_ntx, msgVars, m_repeatMsg, m_restart, wsprVars, m_txNext,
                 ptt, audioQ, modVars>>

PressTxNext ==
  /\ Pressed /\ Wspr /\ PctTx > 0 /\ m_txNext' = ~m_txNext
  /\ UNCHANGED <<clockVars, boxed, m_auto, tuneVars, setVars, m_bTxTime, m_btxok, seqVars,
                 m_monitoring, m_ntx, msgVars, m_repeatMsg, m_restart, wsprVars, ptt,
                 audioQ, modVars>>

\* stopButton always stops monitoring; monitorButton is refused in transmission.
PressMonitor ==
  /\ Pressed
  /\ \/ m_monitoring' = FALSE
     \/ m_monitoring' = MonitorOn
  /\ UNCHANGED <<clockVars, boxed, m_auto, tuneVars, setVars, m_bTxTime, m_btxok, seqVars, m_ntx,
                 msgVars, m_repeatMsg, m_restart, wsprVars, m_txNext, ptt, audioQ, modVars>>

\* The decoder finds the called station answering somebody else, or sending the
\* same report again and again: readFromStdout starts tuneButtonTimer, in the
\* second case even when it runs.
DecoderHalts ==
  /\ Intervention
  /\ timer' \in {StartIfIdle(timer, "tuneButton", HaltDelay),
                 Start(timer, "tuneButton", HaltDelay)}
  /\ UNCHANGED <<now, guiTimer, boxed, m_auto, tuneVars, setVars, m_bTxTime, m_btxok, seqVars,
                 m_monitoring, m_ntx, msgVars, m_repeatMsg, m_restart, wsprVars, m_txNext,
                 ptt, audioQ, modVars>>

\* dataSink: a WSPR interval has been received to its end.
ReceptionDone ==
  /\ Wspr /\ m_monitoring /\ ~m_rxDone /\ m_nseq > TxTicks /\ m_rxDone' = TRUE
  /\ UNCHANGED <<clockVars, boxed, m_auto, tuneVars, setVars, m_bTxTime, m_btxok, seqVars,
                 m_monitoring, m_ntx, msgVars, m_repeatMsg, m_restart, m_ntr,
                 m_WSPR_tx_next, m_tuneup, m_txNext, ptt, audioQ, modVars, ops>>

-----------------------------------------------------------------------------
Operator ==
  \/ PressHaltTx \/ PressEnableTx \/ PressTune \/ SelectMessage \/ PressTxMinute
  \/ ChangeBand \/ ChangeFrequency \/ PressTxNext \/ PressMonitor \/ DecoderHalts

Timeout ==
  \/ StartTx2 \/ StopTx2 \/ TuneButtonTimeout \/ AutoButtonTimeout \/ TuneATUTimeout

Next ==
  \/ Elapse \/ GuiUpdate \/ Warn \/ Answer \/ Timeout \/ AudioCall \/ MessageEnds \/ ReceptionDone
  \/ Operator

\* Time passes, the event loop delivers every timeout that stays due, and the
\* audio thread serves its queue; nobody has to press a button or answer a box.
Fairness ==
  /\ WF_vars(Elapse) /\ WF_vars(GuiUpdate) /\ WF_vars(Warn) /\ WF_vars(AudioCall)
  /\ WF_vars(StartTx2) /\ WF_vars(StopTx2) /\ WF_vars(TuneButtonTimeout)
  /\ WF_vars(AutoButtonTimeout) /\ WF_vars(TuneATUTimeout)

Spec == Init /\ [][Next]_vars /\ Fairness

-----------------------------------------------------------------------------
\* Properties

ClockOK ==
  now \in 0..(2 * Period - 1) /\ guiTimer \in 0..(MaxLate + 1) /\ timer \in [Timers -> Nat]
FlagsOK ==
  /\ m_auto \in BOOLEAN /\ m_tune \in BOOLEAN /\ lastChecked \in BOOLEAN
  /\ uiTune \in BOOLEAN /\ m_txFirst \in BOOLEAN /\ subBand \in BOOLEAN
  /\ m_bTxTime \in BOOLEAN /\ m_btxok \in BOOLEAN /\ m_transmitting \in BOOLEAN
  /\ m_monitoring \in BOOLEAN /\ btxok0 \in BOOLEAN /\ m_restart \in BOOLEAN
  /\ m_WSPR_tx_next \in BOOLEAN /\ m_txNext \in BOOLEAN /\ m_rxDone \in BOOLEAN
  /\ m_tuneup \in BOOLEAN /\ ptt \in BOOLEAN /\ boxed \in BOOLEAN /\ warned \in Warnings
  /\ modActive \in BOOLEAN /\ modTuning \in BOOLEAN
CountsOK ==
  /\ g_iptt \in {0, 1} /\ iptt0 \in {0, 1} /\ m_ntr \in {-1, 0, 1}
  /\ m_repeatMsg \in 0..WatchdogLimit /\ icw \in {0, CwTicks} /\ ops \in 0..MaxOps
MessagesOK ==
  /\ m_ntx \in Messages /\ msgsent \in Messages \cup {NoMessage}
  /\ m_msgSent0 \in Messages \cup {NoMessage}
QueueOK == audioQ \in Seq(AudioCalls)
TypeOK == ClockOK /\ FlagsOK /\ CountsOK /\ MessagesOK /\ QueueOK

\* No stuck transmitter: whenever the rig has been told to transmit, either a
\* transmission is on or the timer that lowers PTT is running, whatever buttons,
\* timers and late calls came in between (guiUpdate, stopTx, stopTx2).
PttReleased == ptt => g_iptt = 1 \/ Active(timer, "ptt0")

\* The end of a transmission is an edge of m_btxok seen by guiUpdate, and other
\* handlers drop m_btxok.  The edge cannot be lost: between two runs of guiUpdate
\* its memory agrees with the PTT, and a transmission always has btxok0 set, so
\* a fallen m_btxok is noticed by the next run.
StopEdgeKept ==
  /\ m_transmitting <=> g_iptt = 1
  /\ iptt0 = g_iptt
  /\ g_iptt = 1 => btxok0

\* Tune has two halves, the flag m_tune and the handler's own lastChecked, set at
\* different times.  They may only disagree while the timer that ends Tune runs:
\* otherwise a click could be ignored and the carrier left on.
TuneEnds == (lastChecked => m_tune) /\ (m_tune /\ ~lastChecked => Active(timer, "tuneButton"))

\* The audio thread's tuning flag follows the GUI's through the queue: once Tune
\* is off the carrier is off, or the call that stops it is on its way.
CarrierEnds ==
  modTuning /\ ~lastChecked => \E i \in 1..Len(audioQ) : audioQ[i] = "tune off"

\* Tune ends whole: flag, handler and carrier.
TuneOver == TuneEnds /\ CarrierEnds

\* What makes CarrierEnds inductive: with Tune off the last tuning call in the
\* queue turns the carrier off, or the carrier is off and no call turns it on.
NoTuneOn(calls) == \A j \in 1..Len(calls) : calls[j] # "tune on"

EndsTune(calls) ==
  \E i \in 1..Len(calls) :
    calls[i] = "tune off" /\ \A j \in 1..Len(calls) : j > i => calls[j] # "tune on"

CarrierInv ==
  ~lastChecked => (~modTuning /\ NoTuneOn(audioQ)) \/ EndsTune(audioQ)

\* The receiver is never fed while the station transmits, though the monitor
\* button, Tune, band hopping and the end of a transmission all switch it on.
NoRxWhileTx == m_transmitting => ~m_monitoring

\* After any whole run of guiUpdate a JT station that is not tuning transmits only in
\* its own (even or odd) period and never in the WSPR sub-band: a change of the
\* period, of the frequency or of the time ends the transmission at once.
TxInSlot ==
  [][(GuiUpdate \/ Answer) /\ ~Wspr /\ g_iptt' = 1 /\ ~m_tune'
       => TxWindow /\ ~subBand]_vars

\* The operator leaves no box open for ever.
Answered == []<>~boxed

\* With Enable Tx and Tune off the transmitter goes off (unless they are switched
\* on again), provided the operator answers the box about the sub-band: guiUpdate
\* opens it before it stops the transmission, so that until it is answered PTT
\* stays up, Halt Tx or not.
TransmitterStops == Answered => ((~m_auto /\ ~m_tune) ~> (~ptt \/ m_auto \/ m_tune))

\* Runaway Tx watchdog: a station left alone, the watchdog enabled and no box open,
\* does not repeat itself for ever.
WatchdogStops == Watchdog /\ Answered => []<>(~m_auto \/ m_tune)

\* WSPR: an interval begun as a transmission is closed again, whatever halts,
\* tuning and late timers do to it, so that a next interval can be decided.
WsprIntervalCloses == (m_ntr = -1) ~> (m_ntr # -1)

\* Documented: "Halt Tx terminates a transmission in progress".  Once Enable Tx and
\* Tune are off, the sequencer idle and PTT lowered, no audio is played.
HaltEndsTransmission ==
  ~m_auto /\ ~m_tune /\ g_iptt = 0 /\ ~ptt /\ audioQ = <<>> => ~modActive

\* Documented: "Tune may be used to switch into Tx mode and generate an
\* unmodulated carrier": while the carrier is played the rig is keyed.
TuneCarrierKeyed == g_iptt = 1 /\ modTuning /\ modActive => ptt

\* Documented: "A transmission will not be started any later than 24 s into a UTC
\* minute", that is later than two fifths of the period.
NoLateStart ==
  [][GuiUpdate /\ g_iptt = 0 /\ g_iptt' = 1 /\ ~m_tune' => 5 * m_nseq <= 2 * Period]_vars

\* Commented: to transmit WSPR "we need m_auto and scheduled transmit".  A WSPR
\* transmission starts only in an interval decided to be a transmission.
WsprTxScheduled ==
  [][GuiUpdate /\ Wspr /\ g_iptt = 0 /\ g_iptt' = 1 /\ ~m_tune' => m_ntr' = -1]_vars
=============================================================================
