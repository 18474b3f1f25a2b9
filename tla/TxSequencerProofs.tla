------------------------- MODULE TxSequencerProofs -------------------------
(* Proofs about TxSequencer for every value of its constants. *)
EXTENDS TxSequencer, SequenceTheorems, TLAPS

\* The inductive invariant.
IInv ==
  /\ TypeOK
  /\ StopEdgeKept
  /\ PttReleased
  /\ TuneEnds
  /\ NoRxWhileTx
  /\ CarrierInv

LEMMA InitIInv == Init => IInv
<1> SUFFICES ASSUME Init PROVE IInv
  OBVIOUS
<1>1. TypeOK
  <2>1. ClockOK
    BY TimeAssumption DEF Init, ClockOK
  <2>2. FlagsOK
    BY DEF Init, FlagsOK, Warnings
  <2>3. CountsOK
    BY TimeAssumption DEF Init, CountsOK
  <2>4. MessagesOK
    BY DEF Init, MessagesOK
  <2>5. QueueOK
    BY DEF Init, QueueOK
  <2>. QED
    BY <2>1, <2>2, <2>3, <2>4, <2>5 DEF TypeOK
<1>2. StopEdgeKept /\ PttReleased /\ TuneEnds /\ NoRxWhileTx
  BY DEF Init, StopEdgeKept, PttReleased, TuneEnds, NoRxWhileTx
<1>3. CarrierInv
  BY DEF Init, CarrierInv, NoTuneOn, EndsTune
<1>. QED
  BY <1>1, <1>2, <1>3 DEF IInv

LEMMA DelayType ==
  /\ \A t \in Timers : Delay[t] \in Nat
  /\ {"ptt0", "ptt1", "tuneButton", "autoButton", "tuneATU"} \subseteq Timers
  BY TimeAssumption DEF Timers, Delay

\* Starting and ending timers, and appending a call, keep the types.
LEMMA TimerType ==
  ASSUME NEW tm \in [Timers -> Nat], NEW t \in Timers, NEW d \in Nat
  PROVE  /\ Start(tm, t, d) \in [Timers -> Nat]
         /\ StartIfIdle(tm, t, d) \in [Timers -> Nat]
         /\ DropPttLater(tm) \in [Timers -> Nat]
         /\ EndTuneLater(tm) \in [Timers -> Nat]
  BY TimeAssumption, DelayType DEF Start, StartIfIdle, DropPttLater, EndTuneLater, Timers

LEMMA CallType ==
  ASSUME NEW q \in Seq(AudioCalls), NEW b
  PROVE  /\ Append(q, TuneCall(b)) \in Seq(AudioCalls)
         /\ TuneCall(b) \in AudioCalls
<1>1. TuneCall(b) \in AudioCalls
  BY DEF TuneCall, AudioCalls
<1>. QED
  BY <1>1

\* guiUpdate keeps the types.
LEMMA ScheduledTimersType ==
  ASSUME NEW tm \in [Timers -> Nat], NEW atu
  PROVE  ScheduledTimers(tm, atu) \in [Timers -> Nat]
<1>. DEFINE started == IF atu THEN Start(tm, "tuneATU", Delay["tuneATU"]) ELSE tm
<1>1. started \in [Timers -> Nat]
  BY TimerType, DelayType
<1>2. EndTuneLater(started) \in [Timers -> Nat]
  BY <1>1, TimerType, DelayType
<1>. QED
  BY <1>1, <1>2 DEF ScheduledTimers

LEMMA ScheduledCallsType ==
  ASSUME QueueOK, NEW atu PROVE ScheduledCalls(atu) \in Seq(AudioCalls)
  BY CallType DEF ScheduledCalls, QueueOK

LEMMA FinishUpdateType == TypeOK /\ FinishUpdate => TypeOK'
<1> SUFFICES ASSUME TypeOK, FinishUpdate PROVE TypeOK'
  OBVIOUS
<1>1. ClockOK'
  <2>1. PICK atu : timer' = GuiTimers(atu)
    BY DEF FinishUpdate
  <2>2. timer' \in [Timers -> Nat]
    <3>. DEFINE scheduled == ScheduledTimers(timer, atu)
    <3>. DEFINE keyed == IF Keying THEN Start(scheduled, "ptt1", Delay["ptt1"]) ELSE scheduled
    <3>. DEFINE ended == IF Sent73(atu) /\ DisableTxOn73
                         THEN StartIfIdle(keyed, "autoButton", Delay["autoButton"]) ELSE keyed
    <3>1. scheduled \in [Timers -> Nat]
      BY ScheduledTimersType DEF TypeOK, ClockOK
    <3>2. keyed \in [Timers -> Nat]
      BY <3>1, TimerType, DelayType
    <3>3. ended \in [Timers -> Nat]
      BY <3>2, TimerType, DelayType
    <3>4. DropPttLater(ended) \in [Timers -> Nat]
      BY <3>3, TimerType, DelayType
    <3>. QED
      BY <2>1, <3>3, <3>4 DEF GuiTimers
  <2>. QED
    BY <2>2, TimeAssumption DEF FinishUpdate, TypeOK, ClockOK
<1>2. FlagsOK'
  <2>1. PICK hop \in Hops, atu \in BOOLEAN, next \in BOOLEAN :
          /\ m_WSPR_tx_next' = IF EndWsprRx THEN next
                               ELSE m_WSPR_tx_next /\ ~(Deciding /\ PctTx = 0)
          /\ m_tuneup' = IF hop = "none" THEN m_tuneup /\ ~Deciding ELSE atu
          /\ m_tune' = (m_tune \/ TuneOn(atu))
          /\ lastChecked' = (lastChecked \/ TuneOn(atu))
          /\ m_monitoring' = (StopEdge \/ (~FirstTick /\ (m_monitoring \/ Fresh(hop, atu))))
    BY DEF FinishUpdate
  <2>2. m_WSPR_tx_next' \in BOOLEAN /\ m_tuneup' \in BOOLEAN
    BY <2>1, Zenon
  <2>3. m_tune' \in BOOLEAN /\ lastChecked' \in BOOLEAN /\ m_monitoring' \in BOOLEAN
    BY <2>1, Zenon
  <2>4. m_bTxTime' \in BOOLEAN /\ m_btxok' \in BOOLEAN /\ btxok0' \in BOOLEAN
    BY Zenon DEF FinishUpdate, BtxokBeforeStop
  <2>5. UNCHANGED <<uiTune, m_txFirst, subBand, warned, modActive, modTuning>>
    BY DEF FinishUpdate, setVars, modVars
  <2>6. /\ m_auto' \in BOOLEAN /\ m_transmitting' \in BOOLEAN /\ m_restart' \in BOOLEAN
        /\ m_txNext' \in BOOLEAN /\ m_rxDone' \in BOOLEAN /\ ptt' \in BOOLEAN
        /\ boxed' \in BOOLEAN
    BY Zenon DEF FinishUpdate
  <2>. QED
    BY <2>2, <2>3, <2>4, <2>5, <2>6, Zenon DEF TypeOK, FlagsOK
<1>3. CountsOK'
  <2>1. m_repeatMsg' \in 0..WatchdogLimit
    BY TimeAssumption DEF FinishUpdate, TypeOK, CountsOK, Repeated
  <2>2. g_iptt' \in {0, 1} /\ iptt0' \in {0, 1} /\ m_ntr' \in {-1, 0, 1}
    BY DEF FinishUpdate, TypeOK, CountsOK, Keyed, NtrDecided
  <2>. QED
    BY <2>1, <2>2 DEF FinishUpdate, TypeOK, CountsOK
<1>4. MessagesOK'
  BY DEF FinishUpdate, TypeOK, MessagesOK, Sent
<1>5. QueueOK'
  <2>1. PICK atu : audioQ' = IF StopEdge THEN Append(ScheduledCalls(atu), "stop")
                             ELSE ScheduledCalls(atu)
    BY DEF FinishUpdate
  <2>2. "stop" \in AudioCalls
    BY DEF AudioCalls
  <2>. QED
    BY <2>1, <2>2, ScheduledCallsType DEF QueueOK, TypeOK
<1>. QED
  BY <1>1, <1>2, <1>3, <1>4, <1>5 DEF TypeOK

\* A run of guiUpdate that reaches its end, at once or after its box.
Finishes == GuiUpdate \/ Answer

LEMMA FinishesIsFinishUpdate == Finishes => FinishUpdate
  BY DEF Finishes, GuiUpdate, Answer

LEMMA GuiUpdateType == TypeOK /\ Finishes => TypeOK'
  BY FinishesIsFinishUpdate, FinishUpdateType

\* What stop_tuning and on_tuneButton_clicked leave behind has its type.
LEMMA FiredType ==
  ASSUME TypeOK, NEW t \in Timers PROVE Fired(t) \in [Timers -> Nat]
  BY DEF TypeOK, ClockOK, Fired

LEMMA HaltTuneType ==
  ASSUME TypeOK, NEW tm \in [Timers -> Nat], HaltTune(tm, audioQ)
  PROVE  /\ m_tune' \in BOOLEAN /\ lastChecked' \in BOOLEAN /\ uiTune' \in BOOLEAN
         /\ m_bTxTime' \in BOOLEAN
         /\ timer' \in [Timers -> Nat]
         /\ audioQ' \in Seq(AudioCalls)
<1>1. /\ m_tune' \in BOOLEAN /\ lastChecked' \in BOOLEAN /\ uiTune' \in BOOLEAN
      /\ m_bTxTime' \in BOOLEAN
  BY Zenon DEF HaltTune
<1>2. timer' \in [Timers -> Nat]
  BY TimerType, DelayType DEF HaltTune
<1>3. audioQ' \in Seq(AudioCalls)
  BY CallType DEF HaltTune, TypeOK, QueueOK
<1>. QED
  BY <1>1, <1>2, <1>3

LEMMA ClickTuneType ==
  ASSUME TypeOK, NEW tm \in [Timers -> Nat], NEW checked \in BOOLEAN,
         ClickTune(tm, checked)
  PROVE  /\ m_tune' \in BOOLEAN /\ lastChecked' \in BOOLEAN /\ m_monitoring' \in BOOLEAN
         /\ timer' \in [Timers -> Nat]
         /\ m_repeatMsg' \in 0..WatchdogLimit
         /\ audioQ' \in Seq(AudioCalls)
<1>1. lastChecked' \in BOOLEAN
  BY Zenon DEF ClickTune
<1>2. m_tune' \in BOOLEAN
  BY Zenon DEF ClickTune, TypeOK, FlagsOK
<1>3. m_monitoring' \in BOOLEAN
  BY Zenon DEF ClickTune, TypeOK, FlagsOK, MonitorOn
<1>4. timer' \in [Timers -> Nat]
  BY TimerType, DelayType DEF ClickTune
<1>5. m_repeatMsg' \in 0..WatchdogLimit
  BY TimeAssumption DEF ClickTune, TypeOK, CountsOK
<1>6. audioQ' \in Seq(AudioCalls)
  BY CallType DEF ClickTune, TypeOK, QueueOK
<1>. QED
  BY <1>1, <1>2, <1>3, <1>4, <1>5, <1>6

\* The types, part by part: each action either changes a part as shown or leaves
\* it alone.
LEMMA ClockType == TypeOK /\ Next => ClockOK'
<1> SUFFICES ASSUME TypeOK, Next PROVE ClockOK'
  OBVIOUS
<1>1. CASE Elapse
  <2>1. now' \in 0..(2 * Period - 1)
    BY <1>1, TimeAssumption DEF Elapse, Later, TypeOK, ClockOK
  <2>2. guiTimer' \in 0..(MaxLate + 1)
    BY <1>1, TimeAssumption DEF Elapse, TypeOK, ClockOK
  <2>3. timer' \in [Timers -> Nat]
    BY <1>1 DEF Elapse, TypeOK, ClockOK
  <2>. QED
    BY <2>1, <2>2, <2>3 DEF ClockOK
<1>2. CASE Finishes
  BY <1>2, GuiUpdateType DEF TypeOK
<1>12. CASE Warn
  BY <1>12, TimeAssumption DEF Warn, TypeOK, ClockOK
<1>3. CASE StartTx2 \/ AutoButtonTimeout
  <2>1. timer' \in [Timers -> Nat]
    BY <1>3, FiredType, DelayType DEF StartTx2, AutoButtonTimeout
  <2>. QED
    BY <1>3, <2>1 DEF StartTx2, AutoButtonTimeout, TypeOK, ClockOK
<1>4. CASE StopTx2
  <2>1. Fired("ptt0") \in [Timers -> Nat]
    BY FiredType, DelayType
  <2>2. timer' \in [Timers -> Nat]
    BY <1>4, <2>1, HaltTuneType, ScheduledTimersType DEF StopTx2, HaltTx
  <2>. QED
    BY <1>4, <2>2 DEF StopTx2, TypeOK, ClockOK
<1>5. CASE TuneButtonTimeout
  <2>1. Fired("tuneButton") \in [Timers -> Nat]
    BY FiredType, DelayType
  <2>2. timer' \in [Timers -> Nat]
    BY <1>5, <2>1, HaltTuneType DEF TuneButtonTimeout, HaltTx
  <2>. QED
    BY <1>5, <2>2 DEF TuneButtonTimeout, TypeOK, ClockOK
<1>6. CASE TuneATUTimeout
  <2>1. Fired("tuneATU") \in [Timers -> Nat]
    BY FiredType, DelayType
  <2>2. timer' \in [Timers -> Nat]
    BY <1>6, <2>1, ClickTuneType DEF TuneATUTimeout
  <2>. QED
    BY <1>6, <2>2 DEF TuneATUTimeout, TypeOK, ClockOK
<1>7. CASE PressHaltTx
  BY <1>7, HaltTuneType DEF PressHaltTx, HaltTx, TypeOK, ClockOK
<1>8. CASE PressTune
  <2>1. (~uiTune) \in BOOLEAN
    BY Zenon
  <2>2. timer' \in [Timers -> Nat]
    BY <1>8, <2>1, ClickTuneType DEF PressTune, TypeOK, ClockOK
  <2>. QED
    BY <1>8, <2>2 DEF PressTune, TypeOK, ClockOK
<1>9. CASE ChangeBand
  BY <1>9, HaltTuneType DEF ChangeBand, TypeOK, ClockOK
<1>10. CASE DecoderHalts
  <2>1. HaltDelay \in Nat
    BY TimeAssumption
  <2>2. /\ StartIfIdle(timer, "tuneButton", HaltDelay) \in [Timers -> Nat]
        /\ Start(timer, "tuneButton", HaltDelay) \in [Timers -> Nat]
    BY <2>1, TimerType, DelayType DEF TypeOK, ClockOK
  <2>3. timer' \in [Timers -> Nat]
    BY <1>10, <2>2 DEF DecoderHalts
  <2>. QED
    BY <1>10, <2>3 DEF DecoderHalts, TypeOK, ClockOK
<1>11. CASE \/ AudioCall \/ MessageEnds \/ ReceptionDone \/ PressEnableTx
            \/ SelectMessage \/ PressTxMinute \/ ChangeFrequency \/ PressTxNext
            \/ PressMonitor
  BY <1>11 DEF AudioCall, MessageEnds, ReceptionDone, PressEnableTx, SelectMessage,
     PressTxMinute, ChangeFrequency, PressTxNext, PressMonitor, TypeOK, ClockOK, clockVars
<1>. QED
  BY <1>1, <1>2, <1>3, <1>4, <1>5, <1>6, <1>7, <1>8, <1>9, <1>10, <1>11,
     <1>12 DEF Next, Finishes, Timeout, Operator

LEMMA CountsType == TypeOK /\ Next => CountsOK'
<1> SUFFICES ASSUME TypeOK, Next PROVE CountsOK'
  OBVIOUS
<1>1. CASE Finishes
  BY <1>1, GuiUpdateType DEF TypeOK
<1>2. CASE StopTx2
  <2>1. m_repeatMsg' \in 0..WatchdogLimit
    BY <1>2, TimeAssumption DEF StopTx2, HaltTx, TypeOK, CountsOK
  <2>2. m_ntr' \in {-1, 0, 1}
    BY <1>2 DEF StopTx2, wsprVars, TypeOK, CountsOK
  <2>3. UNCHANGED <<g_iptt, iptt0, icw, ops>>
    BY <1>2 DEF StopTx2, seqVars, msgVars
  <2>. QED
    BY <2>1, <2>2, <2>3 DEF TypeOK, CountsOK
<1>3. CASE PressTune \/ TuneATUTimeout
  <2>1. (~uiTune) \in BOOLEAN /\ FALSE \in BOOLEAN
    BY Zenon
  <2>2. Fired("tuneATU") \in [Timers -> Nat] /\ timer \in [Timers -> Nat]
    BY FiredType, DelayType DEF TypeOK, ClockOK
  <2>3. m_repeatMsg' \in 0..WatchdogLimit
    <3>1. CASE PressTune
      BY <3>1, <2>1, <2>2, ClickTuneType DEF PressTune
    <3>2. CASE TuneATUTimeout
      BY <3>2, <2>1, <2>2, ClickTuneType DEF TuneATUTimeout
    <3>. QED
      BY <1>3, <3>1, <3>2
  <2>4. UNCHANGED <<g_iptt, iptt0, icw, m_ntr>>
    BY <1>3 DEF PressTune, TuneATUTimeout, seqVars, msgVars, wsprVars
  <2>5. ops' = ops \/ (ops < MaxOps /\ ops' = ops + 1)
    BY <1>3, Zenon DEF PressTune, TuneATUTimeout, Pressed, Intervention
  <2>6. ops' \in 0..MaxOps
    BY <2>5, TimeAssumption DEF TypeOK, CountsOK
  <2>. QED
    BY <2>3, <2>4, <2>6 DEF TypeOK, CountsOK
<1>4. CASE PressHaltTx \/ TuneButtonTimeout \/ ChangeBand \/ SelectMessage
  <2>1. m_repeatMsg' \in 0..WatchdogLimit
    BY <1>4, TimeAssumption
       DEF PressHaltTx, TuneButtonTimeout, ChangeBand, SelectMessage, HaltTx, TypeOK, CountsOK
  <2>2. UNCHANGED <<g_iptt, iptt0, icw, m_ntr>> /\ ops' \in 0..MaxOps
    BY <1>4, TimeAssumption
       DEF PressHaltTx, TuneButtonTimeout, ChangeBand, SelectMessage, Pressed, Intervention, seqVars,
           msgVars, wsprVars, TypeOK, CountsOK
  <2>. QED
    BY <2>1, <2>2 DEF TypeOK, CountsOK
<1>5. CASE \/ PressEnableTx \/ PressTxMinute \/ ChangeFrequency \/ PressTxNext
           \/ PressMonitor \/ DecoderHalts
  BY <1>5, TimeAssumption
     DEF PressEnableTx, PressTxMinute, ChangeFrequency, PressTxNext, PressMonitor,
         DecoderHalts, Pressed, Intervention, seqVars, msgVars, wsprVars, TypeOK, CountsOK
<1>6. CASE Elapse \/ StartTx2 \/ AutoButtonTimeout \/ AudioCall \/ MessageEnds
           \/ ReceptionDone \/ Warn
  BY <1>6 DEF Elapse, Warn, StartTx2, AutoButtonTimeout, AudioCall, MessageEnds, ReceptionDone,
     seqVars, msgVars, wsprVars, TypeOK, CountsOK
<1>. QED
  BY <1>1, <1>2, <1>3, <1>4, <1>5, <1>6 DEF Next, Finishes, Timeout, Operator

LEMMA MessagesType == TypeOK /\ Next => MessagesOK'
<1> SUFFICES ASSUME TypeOK, Next PROVE MessagesOK'
  OBVIOUS
<1>1. CASE Finishes
  BY <1>1, GuiUpdateType DEF TypeOK
<1>2. CASE SelectMessage
  BY <1>2 DEF SelectMessage, msgVars, TypeOK, MessagesOK
<1>3. CASE Timeout
  BY <1>3 DEF Timeout, StartTx2, StopTx2, TuneButtonTimeout, AutoButtonTimeout,
     TuneATUTimeout, msgVars, TypeOK, MessagesOK
<1>4. CASE Elapse \/ Warn \/ AudioCall \/ MessageEnds \/ ReceptionDone
  BY <1>4 DEF Elapse, Warn, AudioCall, MessageEnds, ReceptionDone, msgVars, TypeOK, MessagesOK
<1>5. CASE Operator /\ ~SelectMessage
  BY <1>5 DEF Operator, PressHaltTx, PressEnableTx, PressTune, PressTxMinute, ChangeBand,
     ChangeFrequency, PressTxNext, PressMonitor, DecoderHalts, msgVars, TypeOK, MessagesOK
<1>. QED
  BY <1>1, <1>2, <1>3, <1>4, <1>5 DEF Next, Finishes

LEMMA QueueType == TypeOK /\ Next => QueueOK'
<1> SUFFICES ASSUME TypeOK, Next PROVE QueueOK'
  OBVIOUS
<1>1. CASE Finishes
  BY <1>1, GuiUpdateType DEF TypeOK
<1>2. CASE StartTx2
  <2>1. "start" \in AudioCalls
    BY DEF AudioCalls
  <2>. QED
    BY <1>2, <2>1 DEF StartTx2, TypeOK, QueueOK
<1>3. CASE StopTx2
  <2>1. Fired("ptt0") \in [Timers -> Nat]
    BY FiredType, DelayType
  <2>2. QueueOK
    BY DEF TypeOK
  <2>. QED
    BY <1>3, <2>1, <2>2, HaltTuneType, ScheduledCallsType DEF StopTx2, HaltTx, QueueOK
<1>4. CASE TuneButtonTimeout
  <2>1. Fired("tuneButton") \in [Timers -> Nat]
    BY FiredType, DelayType
  <2>. QED
    BY <1>4, <2>1, HaltTuneType DEF TuneButtonTimeout, HaltTx, QueueOK
<1>5. CASE TuneATUTimeout
  <2>1. Fired("tuneATU") \in [Timers -> Nat]
    BY FiredType, DelayType
  <2>. QED
    BY <1>5, <2>1, ClickTuneType DEF TuneATUTimeout, QueueOK
<1>6. CASE PressTune
  <2>1. (~uiTune) \in BOOLEAN /\ timer \in [Timers -> Nat]
    BY Zenon DEF TypeOK, ClockOK
  <2>. QED
    BY <1>6, <2>1, ClickTuneType DEF PressTune, QueueOK
<1>7. CASE PressHaltTx \/ ChangeBand
  <2>1. timer \in [Timers -> Nat]
    BY DEF TypeOK, ClockOK
  <2>. QED
    BY <1>7, <2>1, HaltTuneType DEF PressHaltTx, ChangeBand, HaltTx, TypeOK, QueueOK
<1>8. CASE AudioCall
  <2>1. audioQ # <<>> /\ audioQ' = Tail(audioQ) /\ audioQ \in Seq(AudioCalls)
    BY <1>8 DEF AudioCall, TypeOK, QueueOK
  <2>. QED
    BY <2>1 DEF QueueOK
<1>9. CASE Elapse \/ Warn \/ AutoButtonTimeout \/ MessageEnds \/ ReceptionDone
  BY <1>9 DEF Elapse, Warn, AutoButtonTimeout, MessageEnds, ReceptionDone, TypeOK, QueueOK
<1>10. CASE \/ PressEnableTx \/ SelectMessage \/ PressTxMinute \/ ChangeFrequency
            \/ PressTxNext \/ PressMonitor \/ DecoderHalts
  BY <1>10 DEF PressEnableTx, SelectMessage, PressTxMinute, ChangeFrequency, PressTxNext,
     PressMonitor, DecoderHalts, TypeOK, QueueOK
<1>. QED
  BY <1>1, <1>2, <1>3, <1>4, <1>5, <1>6, <1>7, <1>8, <1>9, <1>10
     DEF Next, Finishes, Timeout, Operator

LEMMA FlagsType == TypeOK /\ Next => FlagsOK'
<1> SUFFICES ASSUME TypeOK, Next PROVE FlagsOK'
  OBVIOUS
<1>1. CASE Finishes
  BY <1>1, GuiUpdateType DEF TypeOK
<1>2. CASE Elapse \/ StartTx2 \/ DecoderHalts
  <2>1. UNCHANGED <<m_auto, m_tune, lastChecked, uiTune, m_txFirst, subBand, warned, m_bTxTime,
                   m_btxok, m_transmitting, m_monitoring, btxok0, m_restart,
                   m_WSPR_tx_next, m_txNext, m_rxDone, m_tuneup, ptt, boxed, modActive,
                   modTuning>>
    BY <1>2 DEF Elapse, StartTx2, DecoderHalts, tuneVars, setVars, seqVars, wsprVars, modVars
  <2>. QED
    BY <2>1 DEF TypeOK, FlagsOK
<1>3. CASE StopTx2
  <2>1. UNCHANGED <<m_txFirst, subBand, warned, boxed, m_transmitting, btxok0, m_restart, m_txNext,
                   modActive, modTuning>>
    BY <1>3 DEF StopTx2, tuneVars, setVars, seqVars, wsprVars, modVars
  <2>2. ptt' \in BOOLEAN
    BY <1>3, Zenon DEF StopTx2
  <2>3. m_tune' \in BOOLEAN /\ lastChecked' \in BOOLEAN /\ m_auto' \in BOOLEAN
    BY <1>3, Zenon DEF StopTx2, HaltTx, HaltTune, TypeOK, FlagsOK
  <2>4. uiTune' \in BOOLEAN /\ m_bTxTime' \in BOOLEAN /\ m_btxok' \in BOOLEAN
    BY <1>3, Zenon DEF StopTx2, HaltTx, HaltTune, TypeOK, FlagsOK
  <2>5. m_monitoring' \in BOOLEAN
    BY <1>3, Zenon DEF StopTx2, MonitorOn, TypeOK, FlagsOK
  <2>6. m_WSPR_tx_next' \in BOOLEAN /\ m_rxDone' \in BOOLEAN /\ m_tuneup' \in BOOLEAN
    BY <1>3, Zenon DEF StopTx2, wsprVars, TypeOK, FlagsOK
  <2>. QED
    BY <2>1, <2>2, <2>3, <2>4, <2>5, <2>6 DEF TypeOK, FlagsOK
<1>4. CASE TuneButtonTimeout
  <2>1. UNCHANGED <<m_txFirst, subBand, warned, m_transmitting, m_monitoring, btxok0, m_restart,
                   m_WSPR_tx_next, m_txNext, m_rxDone, m_tuneup, ptt, boxed, modActive,
                   modTuning>>
    BY <1>4 DEF TuneButtonTimeout, tuneVars, setVars, seqVars, wsprVars, modVars
  <2>2. m_tune' \in BOOLEAN /\ lastChecked' \in BOOLEAN /\ uiTune' \in BOOLEAN
    BY <1>4, Zenon DEF TuneButtonTimeout, HaltTx, HaltTune
  <2>3. m_auto' \in BOOLEAN /\ m_bTxTime' \in BOOLEAN /\ m_btxok' \in BOOLEAN
    BY <1>4, Zenon DEF TuneButtonTimeout, HaltTx, HaltTune
  <2>. QED
    BY <2>1, <2>2, <2>3 DEF TypeOK, FlagsOK
<1>5. CASE PressHaltTx
  <2>1. UNCHANGED <<m_txFirst, subBand, warned, m_transmitting, m_monitoring, btxok0, m_restart,
                   m_WSPR_tx_next, m_txNext, m_rxDone, m_tuneup, ptt, boxed, modActive,
                   modTuning>>
    BY <1>5 DEF PressHaltTx, tuneVars, setVars, seqVars, wsprVars, modVars
  <2>2. m_tune' \in BOOLEAN /\ lastChecked' \in BOOLEAN /\ uiTune' \in BOOLEAN
    BY <1>5, Zenon DEF PressHaltTx, HaltTx, HaltTune
  <2>3. m_auto' \in BOOLEAN /\ m_bTxTime' \in BOOLEAN /\ m_btxok' \in BOOLEAN
    BY <1>5, Zenon DEF PressHaltTx, HaltTx, HaltTune
  <2>. QED
    BY <2>1, <2>2, <2>3 DEF TypeOK, FlagsOK
<1>6. CASE ChangeBand
  <2>1. UNCHANGED <<m_txFirst, subBand, warned, m_transmitting, btxok0, m_restart, m_WSPR_tx_next,
                   m_txNext, m_rxDone, m_tuneup, ptt, boxed, modActive, modTuning>>
    BY <1>6 DEF ChangeBand, tuneVars, setVars, seqVars, wsprVars, modVars
  <2>2. m_tune' \in BOOLEAN /\ lastChecked' \in BOOLEAN /\ uiTune' \in BOOLEAN
    BY <1>6, Zenon DEF ChangeBand, HaltTune, tuneVars, TypeOK, FlagsOK
  <2>3. m_auto' \in BOOLEAN /\ m_bTxTime' \in BOOLEAN /\ m_btxok' \in BOOLEAN
    BY <1>6, Zenon DEF ChangeBand, HaltTune, TypeOK, FlagsOK
  <2>4. m_monitoring' \in BOOLEAN
    BY <1>6, Zenon DEF ChangeBand, MonitorOn
  <2>. QED
    BY <2>1, <2>2, <2>3, <2>4 DEF TypeOK, FlagsOK
<1>7. CASE AutoButtonTimeout
  <2>1. UNCHANGED <<m_tune, lastChecked, uiTune, m_txFirst, subBand, warned, m_bTxTime, m_btxok,
                   m_transmitting, m_monitoring, btxok0, m_restart, m_WSPR_tx_next,
                   m_txNext, m_rxDone, m_tuneup, ptt, boxed, modActive, modTuning>>
    BY <1>7 DEF AutoButtonTimeout, tuneVars, setVars, seqVars, wsprVars, modVars
  <2>2. m_auto' \in BOOLEAN
    BY <1>7, Zenon DEF AutoButtonTimeout
  <2>. QED
    BY <2>1, <2>2 DEF TypeOK, FlagsOK
<1>8. CASE TuneATUTimeout
  <2>1. UNCHANGED <<m_auto, uiTune, m_txFirst, subBand, warned, m_btxok, m_transmitting, btxok0,
                   m_restart, m_WSPR_tx_next, m_txNext, m_rxDone, m_tuneup, ptt, boxed,
                   modActive, modTuning>>
    BY <1>8 DEF TuneATUTimeout, tuneVars, setVars, seqVars, wsprVars, modVars
  <2>2. m_bTxTime' \in BOOLEAN
    BY <1>8, Zenon DEF TuneATUTimeout
  <2>3. m_tune' \in BOOLEAN /\ lastChecked' \in BOOLEAN /\ m_monitoring' \in BOOLEAN
    BY <1>8, FiredType, DelayType, ClickTuneType DEF TuneATUTimeout
  <2>. QED
    BY <2>1, <2>2, <2>3 DEF TypeOK, FlagsOK
<1>9. CASE PressTune
  <2>1. UNCHANGED <<m_auto, m_txFirst, subBand, warned, m_bTxTime, m_btxok, m_transmitting, btxok0,
                   m_restart, m_WSPR_tx_next, m_txNext, m_rxDone, m_tuneup, ptt, boxed,
                   modActive, modTuning>>
    BY <1>9 DEF PressTune, tuneVars, setVars, seqVars, wsprVars, modVars
  <2>2. uiTune' \in BOOLEAN
    BY <1>9, Zenon DEF PressTune
  <2>3. m_tune' \in BOOLEAN /\ lastChecked' \in BOOLEAN /\ m_monitoring' \in BOOLEAN
    <3>1. (~uiTune) \in BOOLEAN
      BY Zenon
    <3>. QED
      BY <1>9, <3>1, ClickTuneType DEF PressTune, TypeOK, ClockOK
  <2>. QED
    BY <2>1, <2>2, <2>3 DEF TypeOK, FlagsOK
<1>10. CASE AudioCall
  <2>1. UNCHANGED <<m_auto, m_tune, lastChecked, uiTune, m_txFirst, subBand, warned, m_bTxTime,
                   m_btxok, m_transmitting, m_monitoring, btxok0, m_restart,
                   m_WSPR_tx_next, m_txNext, m_rxDone, m_tuneup, ptt, boxed>>
    BY <1>10 DEF AudioCall, tuneVars, setVars, seqVars, wsprVars, modVars
  <2>2. modActive' \in BOOLEAN /\ modTuning' \in BOOLEAN
    <3>1. audioQ # <<>> /\ audioQ \in Seq(AudioCalls)
      BY <1>10 DEF AudioCall, TypeOK, QueueOK
    <3>2. Head(audioQ) \in AudioCalls
      BY <3>1, HeadTailProperties
    <3>3. CASE Head(audioQ) = "start"
      BY <1>10, <3>3, Zenon DEF AudioCall, TypeOK, FlagsOK
    <3>4. CASE Head(audioQ) = "stop"
      BY <1>10, <3>4 DEF AudioCall, TypeOK, FlagsOK
    <3>5. CASE Head(audioQ) = "tune on"
      BY <1>10, <3>5 DEF AudioCall, TypeOK, FlagsOK
    <3>6. CASE Head(audioQ) = "tune off"
      BY <1>10, <3>6 DEF AudioCall, TypeOK, FlagsOK
    <3>. QED
      BY <3>2, <3>3, <3>4, <3>5, <3>6 DEF AudioCalls
  <2>. QED
    BY <2>1, <2>2 DEF TypeOK, FlagsOK
<1>11. CASE MessageEnds
  <2>1. UNCHANGED <<m_auto, m_tune, lastChecked, uiTune, m_txFirst, subBand, warned, m_bTxTime,
                   m_btxok, m_transmitting, m_monitoring, btxok0, m_restart,
                   m_WSPR_tx_next, m_txNext, m_rxDone, m_tuneup, ptt, boxed, modTuning>>
    BY <1>11 DEF MessageEnds, tuneVars, setVars, seqVars, wsprVars, modVars
  <2>2. modActive' \in BOOLEAN
    BY <1>11, Zenon DEF MessageEnds
  <2>. QED
    BY <2>1, <2>2 DEF TypeOK, FlagsOK
<1>12. CASE ReceptionDone
  <2>1. UNCHANGED <<m_auto, m_tune, lastChecked, uiTune, m_txFirst, subBand, warned, m_bTxTime,
                   m_btxok, m_transmitting, m_monitoring, btxok0, m_restart,
                   m_WSPR_tx_next, m_txNext, m_tuneup, ptt, boxed, modActive, modTuning>>
    BY <1>12 DEF ReceptionDone, tuneVars, setVars, seqVars, wsprVars, modVars
  <2>2. m_rxDone' \in BOOLEAN
    BY <1>12, Zenon DEF ReceptionDone
  <2>. QED
    BY <2>1, <2>2 DEF TypeOK, FlagsOK
<1>13. CASE PressEnableTx
  <2>1. UNCHANGED <<m_tune, lastChecked, uiTune, m_txFirst, subBand, warned, m_bTxTime, m_btxok,
                   m_transmitting, m_monitoring, btxok0, m_restart, m_WSPR_tx_next,
                   m_txNext, m_rxDone, m_tuneup, ptt, boxed, modActive, modTuning>>
    BY <1>13 DEF PressEnableTx, tuneVars, setVars, seqVars, wsprVars, modVars
  <2>2. m_auto' \in BOOLEAN
    BY <1>13, Zenon DEF PressEnableTx
  <2>. QED
    BY <2>1, <2>2 DEF TypeOK, FlagsOK
<1>14. CASE SelectMessage
  <2>1. UNCHANGED <<m_auto, m_tune, lastChecked, uiTune, m_txFirst, subBand, warned, m_bTxTime,
                   m_btxok, m_transmitting, m_monitoring, btxok0, m_WSPR_tx_next,
                   m_txNext, m_rxDone, m_tuneup, ptt, boxed, modActive, modTuning>>
    BY <1>14 DEF SelectMessage, tuneVars, setVars, seqVars, wsprVars, modVars
  <2>2. m_restart' \in BOOLEAN
    BY <1>14, Zenon DEF SelectMessage, TypeOK, FlagsOK
  <2>. QED
    BY <2>1, <2>2 DEF TypeOK, FlagsOK
<1>15. CASE PressTxMinute
  <2>1. UNCHANGED <<m_auto, m_tune, lastChecked, uiTune, subBand, warned, m_bTxTime, m_btxok,
                   m_transmitting, m_monitoring, btxok0, m_restart, m_WSPR_tx_next,
                   m_txNext, m_rxDone, m_tuneup, ptt, boxed, modActive, modTuning>>
    BY <1>15 DEF PressTxMinute, tuneVars, setVars, seqVars, wsprVars, modVars
  <2>2. m_txFirst' \in BOOLEAN
    BY <1>15, Zenon DEF PressTxMinute
  <2>. QED
    BY <2>1, <2>2 DEF TypeOK, FlagsOK
<1>16. CASE ChangeFrequency
  <2>1. UNCHANGED <<m_auto, m_tune, lastChecked, uiTune, m_txFirst, m_bTxTime, m_btxok,
                   m_transmitting, m_monitoring, btxok0, m_restart, m_WSPR_tx_next,
                   m_txNext, m_rxDone, m_tuneup, ptt, boxed, modActive, modTuning>>
    BY <1>16 DEF ChangeFrequency, tuneVars, setVars, seqVars, wsprVars, modVars
  <2>2. subBand' \in BOOLEAN /\ warned' \in Warnings
    BY <1>16 DEF ChangeFrequency, Warnings
  <2>. QED
    BY <2>1, <2>2 DEF TypeOK, FlagsOK
<1>17. CASE PressTxNext
  <2>1. UNCHANGED <<m_auto, m_tune, lastChecked, uiTune, m_txFirst, subBand, warned, m_bTxTime,
                   m_btxok, m_transmitting, m_monitoring, btxok0, m_restart,
                   m_WSPR_tx_next, m_rxDone, m_tuneup, ptt, boxed, modActive, modTuning>>
    BY <1>17 DEF PressTxNext, tuneVars, setVars, seqVars, wsprVars, modVars
  <2>2. m_txNext' \in BOOLEAN
    BY <1>17, Zenon DEF PressTxNext
  <2>. QED
    BY <2>1, <2>2 DEF TypeOK, FlagsOK
<1>18. CASE PressMonitor
  <2>1. UNCHANGED <<m_auto, m_tune, lastChecked, uiTune, m_txFirst, subBand, warned, m_bTxTime,
                   m_btxok, m_transmitting, btxok0, m_restart, m_WSPR_tx_next,
                   m_txNext, m_rxDone, m_tuneup, ptt, boxed, modActive, modTuning>>
    BY <1>18 DEF PressMonitor, tuneVars, setVars, seqVars, wsprVars, modVars
  <2>2. m_monitoring' \in BOOLEAN
    BY <1>18, Zenon DEF PressMonitor, MonitorOn
  <2>. QED
    BY <2>1, <2>2 DEF TypeOK, FlagsOK
<1>19. CASE Warn
  <2>1. UNCHANGED <<m_tune, lastChecked, uiTune, m_txFirst, subBand, m_btxok, m_transmitting,
                   m_monitoring, btxok0, m_restart, m_WSPR_tx_next, m_txNext, m_rxDone,
                   m_tuneup, ptt, modActive, modTuning>>
    BY <1>19 DEF Warn, tuneVars, setVars, seqVars, wsprVars, modVars
  <2>2. boxed' \in BOOLEAN /\ m_bTxTime' \in BOOLEAN /\ m_auto' \in BOOLEAN
    BY <1>19, Zenon DEF Warn
  <2>3. warned' \in Warnings
    BY <1>19 DEF Warn, Warnings
  <2>. QED
    BY <2>1, <2>2, <2>3 DEF TypeOK, FlagsOK
<1>. QED
  BY <1>1, <1>2, <1>3, <1>4, <1>5, <1>6, <1>7, <1>8, <1>9, <1>10, <1>11, <1>12,
     <1>13, <1>14, <1>15, <1>16, <1>17, <1>18, <1>19 DEF Next, Finishes, Timeout, Operator

LEMMA TypeStep == TypeOK /\ [Next]_vars => TypeOK'
<1> SUFFICES ASSUME TypeOK, [Next]_vars PROVE TypeOK'
  OBVIOUS
<1>1. CASE Next
  BY <1>1, ClockType, FlagsType, CountsType, MessagesType, QueueType DEF TypeOK
<1>2. CASE UNCHANGED vars
  <2>1. ClockOK' /\ CountsOK' /\ MessagesOK' /\ QueueOK'
    BY <1>2 DEF vars, clockVars, seqVars, msgVars, wsprVars, TypeOK, ClockOK, CountsOK,
       MessagesOK, QueueOK
  <2>2. FlagsOK'
    BY <1>2 DEF vars, tuneVars, setVars, seqVars, wsprVars, modVars, TypeOK, FlagsOK
  <2>. QED
    BY <2>1, <2>2 DEF TypeOK
<1>. QED
  BY <1>1, <1>2

\* A timer that runs keeps running when another is started or has fired.
LEMMA StartKeeps ==
  ASSUME NEW tm \in [Timers -> Nat], NEW t \in Timers, NEW d \in Nat
  PROVE  /\ Active(Start(tm, t, d), t)
         /\ \A u \in Timers : Active(tm, u) => Active(Start(tm, t, d), u)
<1>1. d + MaxLate + 1 # 0
  BY TimeAssumption
<1>. QED
  BY <1>1 DEF Start, Active

LEMMA EndTuneKeeps ==
  ASSUME NEW tm \in [Timers -> Nat]
  PROVE  /\ Active(EndTuneLater(tm), "tuneButton")
         /\ \A u \in Timers : Active(tm, u) => Active(EndTuneLater(tm), u)
  BY StartKeeps, DelayType DEF EndTuneLater, StartIfIdle

LEMMA DropPttKeeps ==
  ASSUME NEW tm \in [Timers -> Nat]
  PROVE  /\ Active(DropPttLater(tm), "ptt0")
         /\ \A u \in Timers : Active(tm, u) => Active(DropPttLater(tm), u)
  BY StartKeeps, DelayType DEF DropPttLater

LEMMA FiredKeeps ==
  ASSUME TypeOK, NEW t \in Timers, NEW u \in Timers, u # t
  PROVE  Active(Fired(t), u) <=> Active(timer, u)
  BY DEF Fired, Active, TypeOK, ClockOK

LEMMA ScheduledKeeps ==
  ASSUME NEW tm \in [Timers -> Nat], NEW atu, NEW u \in Timers, Active(tm, u)
  PROVE  Active(ScheduledTimers(tm, atu), u)
<1>. DEFINE started == IF atu THEN Start(tm, "tuneATU", Delay["tuneATU"]) ELSE tm
<1>1. started \in [Timers -> Nat] /\ Active(started, u)
  BY TimerType, StartKeeps, DelayType
<1>2. Active(EndTuneLater(started), u)
  BY <1>1, EndTuneKeeps
<1>. QED
  BY <1>1, <1>2 DEF ScheduledTimers

LEMMA GuiTimersKeep ==
  ASSUME TypeOK, NEW atu
  PROVE  /\ StopEdge => Active(GuiTimers(atu), "ptt0")
         /\ \A u \in Timers : Active(timer, u) => Active(GuiTimers(atu), u)
<1>. DEFINE scheduled == ScheduledTimers(timer, atu)
            keyed == IF Keying THEN Start(scheduled, "ptt1", Delay["ptt1"]) ELSE scheduled
            ended == IF Sent73(atu) /\ DisableTxOn73
                     THEN StartIfIdle(keyed, "autoButton", Delay["autoButton"]) ELSE keyed
<1>1. timer \in [Timers -> Nat]
  BY DEF TypeOK, ClockOK
<1>2. scheduled \in [Timers -> Nat] /\ \A u \in Timers : Active(timer, u) => Active(scheduled, u)
  BY <1>1, ScheduledTimersType, ScheduledKeeps
<1>3. keyed \in [Timers -> Nat] /\ \A u \in Timers : Active(scheduled, u) => Active(keyed, u)
  BY <1>2, TimerType, StartKeeps, DelayType
<1>4. ended \in [Timers -> Nat] /\ \A u \in Timers : Active(keyed, u) => Active(ended, u)
  BY <1>3, TimerType, StartKeeps, DelayType DEF StartIfIdle
<1>5. GuiTimers(atu) = IF StopEdge THEN DropPttLater(ended) ELSE ended
  BY DEF GuiTimers
<1>. HIDE DEF scheduled, keyed, ended
<1>. QED
  BY <1>1, <1>2, <1>3, <1>4, <1>5, DropPttKeeps

\* guiUpdate keeps track of its own transmission: no edge of m_btxok is lost.
LEMMA StopEdgeStep == IInv /\ [Next]_vars => StopEdgeKept'
<1> SUFFICES ASSUME IInv, [Next]_vars PROVE StopEdgeKept'
  OBVIOUS
<1>1. CASE Finishes
  <2>1. /\ g_iptt' = IF StopEdge THEN 0 ELSE Keyed
        /\ m_transmitting' = ((m_transmitting \/ FirstTick) /\ ~StopEdge)
        /\ iptt0' = g_iptt' /\ btxok0' = m_btxok' /\ m_btxok' = BtxokBeforeStop
    BY <1>1, FinishesIsFinishUpdate DEF FinishUpdate, setVars, modVars
  <2>2. /\ m_transmitting <=> g_iptt = 1
        /\ iptt0 = g_iptt /\ g_iptt \in {0, 1}
        /\ g_iptt = 1 => btxok0
    BY DEF IInv, StopEdgeKept, TypeOK, CountsOK
  <2>3. Keyed \in {0, 1} /\ (g_iptt = 1 => Keyed = 1)
    BY <2>2 DEF Keyed
  <2>4. m_transmitting' <=> g_iptt' = 1
    <3>1. FirstTick <=> Keyed = 1 /\ g_iptt = 0
      BY <2>2 DEF FirstTick
    <3>2. (m_transmitting \/ FirstTick) <=> Keyed = 1
      <4>1. CASE g_iptt = 1
        BY <4>1, <2>2, <2>3
      <4>2. CASE g_iptt = 0
        BY <4>2, <3>1, <2>2
      <4>. QED
        BY <4>1, <4>2, <2>2
    <3>3. CASE StopEdge
      <4>1. ~m_transmitting'
        BY <3>3, <2>1, Zenon
      <4>2. g_iptt' # 1
        BY <3>3, <2>1
      <4>. QED
        BY <4>1, <4>2
    <3>4. CASE ~StopEdge
      <4>1. m_transmitting' <=> (m_transmitting \/ FirstTick)
        BY <3>4, <2>1, Zenon
      <4>2. g_iptt' = Keyed
        BY <3>4, <2>1
      <4>. QED
        BY <4>1, <4>2, <3>2
    <3>. QED
      BY <3>3, <3>4
  <2>5. g_iptt' = 1 => btxok0'
    BY <2>1, <2>2, <2>3 DEF FirstTick, StopEdge, BtxokBeforeStop
  <2>. QED
    BY <2>1, <2>4, <2>5 DEF StopEdgeKept
<1>2. CASE UNCHANGED seqVars
  BY <1>2 DEF seqVars, IInv, StopEdgeKept
<1>3. ASSUME Next, ~Finishes PROVE UNCHANGED seqVars
  <2>1. CASE Timeout
    BY <2>1, Zenon DEF Timeout, StartTx2, StopTx2, TuneButtonTimeout, AutoButtonTimeout,
       TuneATUTimeout
  <2>2. CASE Operator
    BY <2>2, Zenon DEF Operator, PressHaltTx, PressEnableTx, PressTune, SelectMessage,
       PressTxMinute, ChangeBand, ChangeFrequency, PressTxNext, PressMonitor, DecoderHalts
  <2>3. CASE Elapse \/ Warn \/ AudioCall \/ MessageEnds \/ ReceptionDone
    BY <2>3, Zenon DEF Elapse, Warn, AudioCall, MessageEnds, ReceptionDone
  <2>. QED
    BY <1>3, <2>1, <2>2, <2>3 DEF Next, Finishes
<1>. QED
  BY <1>1, <1>2, <1>3 DEF vars

\* Once the rig is keyed, the transmission or the timer that ends it is there.
LEMMA PttStep == IInv /\ [Next]_vars => PttReleased'
<1> SUFFICES ASSUME IInv, [Next]_vars PROVE PttReleased'
  OBVIOUS
<1>. USE DelayType
<1>0. /\ TypeOK /\ timer \in [Timers -> Nat]
      /\ ptt => g_iptt = 1 \/ Active(timer, "ptt0")
  BY DEF IInv, PttReleased, TypeOK, ClockOK
<1>1. CASE Finishes
  <2>1. /\ g_iptt' = IF StopEdge THEN 0 ELSE Keyed
        /\ ptt' = (ptt \/ Keying)
    BY <1>1, FinishesIsFinishUpdate DEF FinishUpdate, setVars, modVars
  <2>2. PICK atu : timer' = GuiTimers(atu)
    BY <1>1, FinishesIsFinishUpdate DEF FinishUpdate, setVars, modVars
  <2>3. CASE StopEdge
    BY <2>2, <2>3, <1>0, GuiTimersKeep DEF PttReleased, Active
  <2>4. CASE ~StopEdge
    <3>1. Keying \/ g_iptt = 1 => g_iptt' = 1
      BY <2>1, <2>4 DEF Keyed
    <3>2. Active(timer, "ptt0") => Active(timer, "ptt0")'
      BY <2>2, <1>0, GuiTimersKeep DEF Active
    <3>. QED
      BY <2>1, <3>1, <3>2, <1>0 DEF PttReleased
  <2>. QED
    BY <2>3, <2>4
<1>2. CASE StopTx2
  BY <1>2 DEF StopTx2, PttReleased
<1>3. ASSUME [Next]_vars, ~Finishes, ~StopTx2
      PROVE  UNCHANGED <<ptt, g_iptt>> /\ (Active(timer, "ptt0") => Active(timer, "ptt0")')
  <2>1. CASE Elapse
    BY <2>1, <1>0 DEF Elapse, seqVars, Active
  <2>2. CASE StartTx2
    BY <2>2, <1>0, FiredKeeps DEF StartTx2, seqVars, Active
  <2>3. CASE AutoButtonTimeout
    BY <2>3, <1>0, FiredKeeps DEF AutoButtonTimeout, seqVars, Active
  <2>4. CASE TuneButtonTimeout
    <3>1. Fired("tuneButton") \in [Timers -> Nat]
          /\ (Active(timer, "ptt0") => Active(Fired("tuneButton"), "ptt0"))
      BY <1>0, FiredType, FiredKeeps
    <3>. QED
      BY <2>4, <3>1, EndTuneKeeps DEF TuneButtonTimeout, HaltTx, HaltTune, seqVars, Active
  <2>5. CASE TuneATUTimeout
    <3>1. Fired("tuneATU") \in [Timers -> Nat]
          /\ (Active(timer, "ptt0") => Active(Fired("tuneATU"), "ptt0"))
      BY <1>0, FiredType, FiredKeeps
    <3>. QED
      BY <2>5, <3>1, EndTuneKeeps DEF TuneATUTimeout, ClickTune, seqVars, Active
  <2>6. CASE PressHaltTx \/ ChangeBand
    BY <2>6, <1>0, EndTuneKeeps DEF PressHaltTx, ChangeBand, HaltTx, HaltTune, seqVars, Active
  <2>7. CASE PressTune
    BY <2>7, <1>0, EndTuneKeeps DEF PressTune, ClickTune, seqVars, Active
  <2>8. CASE DecoderHalts
    <3>1. HaltDelay \in Nat
      BY TimeAssumption
    <3>. QED
      BY <2>8, <3>1, <1>0, StartKeeps DEF DecoderHalts, StartIfIdle, seqVars, Active
  <2>11. CASE Warn
    BY <2>11 DEF Warn, seqVars, Active
  <2>9. CASE \/ AudioCall \/ MessageEnds \/ ReceptionDone \/ PressEnableTx \/ SelectMessage
             \/ PressTxMinute \/ ChangeFrequency \/ PressTxNext \/ PressMonitor
    BY <2>9 DEF AudioCall, MessageEnds, ReceptionDone, PressEnableTx, SelectMessage,
       PressTxMinute, ChangeFrequency, PressTxNext, PressMonitor, clockVars, seqVars, Active
  <2>10. CASE UNCHANGED vars
    BY <2>10 DEF vars, clockVars, seqVars, Active
  <2>. QED
    BY <1>3, <2>1, <2>2, <2>3, <2>4, <2>5, <2>6, <2>7, <2>8, <2>9, <2>10,
       <2>11
       DEF Next, Finishes, Timeout, Operator
<1>. QED
  BY <1>0, <1>1, <1>2, <1>3 DEF PttReleased

\* The flag of Tune and the memory of its handler differ only while tuneButtonTimer
\* is running.
LEMMA TuneStep == IInv /\ [Next]_vars => TuneEnds'
<1> SUFFICES ASSUME IInv, [Next]_vars PROVE TuneEnds'
  OBVIOUS
<1>. USE DelayType
<1>0. /\ TypeOK /\ timer \in [Timers -> Nat]
      /\ lastChecked => m_tune
      /\ m_tune /\ ~lastChecked => Active(timer, "tuneButton")
  BY DEF IInv, TuneEnds, TypeOK, ClockOK
<1>1. CASE Finishes
  <2>1. PICK atu : /\ timer' = GuiTimers(atu)
                   /\ m_tune' = (m_tune \/ TuneOn(atu))
                   /\ lastChecked' = (lastChecked \/ TuneOn(atu))
    BY <1>1, FinishesIsFinishUpdate DEF FinishUpdate, setVars, modVars
  <2>2. Active(timer, "tuneButton") => Active(timer, "tuneButton")'
    BY <2>1, <1>0, GuiTimersKeep DEF Active
  <2>. QED
    BY <2>1, <2>2, <1>0, Zenon DEF TuneEnds
<1>2. ASSUME NEW tm, HaltTune(tm, audioQ) PROVE TuneEnds'
  BY <1>2, <1>0, Zenon DEF HaltTune, TuneEnds
<1>3. ASSUME NEW tm \in [Timers -> Nat], NEW checked \in BOOLEAN, ClickTune(tm, checked),
             Active(timer, "tuneButton") => Active(tm, "tuneButton")
      PROVE  TuneEnds'
  <2>1. CASE lastChecked = checked
    <3>1. timer' = tm /\ m_tune' = m_tune /\ lastChecked' = lastChecked
      BY <1>3, <2>1 DEF ClickTune
    <3>. QED
      BY <3>1, <1>0, <1>3 DEF TuneEnds, Active
  <2>2. CASE lastChecked # checked
    <3>1. /\ m_tune' = TRUE /\ lastChecked' = checked
          /\ timer' = IF m_tune THEN EndTuneLater(tm) ELSE tm
      BY <1>3, <2>2 DEF ClickTune
    <3>2. CASE m_tune
      BY <3>1, <3>2, <1>3, EndTuneKeeps DEF TuneEnds, Active
    <3>3. CASE ~m_tune
      <4>1. lastChecked \in BOOLEAN /\ ~lastChecked
        BY <3>3, <1>0 DEF TypeOK, FlagsOK
      <4>2. checked
        BY <4>1, <2>2, <1>3, Zenon
      <4>. QED
        BY <4>2, <3>1 DEF TuneEnds
    <3>. QED
      BY <3>2, <3>3
  <2>. QED
    BY <2>1, <2>2
<1>4. CASE StopTx2
  <2>1. Fired("ptt0") \in [Timers -> Nat]
        /\ (Active(timer, "tuneButton") => Active(Fired("ptt0"), "tuneButton"))
    BY <1>0, FiredType, FiredKeeps
  <2>2. CASE HaltTx(Fired("ptt0"), audioQ)
    BY <2>2, <1>2 DEF HaltTx
  <2>3. CASE \E atu \in BOOLEAN : /\ timer' = ScheduledTimers(Fired("ptt0"), atu)
                                  /\ m_tune' = (m_tune \/ TuneOn(atu))
                                  /\ lastChecked' = (lastChecked \/ TuneOn(atu))
    <3>1. PICK atu \in BOOLEAN : /\ timer' = ScheduledTimers(Fired("ptt0"), atu)
                                 /\ m_tune' = (m_tune \/ TuneOn(atu))
                                 /\ lastChecked' = (lastChecked \/ TuneOn(atu))
      BY <2>3
    <3>2. Active(timer, "tuneButton") => Active(timer, "tuneButton")'
      BY <3>1, <2>1, ScheduledKeeps DEF Active
    <3>. QED
      BY <3>1, <3>2, <1>0, Zenon DEF TuneEnds
  <2>. QED
    BY <1>4, <2>2, <2>3 DEF StopTx2
<1>5. CASE TuneButtonTimeout
  BY <1>5, <1>2 DEF TuneButtonTimeout, HaltTx
<1>6. CASE PressHaltTx
  BY <1>6, <1>2 DEF PressHaltTx, HaltTx
<1>7. CASE ChangeBand
  <2>1. CASE HaltTune(timer, audioQ)
    BY <2>1, <1>2
  <2>2. CASE UNCHANGED <<tuneVars, timer>>
    BY <2>2, <1>0 DEF tuneVars, TuneEnds, Active
  <2>. QED
    BY <1>7, <2>1, <2>2 DEF ChangeBand
<1>8. CASE TuneATUTimeout
  <2>1. Fired("tuneATU") \in [Timers -> Nat]
        /\ (Active(timer, "tuneButton") => Active(Fired("tuneATU"), "tuneButton"))
    BY <1>0, FiredType, FiredKeeps
  <2>. QED
    BY <1>8, <2>1, <1>3 DEF TuneATUTimeout
<1>9. CASE PressTune
  <2>1. (~uiTune) \in BOOLEAN
    BY Zenon
  <2>. QED
    BY <1>9, <2>1, <1>0, <1>3 DEF PressTune
<1>10. ASSUME UNCHANGED tuneVars,
              Active(timer, "tuneButton") => Active(timer, "tuneButton")'
       PROVE  TuneEnds'
  BY <1>10, <1>0, Zenon DEF tuneVars, TuneEnds
<1>11. CASE Elapse
  <2>1. UNCHANGED tuneVars
    BY <1>11 DEF Elapse
  <2>2. Active(timer, "tuneButton") => Active(timer, "tuneButton")'
    BY <1>11, <1>0 DEF Elapse, Active
  <2>. QED
    BY <2>1, <2>2, <1>10
<1>12. CASE StartTx2 \/ AutoButtonTimeout
  BY <1>12, <1>10, <1>0, FiredKeeps DEF StartTx2, AutoButtonTimeout, Active
<1>13. CASE DecoderHalts
  <2>1. HaltDelay \in Nat
    BY TimeAssumption
  <2>2. Active(timer, "tuneButton") => Active(timer, "tuneButton")'
    BY <1>13, <2>1, <1>0, StartKeeps DEF DecoderHalts, StartIfIdle, Active
  <2>3. UNCHANGED tuneVars
    BY <1>13 DEF DecoderHalts
  <2>. QED
    BY <2>2, <2>3, <1>10
<1>14. CASE \/ Warn \/ AudioCall \/ MessageEnds \/ ReceptionDone \/ PressEnableTx \/ SelectMessage
            \/ PressTxMinute \/ ChangeFrequency \/ PressTxNext \/ PressMonitor
            \/ UNCHANGED vars
  <2>1. UNCHANGED <<tuneVars, timer>>
    BY <1>14 DEF Warn, AudioCall, MessageEnds, ReceptionDone, PressEnableTx, SelectMessage,
       PressTxMinute, ChangeFrequency, PressTxNext, PressMonitor, clockVars, vars
  <2>. QED
    BY <2>1, <1>10 DEF Active
<1>. QED
  BY <1>1, <1>4, <1>5, <1>6, <1>7, <1>8, <1>9, <1>11, <1>12, <1>13, <1>14
     DEF Next, Finishes, Timeout, Operator

\* The receiver stays off while the station transmits.
LEMMA RxStep == IInv /\ [Next]_vars => NoRxWhileTx'
<1> SUFFICES ASSUME IInv, [Next]_vars PROVE NoRxWhileTx'
  OBVIOUS
<1>0. TypeOK /\ (m_transmitting => ~m_monitoring)
  BY DEF IInv, NoRxWhileTx
<1>1. CASE Finishes
  <2>1. PICK hop, atu :
          /\ \E next : Schedule(EndWsprRx, hop, atu, next)
          /\ m_monitoring' = (StopEdge \/ (~FirstTick /\ (m_monitoring \/ Fresh(hop, atu))))
    BY <1>1, FinishesIsFinishUpdate DEF FinishUpdate, setVars, modVars
  <2>2. m_transmitting' = ((m_transmitting \/ FirstTick) /\ ~StopEdge)
    BY <1>1, FinishesIsFinishUpdate DEF FinishUpdate, setVars, modVars
  <2>3. Fresh(hop, atu) => EndWsprRx
    BY <2>1 DEF Schedule, Fresh, TuneOn
  <2>4. m_transmitting => ~Fresh(hop, atu)
    BY <2>3 DEF EndWsprRx
  <2>. QED
    BY <2>1, <2>2, <2>4, <1>0, Zenon DEF NoRxWhileTx
<1>2. ASSUME UNCHANGED m_transmitting, m_monitoring' \in {m_monitoring, MonitorOn, FALSE}
      PROVE  NoRxWhileTx'
  BY <1>2, <1>0, Zenon DEF NoRxWhileTx, MonitorOn
<1>3. CASE StopTx2
  BY <1>3, <1>2, Zenon DEF StopTx2, seqVars
<1>4. CASE TuneATUTimeout \/ PressTune
  BY <1>4, <1>2, Zenon DEF TuneATUTimeout, PressTune, ClickTune, seqVars
<1>5. CASE ChangeBand \/ PressMonitor
  BY <1>5, <1>2, Zenon DEF ChangeBand, PressMonitor, seqVars
<1>6. CASE Elapse \/ Warn \/ StartTx2 \/ TuneButtonTimeout \/ AutoButtonTimeout
  BY <1>6, <1>2 DEF Elapse, Warn, StartTx2, TuneButtonTimeout, AutoButtonTimeout, seqVars
<1>7. CASE AudioCall \/ MessageEnds \/ ReceptionDone \/ UNCHANGED vars
  BY <1>7, <1>2 DEF AudioCall, MessageEnds, ReceptionDone, vars, seqVars
<1>8. CASE \/ PressHaltTx \/ PressEnableTx \/ SelectMessage \/ PressTxMinute
           \/ ChangeFrequency \/ PressTxNext \/ DecoderHalts
  BY <1>8, <1>2 DEF PressHaltTx, PressEnableTx, SelectMessage, PressTxMinute,
     ChangeFrequency, PressTxNext, DecoderHalts, seqVars
<1>. QED
  BY <1>1, <1>3, <1>4, <1>5, <1>6, <1>7, <1>8 DEF Next, Finishes, Timeout, Operator

\* The queue to the audio thread.  Only "tune on" can break CarrierInv; serving
\* a call keeps it.
LEMMA AppendKeepsOff ==
  ASSUME NEW q \in Seq(AudioCalls), NEW c \in AudioCalls
  PROVE  /\ NoTuneOn(q) /\ c # "tune on" => NoTuneOn(Append(q, c))
         /\ EndsTune(q) /\ c # "tune on" => EndsTune(Append(q, c))
<1>. DEFINE n == Len(q)
            r == Append(q, c)
<1>1. n \in Nat
  BY LenProperties
<1>2. Len(r) = n + 1
  BY AppendProperties
<1>3. r[n + 1] = c
  BY AppendProperties
<1>4. \A j \in 1..n : r[j] = q[j]
  BY AppendProperties
<1>. HIDE DEF n, r
<1>5. \A j \in 1..(n + 1) : j \in 1..n \/ j = n + 1
  BY <1>1
<1>6. \A j \in 1..n : j \in 1..(n + 1)
  BY <1>1
<1>7. ASSUME \A j \in 1..n : q[j] # "tune on", c # "tune on"
      PROVE \A j \in 1..(n + 1) : r[j] # "tune on"
  BY <1>3, <1>4, <1>5, <1>7
<1>8. ASSUME NEW i \in 1..n, q[i] = "tune off", \A j \in 1..n : j > i => q[j] # "tune on",
             c # "tune on"
      PROVE  r[i] = "tune off" /\ \A j \in 1..(n + 1) : j > i => r[j] # "tune on"
  BY <1>3, <1>4, <1>5, <1>8
<1>9. NoTuneOn(q) /\ c # "tune on" => NoTuneOn(r)
  BY <1>2, <1>7, Zenon DEF NoTuneOn, n
<1>10. EndsTune(q) /\ c # "tune on" => EndsTune(r)
  BY <1>2, <1>6, <1>8, Zenon DEF EndsTune, n
<1>. QED
  BY <1>9, <1>10 DEF r

LEMMA AppendTuneOff ==
  ASSUME NEW q \in Seq(AudioCalls)
  PROVE  EndsTune(Append(q, "tune off"))
<1>. DEFINE n == Len(q)
            r == Append(q, "tune off")
<1>0. "tune off" \in AudioCalls
  BY DEF AudioCalls
<1>1. n \in Nat
  BY LenProperties
<1>2. Len(r) = n + 1
  BY <1>0, AppendProperties
<1>3. r[n + 1] = "tune off"
  BY <1>0, AppendProperties
<1>. HIDE DEF n, r
<1>4. n + 1 \in 1..(n + 1) /\ \A j \in 1..(n + 1) : ~(j > n + 1)
  BY <1>1
<1>5. EndsTune(r)
  BY <1>2, <1>3, <1>4, Zenon DEF EndsTune
<1>. QED
  BY <1>5 DEF r

LEMMA ServeKeepsOff ==
  ASSUME NEW q \in Seq(AudioCalls), q # <<>>
  PROVE  /\ NoTuneOn(q) => NoTuneOn(Tail(q)) /\ Head(q) # "tune on"
         /\ EndsTune(q) => EndsTune(Tail(q)) \/ (NoTuneOn(Tail(q)) /\ Head(q) = "tune off")
<1>. DEFINE n == Len(q)
            r == Tail(q)
            h == Head(q)
<1>1. n \in Nat /\ n # 0
  BY LenProperties, EmptySeq
<1>2. Len(r) = n - 1
  BY HeadTailProperties
<1>3. h = q[1]
  OBVIOUS
<1>4. \A j \in 1..(n - 1) : r[j] = q[j + 1]
  BY HeadTailProperties
<1>. HIDE DEF n, r, h
<1>5. /\ \A j \in 1..(n - 1) : j + 1 \in 1..n /\ j + 1 > 1
      /\ \A i \in 1..n : i # 1 => i - 1 \in 1..(n - 1) /\ (i - 1) + 1 = i
      /\ \A i \in 1..n, j \in 1..(n - 1) : j > i - 1 => j + 1 > i
      /\ 1 \in 1..n
  BY <1>1
<1>6. ASSUME \A j \in 1..n : q[j] # "tune on"
      PROVE  h # "tune on" /\ \A j \in 1..(n - 1) : r[j] # "tune on"
  BY <1>3, <1>4, <1>5, <1>6
<1>7. ASSUME NEW i \in 1..n, q[i] = "tune off", \A j \in 1..n : j > i => q[j] # "tune on",
             i = 1
      PROVE  h = "tune off" /\ \A j \in 1..(n - 1) : r[j] # "tune on"
  BY <1>3, <1>4, <1>5, <1>7
<1>8. ASSUME NEW i \in 1..n, q[i] = "tune off", \A j \in 1..n : j > i => q[j] # "tune on",
             i # 1
      PROVE  /\ i - 1 \in 1..(n - 1) /\ r[i - 1] = "tune off"
             /\ \A j \in 1..(n - 1) : j > i - 1 => r[j] # "tune on"
  BY <1>4, <1>5, <1>8
<1>9. NoTuneOn(q) => NoTuneOn(r) /\ h # "tune on"
  BY <1>2, <1>6, Zenon DEF NoTuneOn, n
<1>10. EndsTune(q) => EndsTune(r) \/ (NoTuneOn(r) /\ h = "tune off")
  BY <1>2, <1>7, <1>8, Zenon DEF EndsTune, NoTuneOn, n
<1>. QED
  BY <1>9, <1>10 DEF r, h


LEMMA CarrierStep == IInv /\ [Next]_vars => CarrierInv'
<1> SUFFICES ASSUME IInv, [Next]_vars PROVE CarrierInv'
  OBVIOUS
<1>. DEFINE Off(calls, tuning) == (~tuning /\ NoTuneOn(calls)) \/ EndsTune(calls)
<1>0. /\ audioQ \in Seq(AudioCalls)
      /\ lastChecked \in BOOLEAN
      /\ lastChecked => m_tune
      /\ ~lastChecked => Off(audioQ, modTuning)
  BY DEF IInv, CarrierInv, TuneEnds, TypeOK, QueueOK, FlagsOK
<1>a. ASSUME ~lastChecked' => Off(audioQ', modTuning') PROVE CarrierInv'
  BY <1>a DEF CarrierInv, NoTuneOn, EndsTune
<1>b. Off(Append(audioQ, "tune off"), modTuning)
  BY <1>0, AppendTuneOff
<1>c. ~lastChecked => Off(Append(audioQ, "stop"), modTuning)
                      /\ Off(Append(audioQ, "start"), modTuning)
  <2>1. "stop" \in AudioCalls /\ "start" \in AudioCalls
        /\ "stop" # "tune on" /\ "start" # "tune on"
    BY DEF AudioCalls
  <2>2. /\ NoTuneOn(audioQ) => NoTuneOn(Append(audioQ, "stop"))
        /\ NoTuneOn(audioQ) => NoTuneOn(Append(audioQ, "start"))
        /\ EndsTune(audioQ) => EndsTune(Append(audioQ, "stop"))
        /\ EndsTune(audioQ) => EndsTune(Append(audioQ, "start"))
    BY <2>1, <1>0, AppendKeepsOff
  <2>. QED
    BY <2>2, <1>0, Zenon
<1>. HIDE DEF Off
<1>1. CASE Finishes
  <2>1. PICK atu \in BOOLEAN :
          /\ lastChecked' = (lastChecked \/ TuneOn(atu))
          /\ audioQ' = IF StopEdge THEN Append(ScheduledCalls(atu), "stop")
                       ELSE ScheduledCalls(atu)
    BY <1>1, FinishesIsFinishUpdate DEF FinishUpdate, setVars, modVars
  <2>2. ASSUME ~lastChecked' PROVE Off(audioQ', modTuning')
    <3>1. ~lastChecked /\ ~TuneOn(atu)
      BY <2>1, <2>2, Zenon
    <3>2. audioQ' = Append(audioQ, "stop") \/ audioQ' = audioQ
      BY <2>1, <3>1 DEF ScheduledCalls
    <3>3. modTuning' = modTuning
      BY <1>1, FinishesIsFinishUpdate DEF FinishUpdate, setVars, modVars
    <3>. QED
      BY <3>1, <3>2, <3>3, <1>0, <1>c, Zenon
  <2>. QED
    BY <2>2, <1>a
<1>2. ASSUME NEW tm, HaltTune(tm, audioQ), UNCHANGED modTuning PROVE CarrierInv'
  <2>1. ASSUME ~lastChecked' PROVE Off(audioQ', modTuning')
    <3>1. CASE m_tune /\ lastChecked
      BY <3>1, <1>2, <1>b DEF HaltTune, TuneCall
    <3>2. CASE ~(m_tune /\ lastChecked)
      <4>1. audioQ' = audioQ
        BY <1>2, <3>2 DEF HaltTune
      <4>2. ~lastChecked
        BY <3>2, <1>0, Zenon
      <4>. QED
        BY <4>1, <4>2, <1>0, <1>2
    <3>. QED
      BY <3>1, <3>2
  <2>. QED
    BY <2>1, <1>a
<1>3. ASSUME NEW tm, NEW checked \in BOOLEAN, ClickTune(tm, checked), UNCHANGED modTuning
      PROVE  CarrierInv'
  <2>1. ASSUME ~lastChecked' PROVE Off(audioQ', modTuning')
    <3>1. ~checked
      BY <1>3, <2>1 DEF ClickTune
    <3>2. CASE lastChecked = checked
      <4>1. audioQ' = audioQ
        BY <1>3, <3>2 DEF ClickTune
      <4>. QED
        BY <4>1, <3>1, <3>2, <1>0, <1>3
    <3>3. CASE lastChecked # checked
      <4>1. audioQ' = Append(audioQ, "tune off")
        BY <1>3, <3>3, <3>1 DEF ClickTune, TuneCall
      <4>. QED
        BY <4>1, <1>b, <1>3
    <3>. QED
      BY <3>2, <3>3
  <2>. QED
    BY <2>1, <1>a
<1>4. ASSUME UNCHANGED <<lastChecked, audioQ, modTuning>> PROVE CarrierInv'
  BY <1>4, <1>0, <1>a
<1>5. CASE StopTx2
  <2>1. UNCHANGED modTuning
    BY <1>5 DEF StopTx2, modVars
  <2>2. CASE HaltTx(Fired("ptt0"), audioQ)
    BY <2>1, <2>2, <1>2 DEF HaltTx
  <2>3. ASSUME NEW atu \in BOOLEAN, lastChecked' = (lastChecked \/ TuneOn(atu)),
               audioQ' = ScheduledCalls(atu)
        PROVE  CarrierInv'
    <3>1. ~lastChecked' => ~lastChecked /\ ~TuneOn(atu)
      BY <2>3, Zenon
    <3>2. ~TuneOn(atu) => audioQ' = audioQ
      BY <2>3 DEF ScheduledCalls
    <3>. QED
      BY <3>1, <3>2, <2>1, <1>0, <1>a
  <2>. QED
    BY <1>5, <2>2, <2>3 DEF StopTx2
<1>6. CASE TuneButtonTimeout \/ PressHaltTx
  <2>1. UNCHANGED modTuning
    BY <1>6 DEF TuneButtonTimeout, PressHaltTx, modVars
  <2>. QED
    BY <1>6, <2>1, <1>2 DEF TuneButtonTimeout, PressHaltTx, HaltTx
<1>7. CASE ChangeBand
  <2>1. UNCHANGED modTuning
    BY <1>7 DEF ChangeBand, modVars
  <2>2. CASE HaltTune(timer, audioQ)
    BY <2>1, <2>2, <1>2
  <2>3. CASE UNCHANGED <<tuneVars, audioQ>>
    BY <2>1, <2>3, <1>4 DEF tuneVars
  <2>. QED
    BY <1>7, <2>2, <2>3 DEF ChangeBand
<1>8. CASE TuneATUTimeout
  BY <1>8, <1>3 DEF TuneATUTimeout, modVars
<1>9. CASE PressTune
  <2>1. (~uiTune) \in BOOLEAN
    BY Zenon
  <2>. QED
    BY <1>9, <2>1, <1>3 DEF PressTune, modVars
<1>10. CASE StartTx2
  <2>1. audioQ' = audioQ \/ audioQ' = Append(audioQ, "start")
    BY <1>10 DEF StartTx2
  <2>2. UNCHANGED <<lastChecked, modTuning>>
    BY <1>10 DEF StartTx2, tuneVars, modVars
  <2>. QED
    BY <2>1, <2>2, <1>0, <1>a, <1>c
<1>11. CASE AudioCall
  <2>1. audioQ # <<>> /\ audioQ' = Tail(audioQ) /\ UNCHANGED lastChecked
    BY <1>11 DEF AudioCall, tuneVars
  <2>2. /\ NoTuneOn(audioQ) => NoTuneOn(audioQ') /\ Head(audioQ) # "tune on"
        /\ EndsTune(audioQ) =>
             EndsTune(audioQ') \/ (NoTuneOn(audioQ') /\ Head(audioQ) = "tune off")
    BY <2>1, <1>0, ServeKeepsOff
  <2>3. CASE Head(audioQ) = "tune off"
    <3>1. ~modTuning'
      BY <2>3, <1>11 DEF AudioCall
    <3>. QED
      BY <3>1, <2>1, <2>2, <1>0, <1>a, Zenon DEF Off
  <2>4. CASE Head(audioQ) = "tune on"
    BY <2>4, <2>1, <2>2, <1>0, <1>a DEF Off
  <2>5. CASE Head(audioQ) = "start" \/ Head(audioQ) = "stop"
    <3>1. modTuning' = modTuning
      BY <2>5, <1>11 DEF AudioCall
    <3>2. Head(audioQ) # "tune off"
      BY <2>5
    <3>. QED
      BY <3>1, <3>2, <2>1, <2>2, <1>0, <1>a, Zenon DEF Off
  <2>6. Head(audioQ) \in AudioCalls
    BY <2>1, <1>0, HeadTailProperties
  <2>. QED
    BY <2>3, <2>4, <2>5, <2>6 DEF AudioCalls
<1>12. CASE \/ Elapse \/ Warn \/ AutoButtonTimeout \/ MessageEnds \/ ReceptionDone
            \/ UNCHANGED vars
  BY <1>12, <1>4 DEF Elapse, Warn, AutoButtonTimeout, MessageEnds, ReceptionDone, vars, tuneVars,
     modVars
<1>13. CASE \/ PressEnableTx \/ SelectMessage \/ PressTxMinute \/ ChangeFrequency
            \/ PressTxNext \/ PressMonitor \/ DecoderHalts
  BY <1>13, <1>4 DEF PressEnableTx, SelectMessage, PressTxMinute, ChangeFrequency,
     PressTxNext, PressMonitor, DecoderHalts, tuneVars, modVars
<1>. QED
  BY <1>1, <1>5, <1>6, <1>7, <1>8, <1>9, <1>10, <1>11, <1>12, <1>13
     DEF Next, Finishes, Timeout, Operator

-----------------------------------------------------------------------------
\* The theorems.

LEMMA Invariance == Spec => []IInv
<1>1. IInv /\ [Next]_vars => IInv'
  BY TypeStep, StopEdgeStep, PttStep, TuneStep, RxStep, CarrierStep DEF IInv
<1>. QED
  BY <1>1, InitIInv, PTL DEF Spec

\* Every variable keeps its type, and the counters their bounds.
THEOREM TypeCorrect == Spec => []TypeOK
<1>1. IInv => TypeOK
  BY DEF IInv
<1>. QED
  BY <1>1, Invariance, PTL

\* No interleaving of guiUpdate, timers, buttons and late calls leaves the rig keyed
\* with neither a transmission on nor the timer that lowers PTT running.
THEOREM NoStuckPtt == Spec => []PttReleased
<1>1. IInv => PttReleased
  BY DEF IInv
<1>. QED
  BY <1>1, Invariance, PTL

\* The edge of m_btxok that ends a transmission is never lost between two runs of
\* guiUpdate.
THEOREM StopEdgeNotLost == Spec => []StopEdgeKept
<1>1. IInv => StopEdgeKept
  BY DEF IInv
<1>. QED
  BY <1>1, Invariance, PTL

\* Tune is never left half on without the timer that ends it.
THEOREM TuneAlwaysEnds == Spec => []TuneEnds
<1>1. IInv => TuneEnds
  BY DEF IInv
<1>. QED
  BY <1>1, Invariance, PTL

\* The station never listens to itself.
THEOREM ReceiverOff == Spec => []NoRxWhileTx
<1>1. IInv => NoRxWhileTx
  BY DEF IInv
<1>. QED
  BY <1>1, Invariance, PTL

\* A tuning carrier that plays after Tune went off has its end in the audio queue.
THEOREM CarrierAlwaysEnds == Spec => []CarrierEnds
<1>1. IInv => CarrierEnds
  <2> SUFFICES ASSUME IInv, modTuning, ~lastChecked
               PROVE  \E i \in 1..Len(audioQ) : audioQ[i] = "tune off"
    BY DEF CarrierEnds
  <2>. QED
    <3>1. EndsTune(audioQ)
      BY DEF IInv, CarrierInv
    <3>. QED
      BY <3>1 DEF EndsTune
<1>. QED
  BY <1>1, Invariance, PTL

\* Whoever ends Tune ends its flag, its handler's memory and its carrier.
THEOREM TuneEndsWhole == Spec => []TuneOver
<1>1. TuneEnds /\ CarrierEnds => TuneOver
  BY DEF TuneOver
<1>. QED
  BY <1>1, TuneAlwaysEnds, CarrierAlwaysEnds, PTL

\* A JT station keys only in its own period and out of the WSPR sub-band, and a
\* change of either ends the transmission in the same run of guiUpdate.
THEOREM SlotKept == Spec => TxInSlot
<1>1. IInv /\ [Next]_vars =>
        [(GuiUpdate \/ Answer) /\ ~Wspr /\ g_iptt' = 1 /\ ~m_tune'
           => TxWindow /\ ~subBand]_vars
  <2> SUFFICES ASSUME IInv, FinishUpdate, ~Wspr, g_iptt' = 1, ~m_tune'
               PROVE  TxWindow /\ ~subBand
    BY FinishesIsFinishUpdate DEF Finishes
  <2>1. ~m_tune
    <3>1. PICK atu : m_tune' = (m_tune \/ TuneOn(atu))
      BY DEF FinishUpdate
    <3>. QED
      BY <3>1, Zenon
  <2>2. g_iptt' = IF StopEdge THEN 0 ELSE Keyed
    BY DEF FinishUpdate
  <2>3. ~StopEdge /\ Keyed = 1
    BY <2>2
  <2>4. /\ m_transmitting <=> g_iptt = 1
        /\ iptt0 = g_iptt /\ g_iptt \in {0, 1}
        /\ g_iptt = 1 => btxok0
    BY DEF IInv, StopEdgeKept, TypeOK, CountsOK
  <2>5. Engaged
    BY <2>3, <2>4 DEF Keyed, Keying, Engaged
  <2>6. TxTime
    <3>1. CASE g_iptt = 0
      BY <3>1, <2>1, <2>3 DEF Keyed, Keying
    <3>2. CASE g_iptt = 1
      <4>1. ~FirstTick
        BY <3>2, <2>4 DEF FirstTick
      <4>2. BtxokBeforeStop
        BY <3>2, <2>3, <2>4 DEF StopEdge
      <4>3. ~TimeToStop
        BY <4>1, <4>2 DEF BtxokBeforeStop
      <4>. QED
        BY <4>3, <2>5, <2>1 DEF TimeToStop
    <3>. QED
      BY <3>1, <3>2, <2>4
  <2>. QED
    BY <2>1, <2>5, <2>6 DEF TxTime, Barred
<1>. QED
  BY <1>1, Invariance, PTL DEF Spec, TxInSlot
=============================================================================
