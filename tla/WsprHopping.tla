---------------------------- MODULE WsprHopping ----------------------------
(***************************************************************************)
(* WSPR band hopping: WSPRBandHopping::next_hop, the table of its dialog,   *)
(* and the part of MainWindow::guiUpdate that calls it, changes the band    *)
(* and decides whether the next interval transmits.                         *)
(*                                                                          *)
(* Time is a slot of the coordinated cycle and a phase of the slot: its     *)
(* first second (m_nseq = 0), its body, and the time after the audio of the *)
(* interval ended.  guiUpdate runs several times in each phase.  Whether    *)
(* the schedule of WsprTxScheduler (module TxSchedule) makes the next slot  *)
(* a transmission is a free choice.  The ATU carrier is left to module      *)
(* TxSequencer; here it is the band it is sent on.                          *)
(***************************************************************************)
EXTENDS Integers, Sequences, FiniteSets, SequencesExt

CONSTANTS
  Bands,         \* the bands of the hopping table
  Coordinated,   \* slot |-> the band that all stations use in it
  NoRow,         \* old_row before the first hop, and next_hop's index -1
  Enabled0,      \* the bands ticked for the current part of the day
  RxOnly0,       \* those ticked as Rx only
  MaxDialog,     \* bound: ticks and unticks in the dialog
  MaxHand,       \* bound: band changes that are not hops
  MaxButtons     \* bound: presses of the other controls

Slots == DOMAIN Coordinated
Pct == {0, 20, 100}            \* m_pctx: never, by the schedule, always
Phases == {"first", "body", "over"}

BandAssumption ==
  /\ IsFiniteSet(Bands) /\ NoRow \notin Bands
  /\ Slots = 0 .. Cardinality(Slots) - 1 /\ Slots # {}
  /\ \A s \in Slots : Coordinated[s] \in Bands
  /\ Enabled0 \subseteq Bands /\ RxOnly0 \subseteq Bands

VARIABLES
  slot, phase,
  freq,          \* the band of m_freqNominal
  old_row,       \* the band row of the last hop that changed the band
  enabled,       \* bands_[period_index]
  tune, rxOnly,  \* bands_[4], bands_[5]
  rx_permutation, tx_permutation,
  m_ntr, m_rxDone, m_WSPR_tx_next, m_txNext, m_auto, m_pctx,
  m_monitoring, hopping, online,
  whole,         \* no part of the interval's audio is missing so far
  plan,          \* history: the band m_WSPR_tx_next was computed for, or NoRow
  sent,          \* history: the last carrier or transmission that was planned
  byHand,        \* history: the band was moved by hand, "since" the last call of
                 \* next_hop, "before" it, or "no": not since a hop moved it
  dialogs, hands, buttons  \* counters for the bounds

clock == <<slot, phase>>
hop == <<old_row, rx_permutation, tx_permutation>>
table == <<enabled, tune, rxOnly>>
gui == <<m_ntr, m_rxDone, m_WSPR_tx_next, m_txNext, plan>>
controls == <<m_auto, m_pctx, m_monitoring, whole, hopping, online>>
bounds == <<dialogs, hands, buttons>>
vars == <<clock, freq, hop, table, gui, controls, sent, byHand, bounds>>

Nothing == [on |-> NoRow, for |-> NoRow, moved |-> "no"]

Init ==
  /\ slot = 0 /\ phase = "first" /\ freq \in Bands
  /\ old_row = NoRow /\ rx_permutation = <<>> /\ tx_permutation = <<>>
  /\ enabled = Enabled0 /\ tune = {} /\ rxOnly = RxOnly0
  /\ m_ntr = 0 /\ m_WSPR_tx_next = FALSE /\ m_txNext = FALSE
  /\ m_rxDone \in BOOLEAN      \* TRUE when another mode has decoded before
  /\ m_auto \in BOOLEAN /\ m_pctx = 20
  /\ m_monitoring = TRUE /\ whole = TRUE /\ hopping = TRUE /\ online = TRUE
  /\ plan = NoRow /\ sent = Nothing /\ byHand = "no"
  /\ dialogs = 0 /\ hands = 0 /\ buttons = 0

----------------------------------------------------------------------------
(* next_hop *)

NextSlot == (slot + 1) % Cardinality(Slots)

\* The slot in which now + 30 s lies.
next_hopping_band == Coordinated[IF phase = "over" THEN NextSlot ELSE slot]

\* The answers of next_is_tx that the schedule can give.
next_is_tx == CASE m_pctx = 100 -> {TRUE} [] m_pctx = 0 -> {FALSE}
                [] OTHER -> BOOLEAN

TargetRx == enabled \cap rxOnly
TargetTx == enabled \ rxOnly

\* The permutations are drawn anew when they are used up or no longer part
\* of what the table allows.
\* (Mutant: they are drawn anew as soon as one of the two is used up.)
Worn_either == \/ rx_permutation = <<>> \/ tx_permutation = <<>>
               \/ ~ ToSet(rx_permutation) \subseteq TargetRx
               \/ ~ ToSet(tx_permutation) \subseteq TargetTx
Worn == \/ rx_permutation = <<>> /\ tx_permutation = <<>>
        \/ ~ ToSet(rx_permutation) \subseteq TargetRx
        \/ ~ ToSet(tx_permutation) \subseteq TargetTx

Shuffles(S) == {p \in [1 .. Cardinality(S) -> S] : ToSet(p) = S}

Drawn == IF Worn THEN Shuffles(TargetRx) \X Shuffles(TargetTx)
         ELSE {<<rx_permutation, tx_permutation>>}

\* One result of the random choice: the band, and what is left to draw from.
Pick(d, txNext) ==
  IF (txNext /\ d[2] # <<>>) \/ d[1] = <<>>
  THEN [band |-> Head(d[2]), rx |-> d[1], tx |-> Tail(d[2])]
  ELSE [band |-> Head(d[1]), rx |-> Tail(d[1]), tx |-> d[2]]

\* The hops next_hop can choose, given its scheduler's answer.
Hops(txNext) ==
  IF next_hopping_band \in enabled
  THEN {[band |-> next_hopping_band,
         rx |-> Remove(rx_permutation, next_hopping_band),
         tx |-> Remove(tx_permutation, next_hopping_band)]}
  ELSE IF enabled = {}
  THEN {[band |-> NoRow, rx |-> rx_permutation, tx |-> tx_permutation]}
  ELSE {Pick(d, txNext) : d \in Drawn}

\* tx_next_ and tune_required_ of the answer.
HopTx(h, txNext) == h.band # NoRow /\ txNext /\ h.band \notin rxOnly
HopTune(h, txNext) ==
  h.band # NoRow /\ m_auto /\ ~txNext /\ h.band \in tune /\ h.band \notin rxOnly

----------------------------------------------------------------------------
(* MainWindow *)

\* A hop to the row hopped to last is not made again.
Moves(h) == h.band # NoRow /\ h.band # old_row

\* Mutant: no hop while Monitor is off.
MoveTo_monitored(h) ==
  IF Moves(h) /\ m_monitoring THEN freq' = h.band /\ old_row' = h.band /\ byHand' = "no"
  ELSE byHand' = byHand /\ UNCHANGED <<freq, old_row>>

MoveTo(h) ==
  IF Moves(h) THEN freq' = h.band /\ old_row' = h.band /\ byHand' = "no"
  ELSE /\ byHand' = IF h.band # NoRow /\ byHand = "since" THEN "before" ELSE byHand
       /\ UNCHANGED <<freq, old_row>>

Send(band) == sent' = [on |-> freq', for |-> band, moved |-> byHand']

WSPR_scheduling ==
  \E t \in next_is_tx :
    IF online /\ hopping
    THEN \E h \in Hops(t /\ m_auto) :
           /\ m_WSPR_tx_next' = HopTx(h, t /\ m_auto) /\ plan' = h.band
           /\ rx_permutation' = h.rx /\ tx_permutation' = h.tx
           /\ MoveTo(h)
           /\ m_monitoring' = (m_monitoring \/ Moves(h))  \* band_changed
           /\ IF HopTune(h, t /\ m_auto) THEN Send(h.band) ELSE UNCHANGED sent
    ELSE /\ m_WSPR_tx_next' = t /\ plan' = NoRow
         /\ UNCHANGED <<hop, freq, m_monitoring, sent, byHand>>

Unscheduled == UNCHANGED <<hop, freq, m_monitoring, byHand, plan>>

\* The first second of an interval: transmit or receive?
Planned == m_WSPR_tx_next /\ m_pctx # 0
Btx == m_auto /\ (Planned \/ m_txNext \/ m_pctx = 100)

DecideTx ==
  /\ phase = "first" /\ m_ntr = 0 /\ Btx
  /\ m_ntr' = -1 /\ m_txNext' = FALSE
  /\ m_WSPR_tx_next' = Planned
  /\ Unscheduled /\ UNCHANGED m_rxDone
  /\ IF m_txNext \/ m_pctx = 100 \/ plan = NoRow THEN UNCHANGED sent ELSE Send(plan)

\* In the same pass a reception that is marked done already ends.
DecideRx ==
  /\ phase = "first" /\ m_ntr = 0 /\ ~Btx
  /\ m_txNext' = m_txNext
  /\ IF m_rxDone
     THEN m_ntr' = 0 /\ m_rxDone' = (m_rxDone /\ ~m_monitoring) /\ WSPR_scheduling
     ELSE /\ m_ntr' = 1 /\ m_WSPR_tx_next' = Planned
          /\ Unscheduled /\ UNCHANGED <<m_rxDone, sent>>

RxOver ==
  /\ m_ntr = 1 /\ m_rxDone
  /\ m_ntr' = 0 /\ m_rxDone' = (m_rxDone /\ ~m_monitoring)
  /\ WSPR_scheduling /\ UNCHANGED m_txNext

guiUpdate ==
  /\ DecideTx \/ DecideRx \/ RxOver
  /\ UNCHANGED <<clock, table, m_auto, m_pctx, whole, hopping, online, bounds>>

\* The transmission of the interval ends.
stopTx2 ==
  /\ phase = "over" /\ m_ntr = -1
  /\ m_ntr' = 0 /\ WSPR_scheduling
  /\ UNCHANGED <<clock, table, m_rxDone, m_txNext, m_auto, m_pctx, whole, hopping, online,
                 bounds>>

\* dataSink has the whole interval.
dataSink ==
  /\ phase = "body" /\ m_ntr # -1 /\ whole
  /\ phase' = "over" /\ m_rxDone' = TRUE
  /\ UNCHANGED <<slot, freq, hop, table, m_ntr, m_WSPR_tx_next, m_txNext, plan, controls,
                 sent, byHand, bounds>>

\* guiUpdate is called every 100 ms: it has nothing to do before time goes on.
Idle == /\ ~ (phase = "first" /\ m_ntr = 0)
        /\ ~ (m_ntr = 1 /\ m_rxDone)

\* With Monitor off and m_rxDone left set it is never idle in the first second.
Second == Idle \/ (phase = "first" /\ m_ntr = 0 /\ m_rxDone /\ ~m_monitoring)

Tick ==
  /\ CASE phase = "first" -> Second /\ phase' = "body" /\ UNCHANGED <<slot, whole>>
       [] phase = "body" -> /\ Idle /\ (m_ntr = -1 \/ ~whole)
                            /\ phase' = "over" /\ UNCHANGED <<slot, whole>>
       [] OTHER -> /\ Idle /\ m_ntr # -1
                   /\ phase' = "first" /\ slot' = NextSlot /\ whole' = m_monitoring
  /\ UNCHANGED <<freq, hop, table, gui, m_auto, m_pctx, m_monitoring, hopping, online,
                 sent, byHand, bounds>>

\* A box of the dialog is ticked or unticked.
ItemChanged ==
  /\ dialogs < MaxDialog /\ dialogs' = dialogs + 1
  /\ \E b \in Bands :
       LET Flip(S) == IF b \in S THEN S \ {b} ELSE S \cup {b}
       IN \/ enabled' = Flip(enabled) /\ UNCHANGED <<tune, rxOnly>>
          \/ tune' = Flip(tune) /\ UNCHANGED <<enabled, rxOnly>>
          \/ rxOnly' = Flip(rxOnly) /\ UNCHANGED <<enabled, tune>>
  /\ UNCHANGED <<clock, freq, hop, gui, controls, sent, byHand, hands, buttons>>

\* The operator or the rig changes the band; old_row is not told.
BandByHand ==
  /\ hands < MaxHand /\ hands' = hands + 1
  /\ \E b \in Bands \ {freq} : freq' = b
  /\ byHand' = "since"
  /\ UNCHANGED <<clock, hop, table, gui, controls, sent, dialogs, buttons>>

Press ==
  /\ buttons < MaxButtons /\ buttons' = buttons + 1
  /\ UNCHANGED <<clock, freq, hop, table, m_ntr, m_rxDone, m_WSPR_tx_next, plan, sent,
                 byHand, dialogs, hands>>

EnableTx == /\ Press /\ m_auto' = ~m_auto
            /\ UNCHANGED <<m_txNext, m_pctx, m_monitoring, whole, hopping, online>>
TxNext == /\ Press /\ m_pctx > 0 /\ m_txNext' = ~m_txNext
          /\ UNCHANGED controls
SetPct == /\ Press /\ \E p \in Pct : m_pctx' = p /\ m_txNext' = (m_txNext /\ p > 0)
          /\ UNCHANGED <<m_auto, m_monitoring, whole, hopping, online>>
Monitor == /\ Press /\ m_monitoring' = ~m_monitoring /\ whole' = FALSE
           /\ UNCHANGED <<m_auto, m_txNext, m_pctx, hopping, online>>
HoppingBox == /\ Press /\ hopping' = ~hopping
              /\ UNCHANGED <<m_auto, m_txNext, m_pctx, m_monitoring, whole, online>>
RigOnline == /\ Press /\ online' = ~online
             /\ UNCHANGED <<m_auto, m_txNext, m_pctx, m_monitoring, whole, hopping>>

Buttons == EnableTx \/ TxNext \/ SetPct \/ Monitor \/ HoppingBox \/ RigOnline

Next == guiUpdate \/ stopTx2 \/ dataSink \/ Tick \/ ItemChanged \/ BandByHand \/ Buttons

Fairness == WF_vars(guiUpdate) /\ WF_vars(stopTx2) /\ WF_vars(dataSink) /\ WF_vars(Tick)

Spec == Init /\ [][Next]_vars /\ Fairness

----------------------------------------------------------------------------
(* Properties *)

TypeOK ==
  /\ slot \in Slots /\ phase \in Phases /\ freq \in Bands
  /\ old_row \in Bands \cup {NoRow} /\ plan \in Bands \cup {NoRow}
  /\ enabled \subseteq Bands /\ tune \subseteq Bands /\ rxOnly \subseteq Bands
  /\ rx_permutation \in Seq(Bands) /\ tx_permutation \in Seq(Bands)
  /\ m_ntr \in {-1, 0, 1} /\ m_pctx \in Pct
  /\ byHand \in {"no", "since", "before"}

\* What is sent for a hop - the carrier for the tuner, a transmission the
\* schedule asked for - goes out on the band of the hop, whose boxes allowed
\* it, unless the band was moved by hand after the last hop that moved it.
OnHoppedBand == sent.on = sent.for \/ sent.moved # "no"

\* A band that stays ticked is visited again and again, provided another one
\* is ticked too (a single band is not returned to after it was left by hand)
\* and, for a band without a slot of its own, that the ticked bands leave a
\* slot of the coordinated cycle free.
Willing(b) ==
  /\ hopping /\ online /\ m_monitoring
  /\ b \in enabled /\ Cardinality(enabled) > 1
  /\ \E s \in Slots : Coordinated[s] = b \/ Coordinated[s] \notin enabled

EveryBand == \A b \in Bands : <>[]Willing(b) => []<>(freq = b)

\* Not so: "Band-switching occurs after each 2-minute interval" (wspr.adoc).
SwitchedBetween == [][freq' # freq => phase = "over" \/ hands' # hands]_vars

\* Not so: what is sent for a hop goes out on its band unless the band was
\* moved by hand since next_hop was called.
OnChosenBand == sent.on = sent.for \/ sent.moved = "since"
=============================================================================
