---------------------------- MODULE PowerMemory ----------------------------
(***************************************************************************)
(* The attenuation of the transmitted audio (0 is full power), remembered   *)
(* for each band and mode, with a memory of its own for tuning: what the    *)
(* slider shows after the band, the mode or the Tx mode changes, and after  *)
(* Tune is released.                                                        *)
(***************************************************************************)
EXTENDS Integers

CONSTANTS Bands, Modes, Levels, MaxOps
PowerAssumption == /\ Levels \subseteq Nat \ {0} /\ Modes \subseteq {"JT9", "JT65", "T10", "JT9+JT65"}
                   /\ MaxOps \in Nat
Dual == "JT9+JT65"
None == -1

VARIABLES
  band, mode, modeTx,
  level,               \* ui->outAttenuation
  txPower, tunePower,  \* m_pwrBandTxMemory, m_pwrBandTuneMemory
  txMem, tuneMem,      \* the two options
  tune, lastChecked,   \* m_tune, the static of on_tuneButton_clicked
  timer,               \* tuneButtonTimer
  ops,
  chosen,              \* history: where the operator last left the slider, for each key
  strayed,             \* history: the key changed while m_tune was set, Tune was pressed or
                       \* the slider moved in the quarter of a second after its release, or
                       \* it was released where nothing was remembered, or pressed where the
                       \* slider was not recalled; or a decode in the other mode was answered,
                       \* which writes one level under both modes
  fresh                \* history: nothing is remembered here since the option was switched on,
                       \* or the mode changed without recalling what is
memory == <<txPower, tunePower>>
vars == <<band, mode, modeTx, level, memory, txMem, tuneMem, tune, lastChecked, timer, ops,
          chosen, strayed, fresh>>

\* curBand: in dual mode JT65 shares the entry of JT65, JT9 has one of its own.
Key(b, m, tx) == <<b, IF m = Dual /\ tx = "JT65" THEN "JT65" ELSE m>>
Keys == Bands \X (Modes \cup {"JT65"})
Here == Key(band, mode, modeTx)

Init ==
  /\ band \in Bands /\ mode \in Modes /\ modeTx = (IF mode = Dual THEN "JT65" ELSE mode)
  /\ level \in Levels /\ txPower = [k \in Keys |-> None] /\ tunePower = txPower
  /\ txMem = FALSE /\ tuneMem \in BOOLEAN /\ tune = FALSE /\ lastChecked = FALSE /\ timer = FALSE
  /\ ops = 0 /\ chosen = [k \in Keys |-> None] /\ strayed = FALSE /\ fresh = TRUE

----------------------------------------------------------------------------
\* What was remembered for a key is recalled, or else the slider is remembered.
Recalled(l, mem, k) == IF mem[k] # None THEN mem[k] ELSE l
Noted(l, mem, k) == [mem EXCEPT ![k] = Recalled(l, mem, k)]
Recall(k, tuning) ==
  IF txMem /\ ~tuning
  THEN /\ level' = Recalled(level, txPower, k) /\ txPower' = Noted(level, txPower, k)
  ELSE UNCHANGED <<level, txPower>>

\* on_tuneButton_clicked, released: reading an entry that is not there makes one of 0.
Read(l) == IF l = None THEN 0 ELSE l
Released(k) ==
  IF tuneMem \/ txMem
  THEN [tune |-> [tunePower EXCEPT ![k] = level], level |-> Read(txPower[k]),
        tx |-> [txPower EXCEPT ![k] = Read(@)]]
  ELSE [tune |-> tunePower, level |-> level, tx |-> txPower]

Unwritten == txMem /\ ~tuneMem /\ fresh

Op == ops < MaxOps /\ ops' = ops + 1

\* on_outAttenuation_valueChanged
MoveSlider(l) ==
  /\ Op /\ l # level /\ level' = l
  /\ txPower' = IF ~tune /\ txMem THEN [txPower EXCEPT ![Here] = l] ELSE txPower
  /\ tunePower' = IF tune /\ tuneMem THEN [tunePower EXCEPT ![Here] = l] ELSE tunePower
  /\ chosen' = IF ~tune /\ txMem THEN [chosen EXCEPT ![Here] = l] ELSE chosen
  /\ fresh' = (fresh /\ (tune \/ ~txMem)) /\ strayed' = (strayed \/ (tune /\ ~lastChecked))
  /\ UNCHANGED <<band, mode, modeTx, txMem, tuneMem, tune, lastChecked, timer>>

\* on_bandComboBox_activated: the combo box shows the new band already; a move beyond the
\* waterfall halts the transmission first.
ChangeBand(b, blind) ==
  LET k == Key(b, mode, modeTx)
      halted == blind /\ tune
      off == halted /\ lastChecked
      r == IF off THEN Released(k) ELSE [tune |-> tunePower, level |-> level, tx |-> txPower]
      recall == txMem /\ (~tune \/ halted)
  IN /\ Op /\ b # band /\ band' = b /\ tune' = (tune /\ ~halted)
     /\ lastChecked' = (lastChecked /\ ~halted) /\ timer' = (timer \/ off) /\ tunePower' = r.tune
     /\ level' = IF recall THEN Recalled(r.level, r.tx, k) ELSE r.level
     /\ txPower' = IF recall THEN Noted(r.level, r.tx, k) ELSE r.tx
     /\ strayed' = (strayed \/ tune) /\ fresh' = (fresh /\ ~recall)
     /\ UNCHANGED <<mode, modeTx, txMem, tuneMem, chosen>>

\* The mode menu, disabled while transmitting: band_changed runs with the Tx mode of the
\* mode before.
Entered(m) == IF m = Dual THEN "JT65" ELSE m
ChangeMode(m) ==
  /\ Op /\ ~tune /\ m # mode /\ mode' = m /\ modeTx' = Entered(m)
  /\ Recall(Key(band, m, modeTx), FALSE)
  /\ fresh' = (fresh \/ Key(band, m, modeTx) # Key(band, m, modeTx'))
  /\ UNCHANGED <<band, tunePower, txMem, tuneMem, tune, lastChecked, timer, chosen, strayed>>

\* on_pbTxMode_clicked
ChangeTxMode ==
  /\ Op /\ mode = Dual /\ modeTx' = (IF modeTx = "JT9" THEN "JT65" ELSE "JT9")
  /\ Recall(Key(band, mode, modeTx'), tune) /\ strayed' = (strayed \/ tune)
  /\ fresh' = (fresh /\ ~(txMem /\ ~tune))
  /\ UNCHANGED <<band, mode, tunePower, txMem, tuneMem, tune, lastChecked, timer, chosen>>

\* processMessage, for a decode in the other mode while receiving: the slider moves before the
\* Tx mode changes, so that its handler writes the level under the old one.
AnswerOtherMode ==
  LET other == IF modeTx = "JT9" THEN "JT65" ELSE "JT9"
      k == Key(band, mode, other)
      l == IF txMem /\ ~tune THEN Recalled(level, txPower, k) ELSE level
  IN /\ Op /\ mode = Dual /\ modeTx' = other /\ level' = l
     /\ txPower' = IF ~txMem \/ tune THEN txPower
                   ELSE IF l # level THEN [txPower EXCEPT ![Here] = l] ELSE Noted(level, txPower, k)
     /\ strayed' = (strayed \/ tune \/ l # level) /\ fresh' = (fresh /\ ~(txMem /\ ~tune))
     /\ UNCHANGED <<band, mode, tunePower, txMem, tuneMem, tune, lastChecked, timer, chosen>>

\* on_tuneButton_clicked, pressed; within the quarter of a second that the last tuning
\* still takes it works as if released.
Remembered == [txPower EXCEPT ![Here] = level]
PressTune ==
  /\ Op /\ ~lastChecked /\ lastChecked' = TRUE
  /\ \/ /\ ~tune /\ tune' = TRUE
        /\ txPower' = IF tuneMem THEN Remembered ELSE txPower
        /\ level' = IF tuneMem THEN Recalled(level, tunePower, Here) ELSE level
        /\ fresh' = (fresh /\ ~tuneMem) /\ UNCHANGED <<tunePower, timer>>
        /\ strayed' = (strayed \/ (fresh /\ tuneMem /\ chosen[Here] # None))
     \/ /\ tune /\ level' = Released(Here).level /\ txPower' = Released(Here).tx
        /\ tunePower' = Released(Here).tune /\ timer' = TRUE /\ strayed' = TRUE
        /\ UNCHANGED <<tune, fresh>>
  /\ UNCHANGED <<band, mode, modeTx, txMem, tuneMem, chosen>>

ReleaseTune ==
  /\ lastChecked /\ lastChecked' = FALSE /\ timer' = (timer \/ tune)
  /\ level' = Released(Here).level /\ txPower' = Released(Here).tx
  /\ tunePower' = Released(Here).tune /\ strayed' = (strayed \/ Unwritten)
  /\ UNCHANGED <<band, mode, modeTx, txMem, tuneMem, tune, ops, chosen, fresh>>

\* stop_tuning, by the timer or by Halt Tx
StopTuning ==
  /\ timer \/ tune
  /\ \/ /\ tune /\ lastChecked /\ level' = Released(Here).level
        /\ txPower' = Released(Here).tx /\ tunePower' = Released(Here).tune
        /\ strayed' = (strayed \/ Unwritten)
     \/ ~(tune /\ lastChecked) /\ UNCHANGED <<level, memory, strayed>>
  /\ tune' = FALSE /\ lastChecked' = (lastChecked /\ ~tune) /\ timer' = FALSE
  /\ UNCHANGED <<band, mode, modeTx, txMem, tuneMem, ops, chosen, fresh>>

\* The settings: remember the power for transmitting, for tuning.
SwitchTxMemory ==
  /\ Op /\ ~tune /\ txMem' = ~txMem /\ fresh' = TRUE /\ chosen' = [k \in Keys |-> None]
  /\ UNCHANGED <<band, mode, modeTx, level, memory, tuneMem, tune, lastChecked, timer, strayed>>

\* The program ends and starts again: the handler of the mode recalls, with the Tx mode of
\* the settings file.
Restart ==
  /\ Op /\ ~tune /\ ~timer /\ Recall(Here, FALSE) /\ lastChecked' = FALSE
  /\ modeTx' = Entered(mode) /\ fresh' = ((fresh /\ ~txMem) \/ modeTx # modeTx')
  /\ UNCHANGED <<band, mode, tunePower, txMem, tuneMem, tune, timer, chosen, strayed>>

Next ==
  \/ \E l \in Levels : MoveSlider(l)
  \/ \E b \in Bands, blind \in BOOLEAN : ChangeBand(b, blind)
  \/ \E m \in Modes : ChangeMode(m)
  \/ ChangeTxMode \/ AnswerOtherMode \/ PressTune \/ ReleaseTune \/ StopTuning \/ SwitchTxMemory \/ Restart
Spec == Init /\ [][Next]_vars

----------------------------------------------------------------------------
\* Unless the band or the Tx mode changes while tuning (the entry of one band is then
\* written under another), Tune or the slider is touched in the quarter of a second after
\* tuning, or tuning starts where nothing is remembered (an entry never written is read
\* as 0 dB) or where a change of mode left the slider as it was, and unless a decode in the
\* other mode of dual operation is answered: back on a band and a mode where the operator
\* set the power, the slider is where the operator left it, whatever was tuned meanwhile.
PowerKept ==
  txMem /\ ~tune /\ ~lastChecked /\ ~strayed /\ ~fresh /\ chosen[Here] # None
    => level = chosen[Here]

\* Under the same conditions, the slider never jumps to full power of its own accord.
NotFullPower == ~strayed => level # 0
----------------------------------------------------------------------------
\* Why (proved in StationProofs): until something strays, the operator's choices are what is
\* remembered, what will be read from the memories has been written, and Tune's handler
\* and its flag go together.
Memories == [Keys -> Nat \cup {None}]
TypeOK ==
  /\ band \in Bands /\ mode \in Modes /\ level \in Nat /\ ops \in Nat
  /\ txPower \in Memories /\ tunePower \in Memories /\ chosen \in Memories
  /\ {txMem, tuneMem, tune, lastChecked, timer, strayed, fresh} \subseteq BOOLEAN
NoFullPower == level # 0 /\ \A k \in Keys : txPower[k] # 0 /\ tunePower[k] # 0
ChoicesNoted == \A k \in Keys : chosen[k] # None => txPower[k] = chosen[k]
Written == (txMem /\ ~fresh) \/ (lastChecked /\ tuneMem) => txPower[Here] # None
BackInPlace == txMem /\ ~lastChecked /\ ~fresh /\ chosen[Here] # None => level = chosen[Here]
PowerInv ==
  /\ TypeOK /\ (lastChecked => tune) /\ (~txMem => \A k \in Keys : chosen[k] = None)
  /\ ~strayed => NoFullPower /\ ChoicesNoted /\ Written /\ BackInPlace
=============================================================================
