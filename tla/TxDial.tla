------------------------------- MODULE TxDial -------------------------------
(***************************************************************************)
(* The frequency transmitted: the dial of the rig, its transmit dial in     *)
(* split operation, the tone of the sound card and the two offsets shown,   *)
(* as the operator clicks, locks, changes the band and the mode and         *)
(* transmits.  Unit: 250 Hz.                                                *)
(***************************************************************************)
EXTENDS Integers, Sequences

CONSTANTS List,                    \* the frequencies: sequence of [f, mode]
          Typed,                   \* frequencies the operator types or turns to
          Offsets,                 \* offsets the operator types or clicks
          StartFreq, Span,         \* the waterfall: nStartFreq, fSpan
          Fmin, Top65,             \* JT9 above Fmin, JT65 below ntopfreq65
          LastUsed,                \* monitor_last_used
          MaxOps
Tones == {"JT9", "JT65", "T10", "WSPR"}
Frequencies == {f \in Nat : f > 20}   \* above the offsets: a dial is not within 5 kHz of 0
DialAssumption == /\ List \in Seq([f : Frequencies, mode : Tones]) /\ Typed \subseteq Frequencies
                  /\ Offsets \subseteq 1..20 /\ StartFreq \in Nat /\ Span \in Nat /\ Fmin \in Nat
                  /\ Top65 \in Nat /\ LastUsed \in BOOLEAN /\ MaxOps \in Nat
Dual == "JT9+JT65"

VARIABLES
  w,         \* the window and the rig: [mode, modeTx, oldmode, nominal, tx, rx, lock, xit, simplex,
             \*   monitoring, transmitting, split, qsy, last, wspr, txOn, rxOn], the dial of the
             \*   rig, its transmit dial (rigTx, 0 in simplex operation), the tone of the modulator
  ops,
  heard,     \* history: the monitor was on when the transmission started
  deferred   \* history: the band was changed while transmitting
vars == <<w, ops, heard, deferred>>

Band(f) == f \div 200
Clamped(n) == IF n < 1 THEN 1 ELSE IF n > 20 THEN 20 ELSE n

----------------------------------------------------------------------------
(* What the handlers do to a window t.                                      *)
\* FrequencyList::best_working_frequency on the rows that the filter lets through
Best(m, f) ==
  LET ok == {i \in 1..Len(List) : List[i].mode \in {m, "any"} /\ Band(List[i].f) = Band(f)}
  IN IF ok = {} THEN 0 ELSE List[CHOOSE i \in ok : \A j \in ok : i <= j].f

\* setXIT, in dual mode: the Tx mode follows the transmit offset.
Flipped(m) == IF m = "JT9" THEN "JT65" ELSE "JT9"
Crossed(t, n) ==
  LET low == IF Fmin <= Top65 THEN Fmin ELSE Top65
      high == IF Fmin <= Top65 THEN Top65 ELSE Fmin
  IN t.mode = Dual /\ (IF t.modeTx = "JT65" THEN n >= high ELSE n <= low)

\* The shift of split operation that brings an offset to the middle of the audio
Shift(n) == (n \div 2) * 2 - 6
\* Mutant: the shift of the last transmission in split operation is left in force.
XIT_kept(t, n) ==
  LET x == IF ~t.simplex /\ t.split THEN Shift(n) ELSE t.xit
      told == ~t.simplex /\ t.split /\ (t.monitoring \/ t.transmitting)
  IN IF t.transmitting /\ ~t.qsy THEN t
     ELSE [t EXCEPT !.xit = x, !.tone = t.tx - x, !.rigTx = IF told THEN t.nominal + x ELSE @,
                    !.modeTx = IF Crossed(t, n) THEN Flipped(@) ELSE @,
                    !.rx = IF Crossed(t, n) /\ t.rxOn THEN t.tx ELSE @]
\* setXIT, the rest: the rig is told only while monitoring or transmitting.
XIT(t, n) ==
  LET x == IF ~t.simplex /\ t.split THEN Shift(n) ELSE 0
      told == ~t.simplex /\ t.split /\ (t.monitoring \/ t.transmitting)
  IN IF t.transmitting /\ ~t.qsy THEN t
     ELSE [t EXCEPT !.xit = x, !.tone = t.tx - x, !.rigTx = IF told THEN t.nominal + x ELSE @,
                    !.modeTx = IF Crossed(t, n) THEN Flipped(@) ELSE @,
                    !.rx = IF Crossed(t, n) /\ t.rxOn THEN t.tx ELSE @]

\* on_TxFreqSpinBox_valueChanged, on_RxFreqSpinBox_valueChanged and what they call of the
\* waterfall: with the lock, each offset follows the other.
SetTx(t, n) ==
  LET c == Clamped(n)
      v == XIT([t EXCEPT !.tx = c, !.rx = IF t.lock THEN c ELSE @], c)
  IN IF c = t.tx THEN t ELSE [v EXCEPT !.tone = c - v.xit]
SetRx(t, n) ==
  LET c == Clamped(n)
      v == [t EXCEPT !.rx = c]
  IN IF c = t.rx THEN t ELSE IF ~t.lock THEN v
     ELSE IF t.txOn THEN SetTx(XIT(v, c), c) ELSE XIT(v, c)

\* setRig
SetRig(t) ==
  IF (t.transmitting /\ ~t.qsy) \/ ~(t.monitoring \/ t.transmitting) THEN t
  ELSE IF t.transmitting /\ t.split THEN [t EXCEPT !.rigTx = t.nominal]
  ELSE [t EXCEPT !.dial = t.nominal]

\* band_changed: outside the waterfall Enable Tx is cleared, else the offsets move along.
Blind(t, f) == f + StartFreq > t.nominal + t.tx \/ f + StartFreq + Span <= t.nominal + t.tx
Shifts(t, f) == t.mode # "WSPR" /\ ~Blind(t, f) /\ t.oldmode # "T10"
BandTo(t, f) ==
  LET d == f - t.nominal
      a == IF Shifts(t, f) THEN SetRx(t, t.rx - d) ELSE t
      b == IF Shifts(t, f) THEN SetTx(a, a.tx - d) ELSE t
      c == [b EXCEPT !.oldmode = b.mode, !.nominal = f, !.monitoring = @ \/ ~b.transmitting]
  IN XIT(SetRig(c), c.tx)

\* WSPR_config and switch_mode, with the Tx mode the handlers of the menu leave
Entered(m) == IF m = Dual THEN "JT65" ELSE m
Listed(m) == IF m = Dual THEN "JT65" ELSE m
ModeTo(t, m) ==
  LET a == [t EXCEPT !.mode = m, !.simplex = (m = "WSPR"), !.rigTx = IF m = "WSPR" THEN 0 ELSE @]
      f == Best(Listed(m), a.nominal)
      b == IF f = 0 THEN a ELSE BandTo(a, f)
      c == [b EXCEPT !.modeTx = Entered(m), !.txOn = @ \/ m \in {"JT65", Dual, "WSPR"}]
  IN IF m = "WSPR" THEN SetTx(c, c.wspr) ELSE c

\* The waterfall: the left button sets the receive offset, the right one the transmit
\* offset, Ctrl or the lock both (CPlotter::mousePressEvent, setFreq4, setRxFreq4).
RxClicked(t, n) ==
  LET r == [t EXCEPT !.modeTx = Flipped(@)]
      moved == IF t.txOn THEN SetTx(r, r.rx) ELSE r
      between == Top65 < n /\ n < Fmin
  IN IF t.mode # Dual \/ t.transmitting \/ t.lock THEN t
     ELSE IF Crossed(t, n) THEN moved
     ELSE IF between THEN SetRx(t, IF t.modeTx = "JT65" THEN Top65 ELSE Fmin) ELSE t
Clicked(t, n, left, ctrl) ==
  LET rx == IF left \/ t.lock THEN n ELSE t.rx
      tx == IF ctrl \/ t.lock \/ ~left THEN n ELSE t.tx
      a == IF t.rxOn THEN SetRx(t, rx) ELSE t
      b == IF t.mode = "WSPR" THEN [a EXCEPT !.wspr = tx, !.tx = tx, !.tone = tx - a.xit]
           ELSE IF a.txOn THEN SetTx(a, tx) ELSE a
  IN IF left /\ ~t.lock THEN RxClicked(b, n) ELSE b

\* processMessage, for a line of mode m and offset n that was double-clicked
Answered(t, n, m, ctrl) ==
  LET dual == t.mode = Dual /\ ~t.transmitting
      moves == t.lock \/ ctrl \/ (t.mode = Dual /\ m # t.modeTx)
      a == IF dual THEN [t EXCEPT !.modeTx = m] ELSE t
      b == IF moves THEN SetTx(a, n) ELSE a
  IN IF (~dual /\ m # t.modeTx) \/ (moves /\ ~t.txOn) THEN a
     ELSE IF b.rxOn THEN SetRx(b, n) ELSE b

----------------------------------------------------------------------------
Init ==
  \E i \in 1..Len(List), l, sp, q \in BOOLEAN :
    LET m == IF List[i].mode = "JT65" THEN Dual ELSE List[i].mode
    IN /\ w = [mode |-> m, modeTx |-> Entered(m), oldmode |-> m, nominal |-> List[i].f, tx |-> 6,
               rx |-> 6, lock |-> l, xit |-> 0, simplex |-> m = "WSPR", monitoring |-> TRUE,
               transmitting |-> FALSE, split |-> sp, qsy |-> q, last |-> List[i].f, wspr |-> 6,
               txOn |-> TRUE, rxOn |-> TRUE, dial |-> List[i].f,
               rigTx |-> IF sp /\ m # "WSPR" THEN List[i].f ELSE 0, tone |-> 6]
       /\ ops = 0 /\ heard = TRUE /\ deferred = FALSE

Op == ops < MaxOps /\ ops' = ops + 1
Still == UNCHANGED <<heard, deferred>>

TypeTx(n) == Op /\ w.txOn /\ w' = SetTx(w, n) /\ Still
TypeRx(n) == Op /\ w.rxOn /\ w' = SetRx(w, n) /\ Still
Click(n, left, ctrl) == Op /\ w' = Clicked(w, n, left, ctrl) /\ Still
\* doubleClickOnCall, doubleClickOnCall2
DoubleClick(n, m, ctrl) == Op /\ w.mode # "WSPR" /\ w' = Answered(w, n, m, ctrl) /\ Still
\* on_cbTxLock_clicked, on_pbR2T_clicked, on_pbT2R_clicked
Lock ==
  LET t == [w EXCEPT !.lock = ~@]
  IN /\ Op /\ (w.txOn \/ ~w.transmitting)
     /\ w' = (IF ~w.lock /\ w.txOn THEN SetTx(t, w.rx) ELSE t) /\ Still
R2T == Op /\ w.txOn /\ w' = SetTx(w, w.rx) /\ Still
T2R == Op /\ w.rxOn /\ w' = SetRx(w, w.tx) /\ Still
\* on_pbTxMode_clicked
TxMode == Op /\ w.mode = Dual /\ ~w.transmitting /\ w' = [w EXCEPT !.modeTx = Flipped(@)] /\ Still

\* on_bandComboBox_activated, or a frequency typed there
ChangeBand(f) ==
  /\ Op /\ w' = BandTo(w, f) /\ deferred' = (w.transmitting \/ (deferred /\ w.simplex))
  /\ UNCHANGED heard
\* The mode menu, disabled while transmitting
ChangeMode(m) == Op /\ ~w.transmitting /\ m # w.mode /\ w' = ModeTo(w, m) /\ Still

\* on_monitorButton_clicked
Monitor ==
  LET t == [w EXCEPT !.monitoring = ~@]
      back == [t EXCEPT !.nominal = w.last]
  IN /\ Op /\ ~w.transmitting
     /\ w' = (IF ~w.monitoring /\ LastUsed THEN XIT(SetRig(back), w.tx) ELSE t) /\ Still

\* guiUpdate: PTT, then the message (transmit, transmitDisplay)
StartTx ==
  LET t == XIT(SetRig(w), w.tx)
      allowed == w.qsy \/ ~w.split
  IN /\ Op /\ ~w.transmitting /\ heard' = w.monitoring
     /\ w' = [t EXCEPT !.transmitting = TRUE, !.monitoring = FALSE, !.txOn = allowed,
                       !.rxOn = IF w.lock THEN allowed ELSE @,
                       !.tone = IF w.mode = "WSPR" THEN w.tx ELSE w.tx - t.xit]
     /\ deferred' = (deferred /\ (w.simplex \/ ~w.monitoring))
\* stopTx
EndTx ==
  /\ w.transmitting
  /\ w' = [w EXCEPT !.transmitting = FALSE, !.monitoring = TRUE, !.txOn = TRUE,
                    !.rxOn = IF w.lock THEN TRUE ELSE @]
  /\ UNCHANGED <<ops, heard, deferred>>

\* on_actionSettings_triggered: split operation and QSY while transmitting; the rig is
\* opened again, in simplex.
Settings(sp, q) ==
  /\ Op /\ ~w.transmitting
  /\ w' = XIT([w EXCEPT !.split = sp, !.qsy = q, !.rigTx = 0], w.tx) /\ Still

\* handle_transceiver_update: the operator turns the dial of the rig.
Turn(f) ==
  /\ Op /\ ~w.transmitting /\ f # w.dial
  /\ w' = [w EXCEPT !.dial = f, !.nominal = f, !.last = IF w.monitoring THEN f ELSE @]
  /\ deferred' = (deferred /\ w.simplex) /\ UNCHANGED heard

Next ==
  \/ \E n \in Offsets : \/ TypeTx(n) \/ TypeRx(n)
                        \/ \E left, ctrl \in BOOLEAN : Click(n, left, ctrl)
                        \/ \E m \in {"JT9", "JT65"}, ctrl \in BOOLEAN : DoubleClick(n, m, ctrl)
  \/ Lock \/ R2T \/ T2R \/ TxMode
  \/ \E i \in 1..Len(List) : ChangeBand(List[i].f)
  \/ \E f \in Typed : ChangeBand(f) \/ Turn(f)
  \/ \E i \in 1..Len(List) : ChangeMode(List[i].mode)
  \/ ChangeMode(Dual) \/ Monitor \/ StartTx \/ EndTx
  \/ \E sp, q \in BOOLEAN : Settings(sp, q)
Spec == Init /\ [][Next]_vars

----------------------------------------------------------------------------
\* Whatever was clicked, locked or changed, and however the modes were entered and left:
\* what goes on the air is at the offset shown, in simplex as in split operation; unless
\* the transmission started with the monitor off (setXIT computes the offset and does not
\* tell the rig) or the band was changed while transmitting (which in WSPR leaves the rig
\* in split operation for good).
OnTheAir == (IF w.rigTx # 0 THEN w.rigTx ELSE w.dial) + w.tone
RfTrue == w.transmitting /\ heard /\ ~deferred => OnTheAir = w.nominal + w.tx

\* In split operation the tone stays in the middle of the audio, where its harmonics
\* are outside the passband.
ToneCentred ==
  w.transmitting /\ heard /\ ~deferred /\ w.split /\ ~w.simplex => w.tone \in 6..7

\* While the monitor is on the rig listens on the frequency shown, unless the band was
\* changed while transmitting.
DialTrue == w.monitoring /\ ~deferred => w.dial = w.nominal

\* A step to a nearby frequency (JT65 to JT9, say) keeps the frequency on the air: band
\* changes move the offset by as much as the dial; unless the lock is on, when the offset
\* moves twice, or it would leave the range of the box.
Near(t, f) == Shifts(t, f) /\ ~t.lock /\ t.tx - (f - t.nominal) \in 1..20
OnAirKept == w'.nominal + w'.tx = w.nominal + w.tx
NearStep == w'.nominal # w.nominal =>
  /\ \A i \in 1..Len(List) : ChangeBand(List[i].f) /\ Near(w, List[i].f) => OnAirKept
  /\ \A i \in 1..Len(List) :
       LET m == List[i].mode
       IN ChangeMode(m) /\ m # "WSPR" /\ Near([w EXCEPT !.mode = m], Best(m, w.nominal)) => OnAirKept
NearKept == [][NearStep]_vars
----------------------------------------------------------------------------
\* Why (proved in StationProofs): the dial follows the frequency shown, the transmit dial
\* is set in split operation only, and while a transmission lasts the shift, the transmit
\* dial and the tone go together, since the offsets that move them can be changed only
\* where the rig is told.
Places == 1..20
Windows ==
  [mode : Tones \cup {Dual}, modeTx : Tones, oldmode : Tones \cup {Dual}, nominal : Frequencies,
   tx : Places, rx : Places, lock : BOOLEAN, xit : Int, simplex : BOOLEAN, monitoring : BOOLEAN,
   transmitting : BOOLEAN, split : BOOLEAN, qsy : BOOLEAN, last : Frequencies, wspr : Places,
   txOn : BOOLEAN, rxOn : BOOLEAN, dial : Int, rigTx : Int, tone : Int]
Together(t) ==
  /\ t.tone = t.tx - t.xit
  /\ IF ~t.simplex /\ t.split THEN t.xit = Shift(t.tx) /\ t.rigTx = t.nominal + t.xit
     ELSE t.xit = 0 /\ t.rigTx = 0
DialInv ==
  /\ w \in Windows /\ ops \in Nat /\ heard \in BOOLEAN /\ deferred \in BOOLEAN
  /\ w.simplex <=> w.mode = "WSPR"
  /\ ~w.split => w.rigTx = 0
  /\ w.transmitting => (w.txOn <=> w.qsy \/ ~w.split)
  /\ ~deferred => w.dial = w.nominal /\ (w.simplex => w.rigTx = 0)
  /\ w.transmitting /\ heard /\ ~deferred => Together(w)
=============================================================================
