------------------------------ MODULE ModeMenu ------------------------------
(***************************************************************************)
(* What entering a mode leaves behind: the period of the window, of the     *)
(* detector and of the modulator, the Tx mode, the submode and the fast     *)
(* flags, through any sequence of modes, of the controls for VHF, of new    *)
(* settings and of restarts.                                                *)
(***************************************************************************)
EXTENDS Integers

CONSTANTS Menu,     \* the modes that the menu offers
          Saved,    \* the modes that the settings file may name
          Vhf,      \* values of enable_VHF_features
          MaxOps
MenuAssumption == Menu \subseteq Saved /\ Vhf \subseteq BOOLEAN /\ MaxOps \in Nat

VARIABLES
  m,        \* the window: [mode, modeTx, sub, subMax, tr, period, fastPeriod, nsps, fast,
            \*   fast9, shown, txOn, simplex], the tick box for fast JT9 and the box of the
            \*   period [on9, set9, box9], and the periods of the detector and of the
            \*   modulator [det, mod]
  file,     \* the settings file: [mode, modeTx, sub, tr, fast, fast9]
  vhf, ops,
  legacy    \* history: started in a mode that the menu does not offer, or with VHF features
vars == <<m, file, vhf, ops, legacy>>

Slow == 6912   \* samples of a symbol in the modes that are not fast
Seconds(tr) == CASE tr = 11 -> 5 [] tr = 12 -> 10 [] tr = 13 -> 15 [] OTHER -> 30
Clamped(tr) == IF tr < 11 THEN 11 ELSE IF tr > 14 THEN 14 ELSE tr

----------------------------------------------------------------------------
(* The handlers, as functions of the window.                                *)
Timed(w, p) == [w EXCEPT !.period = p, !.det = p, !.mod = p]

\* on_sbTR_valueChanged
SetTR(w, n) ==
  LET k == Clamped(n)
      p == IF w.fast THEN Seconds(k) ELSE w.period
  IN IF k = w.box9 THEN w
     ELSE Timed([w EXCEPT !.box9 = k, !.tr = k,
                          !.fastPeriod = IF w.fast THEN p ELSE @], p)

\* fast_config
Fast(w, b) ==
  LET t == [w EXCEPT !.fast = b, !.txOn = ~b]
  IN IF b /\ (t.fast9 \/ t.mode \in {"JTMSK", "ISCAT"}) THEN SetTR(t, t.tr) ELSE t

\* on_pbTxMode_clicked
Flip(w) == [w EXCEPT !.modeTx = IF @ = "JT9" THEN "JT65" ELSE "JT9"]
Until(w, tx) == IF w.modeTx # tx THEN Flip(w) ELSE w

JT9(w) ==
  LET t == [w EXCEPT !.mode = "JT9", !.on9 = FALSE, !.set9 = FALSE, !.fast9 = FALSE,
                     !.fast = FALSE, !.simplex = FALSE, !.nsps = Slow]
  IN Timed(Until(t, "JT9"), 60)

\* on_cbFast9_clicked
ClickFast9(w, b) ==
  LET t == IF w.mode = "JT9" THEN JT9([w EXCEPT !.fast9 = b]) ELSE w
      p == IF ~b THEN 60 ELSE IF t.fastPeriod > 0 THEN t.fastPeriod ELSE t.period
  IN Fast([t EXCEPT !.period = p], b)

\* on_sbSubmode_valueChanged, QSpinBox::setMaximum
SetSub(w, n) ==
  LET t == [w EXCEPT !.sub = n]
  IN IF n = w.sub THEN w
     ELSE IF w.mode # "JT9" THEN t
     ELSE IF n >= 4 THEN [t EXCEPT !.on9 = TRUE]
     ELSE LET c == ClickFast9([t EXCEPT !.set9 = FALSE], FALSE)
          IN [c EXCEPT !.on9 = FALSE, !.period = 60]
SubMax(w, n) == LET t == [w EXCEPT !.subMax = n] IN IF w.sub > n THEN SetSub(t, n) ELSE t

T10(w) == Timed([w EXCEPT !.mode = "T10", !.simplex = FALSE, !.modeTx = "T10", !.nsps = Slow], 60)

NoVhf(w) == SetTR(SetSub(w, 0), 0)
JT65(w) ==
  LET f == IF w.mode \in {"T10", "WSPR-2", "WSPR-15"} THEN Flip([w EXCEPT !.modeTx = "JT9"]) ELSE w
      t == Timed(Until([f EXCEPT !.mode = "JT65", !.simplex = FALSE, !.nsps = Slow], "JT65"), 60)
      c == SubMax(Fast([t EXCEPT !.fast9 = FALSE, !.shown = vhf], FALSE), 2)
  IN IF vhf THEN c ELSE NoVhf(c)

Both(w) ==
  LET t == Timed([w EXCEPT !.mode = "JT9+JT65", !.simplex = FALSE, !.modeTx = "JT65",
                           !.nsps = Slow, !.fast9 = FALSE, !.shown = FALSE], 60)
  IN [NoVhf(Fast([t EXCEPT !.fast = FALSE], FALSE)) EXCEPT !.sub = 0]

JT4(w) ==
  LET t == Timed([w EXCEPT !.mode = "JT4", !.simplex = FALSE, !.modeTx = "JT4",
                           !.nsps = Slow, !.fast9 = FALSE, !.shown = vhf], 60)
      c == SubMax(Fast(t, FALSE), 6)
  IN IF vhf THEN c ELSE NoVhf(c)

WSPR(w) ==
  Fast(Timed([w EXCEPT !.mode = "WSPR-2", !.simplex = TRUE, !.modeTx = "WSPR-2",
                       !.nsps = Slow, !.fast9 = FALSE], 120), FALSE)

Echo(w) ==
  LET t == Timed([JT4(w) EXCEPT !.mode = "Echo", !.modeTx = "Echo", !.fast9 = FALSE,
                                !.shown = FALSE], 3)
  IN Fast(t, FALSE)

ISCAT(w) ==
  LET t == Timed([w EXCEPT !.mode = "ISCAT", !.modeTx = "ISCAT"], Seconds(w.box9))
      c == Fast([t EXCEPT !.nsps = Slow, !.simplex = FALSE, !.shown = TRUE], TRUE)
  IN [SubMax(c, 1) EXCEPT !.txOn = FALSE]

JTMSK(w) ==
  LET t == Fast([w EXCEPT !.mode = "JTMSK", !.modeTx = "JTMSK", !.simplex = FALSE, !.nsps = 6,
                          !.shown = TRUE, !.fast9 = TRUE, !.fast = TRUE], TRUE)
  IN Timed(t, Seconds(t.box9))

Enter(w, x) ==
  CASE x = "JT9" -> JT9(w) [] x = "T10" -> T10(w) [] x = "JT65" -> JT65(w) [] x = "JT9+JT65" -> Both(w)
    [] x = "JT4" -> JT4(w) [] x = "WSPR-2" -> WSPR(w) [] x = "Echo" -> Echo(w)
    [] x = "ISCAT" -> ISCAT(w) [] x = "JTMSK" -> JTMSK(w) [] OTHER -> w

\* readSettings and the end of the constructor
Controls(x) == vhf /\ x \in {"JT4", "JT65", "ISCAT", "JT9", "JTMSK", "T10"}
Started(f) ==
  LET w == [mode |-> f.mode, modeTx |-> f.modeTx, sub |-> f.sub, subMax |-> 7, tr |-> f.tr,
            period |-> 60, fastPeriod |-> 0, nsps |-> Slow, fast |-> f.fast \/ f.fast9,
            fast9 |-> f.fast9, on9 |-> TRUE, set9 |-> f.fast9, box9 |-> 14,
            shown |-> Controls(f.mode), txOn |-> TRUE, simplex |-> FALSE, det |-> 60, mod |-> 60]
      e == Enter(w, f.mode)
      t == SetTR(e, e.tr)
  IN [t EXCEPT !.mod = t.period, !.period = IF t.fast THEN Seconds(t.tr) ELSE @]

Fresh == [mode |-> "JT9+JT65", modeTx |-> "JT65", sub |-> 0, tr |-> 4, fast |-> FALSE, fast9 |-> FALSE]
Files == {Fresh} \cup {[Fresh EXCEPT !.mode = x, !.modeTx = x] : x \in Saved \ {Fresh.mode}}

Init ==
  /\ vhf \in Vhf /\ file \in Files /\ ops = 0
  /\ m = Started(file)
  /\ legacy = (vhf \/ file.mode \notin Menu)

Op == ops < MaxOps /\ ops' = ops + 1 /\ UNCHANGED <<file, vhf, legacy>>
ChooseMode(x) == Op /\ m' = Enter(m, x)
\* The spin boxes and the tick box for VHF, where they are visible
SpinSubmode(n) == Op /\ m.shown /\ n <= m.subMax /\ m' = SetSub(m, n)
SpinTR(n) == Op /\ m.shown /\ m.fast /\ m' = SetTR(m, n)
TickFast9 == /\ Op /\ m.shown /\ m.mode = "JT9" /\ m.on9
             /\ m' = ClickFast9([m EXCEPT !.set9 = ~@], ~m.set9)
ClickTxMode == Op /\ m.mode = "JT9+JT65" /\ m' = Flip(m)
\* on_actionSettings_triggered
NewSettings == Op /\ m' = [m EXCEPT !.shown = Controls(m.mode)]
\* closeEvent, writeSettings; a new start
Restart ==
  /\ ops < MaxOps /\ ops' = ops + 1
  /\ file' = [mode |-> m.mode, modeTx |-> m.modeTx, sub |-> m.sub, tr |-> m.tr, fast |-> m.fast,
              fast9 |-> m.fast9]
  /\ m' = Started(file') /\ UNCHANGED <<vhf, legacy>>

Next ==
  \/ \E x \in Menu : ChooseMode(x)
  \/ \E n \in {0, 1, 4} : SpinSubmode(n)
  \/ \E n \in {11, 13} : SpinTR(n)
  \/ TickFast9 \/ ClickTxMode \/ NewSettings \/ Restart
Spec == Init /\ [][Next]_vars

----------------------------------------------------------------------------
\* transmit: what is sent, the mode and how many times the tone spacing of submode A
Sent ==
  CASE m.mode = "JT9+JT65" -> <<m.modeTx, m.sub>>
    [] m.modeTx \in {"JT65", "JT9", "JT4"} -> <<m.modeTx, m.sub>>
    [] m.modeTx = "T10" -> <<"T10", 0>> [] OTHER -> <<m.mode, 0>>

\* However a mode was reached, the window, the detector and the modulator agree on the
\* period.
PeriodsAgree == ~legacy => m.det = m.period /\ m.mod = m.period

\* However a mode was reached, what is transmitted is a signal of that mode, in its plain
\* submode, and Tx offset and split operation are those of the mode; unless a settings
\* file of an older version started the program in a mode that the menu no longer offers,
\* or with the features for VHF.
SignalTrue ==
  ~legacy => /\ IF m.mode = "JT9+JT65" THEN Sent \in {<<"JT9", 0>>, <<"JT65", 0>>} ELSE Sent = <<m.mode, 0>>
             /\ m.txOn /\ ~m.fast /\ (m.simplex <=> m.mode = "WSPR-2") /\ m.nsps = Slow
----------------------------------------------------------------------------
\* Why (proved in StationProofs): every mode of the menu leaves a plain window, from
\* which the others are entered.
Windows ==
  [mode : Saved, modeTx : Saved, sub : Int, subMax : Int, tr : Int, period : Int,
   fastPeriod : Int, nsps : Int, fast : BOOLEAN, fast9 : BOOLEAN, on9 : BOOLEAN, set9 : BOOLEAN,
   box9 : Int, shown : BOOLEAN, txOn : BOOLEAN, simplex : BOOLEAN, det : Int, mod : Int]
Plain(w) ==
  /\ w \in Windows
  /\ w.sub = 0 /\ ~w.fast /\ ~w.fast9 /\ ~w.shown /\ w.txOn /\ w.nsps = Slow
  /\ w.modeTx \in {"JT9", "JT65"} \/ w.modeTx = w.mode
InMode(w, x) ==
  /\ Plain(w) /\ w.mode = x /\ (w.simplex <=> x = "WSPR-2")
  /\ w.modeTx \in IF x = "JT9+JT65" THEN {"JT9", "JT65"} ELSE {x}
  /\ w.det = w.period /\ w.mod = w.period
MenuInv == legacy \in BOOLEAN /\ (~legacy => vhf = FALSE /\ m.mode \in Menu /\ InMode(m, m.mode))
=============================================================================
