---------------------------- MODULE TxSchedule -----------------------------
(***************************************************************************)
(* The schedule of WSPR transmissions, WsprTxScheduler.cpp: a table of      *)
(* Rows x Cols intervals (6 x 10: two hours) drawn at random by             *)
(* create_tx_schedule for a percentage of transmissions, and looked up once *)
(* per interval by next_tx_state.  rand() is a free choice, the steps of    *)
(* the construction are steps here.  100 % is decided by next_is_tx without *)
(* the table.  What the caller does with the answer is in WsprHopping.      *)
(***************************************************************************)
EXTENDS Integers, Sequences, FiniteSets, FiniteSetsExt

CONSTANTS
  Rows, Cols,    \* the size of the table
  Gaps,          \* the gaps tx_add_one looks for, the largest first
  MaxRounds,     \* the 100 rounds after which backfilling gives up
  Pcts,          \* the percentages the operator may choose
  MaxChanges     \* bound: changes of the percentage

Size == Rows * Cols
Cells == 0 .. Size - 1

SizeAssumption ==
  /\ Rows \in Nat \ {0} /\ Cols \in Nat \ {0} /\ Size > 3
  /\ MaxRounds \in Nat /\ MaxChanges \in Nat
  /\ Pcts \subseteq 0 .. 99
  /\ Gaps \in Seq(3 .. Size - 1) /\ \E n \in DOMAIN Gaps : Gaps[n] = 3

VARIABLES
  tx,            \* the table, tx[i][j] at cell Cols * i + j
  tableOf,       \* tx_table_pctx; -1 with tx_table_2hr_slot before the first table
  cell,          \* the interval asked about next
  fresh,         \* its two hours have no table yet
  pctx,          \* m_tx_percent
  stage, at, round,  \* progress of create_tx_schedule
  count,         \* nrun of tx_trim, or how many transmissions are still to be added
  run,           \* history: transmissions in a row up to the last answer
  pure,          \* history: the percentage has not changed since the run began
  changes

build == <<stage, at, round, count>>
vars == <<tx, tableOf, cell, fresh, pctx, build, run, pure, changes>>

Empty == [c \in Cells |-> 0]

Init ==
  /\ tx = Empty /\ tableOf = -1 /\ cell \in Cells /\ fresh = TRUE /\ pctx \in Pcts
  /\ stage = "ready" /\ at = 0 /\ round = 0 /\ count = 0 /\ run = 0
  /\ pure = TRUE /\ changes = 0

----------------------------------------------------------------------------
needed(p) == (Size * p + 50) \div 100

\* The receive intervals K1JT's algorithm may put before a transmission.
nrx(p) == {(10000 - 200 * p + 3 * k * p) \div (100 * p) : k \in 0 .. 99}

ntxlim(p) == IF p < 50 THEN 1 ELSE IF p < 60 THEN 2 ELSE 3
ntxbandmin(p) == IF p < 33 THEN 1 ELSE IF p < 50 THEN 2 ELSE IF p < 60 THEN 3 ELSE 4

tx_sum(t) == Cardinality({c \in Cells : t[c] = 1})
bsum(t, j) == Cardinality({i \in 0 .. Rows - 1 : t[Cols * i + j] = 1})

\* tx_add_to_band: ten tries to hit a free interval of the band.
tx_add_to_band(t, j) ==
  LET band == {Cols * i + j : i \in 0 .. Rows - 1}
      free == {c \in band : t[c] = 0}
  IN {[t EXCEPT ![c] = 1] : c \in free} \cup (IF free = band THEN {} ELSE {t})

\* Where a gap of g receive intervals begins, but for the last g of the table.
GapAt(t, g) == {c \in 0 .. Size - g - 1 : \A k \in 0 .. g - 1 : t[c + k] = 0}

tx_add_one(t) ==
  LET wide == {n \in DOMAIN Gaps : GapAt(t, Gaps[n]) # {}}
      g == Gaps[Min(wide)]
  IN IF wide # {} THEN [t EXCEPT ![Min(GapAt(t, g)) + g \div 2] = 1]
     ELSE IF t[Size - 2] = 0 /\ t[Size - 1] = 0 THEN [t EXCEPT ![Size - 1] = 1]
     ELSE t

----------------------------------------------------------------------------
(* create_tx_schedule *)

Go(s, a, r, n) == stage' = s /\ at' = a /\ round' = r /\ count' = n
Asked == UNCHANGED <<cell, fresh, pctx, run, pure, changes>>

Create ==
  /\ stage = "ready" /\ (fresh \/ tableOf # pctx)
  /\ tx' = Empty /\ tableOf' = pctx
  /\ fresh' = FALSE
  /\ CASE pctx = 0 -> Go("answer", 0, 0, 0)
       [] pctx \in 1 .. 25 -> Go("sparse", 0, 0, 0)
       [] OTHER -> Go("fill", 0, 0, 0)
  /\ UNCHANGED <<cell, pctx, run, pure, changes>>

\* Up to 25 %: a random number of receptions before each transmission.
Sparse ==
  /\ stage = "sparse"
  /\ \E n \in nrx(pctx) :
       IF at + n + 1 < Size
       THEN tx' = [tx EXCEPT ![at + n + 1] = 1] /\ Go("sparse", at + n + 1, 0, 0)
       ELSE tx' = tx /\ Go("answer", 0, 0, 0)
  /\ UNCHANGED tableOf /\ Asked

\* Above: ntxbandmin transmissions for each of the bands ...
Fill ==
  /\ stage = "fill"
  /\ tx' \in tx_add_to_band(tx, at % Cols)
  /\ IF at + 1 < Cols * ntxbandmin(pctx) THEN Go("fill", at + 1, 0, 0) ELSE Go("trim", 0, 0, 0)
  /\ UNCHANGED tableOf /\ Asked

\* ... no more than ntxlim in a row, and none in the first interval ...
Kept(c) == IF c = 0 THEN 0 ELSE tx[c]
\* Mutant: the transmissions allowed are counted from 0.
TooMany_more == count > ntxlim(pctx)
TooMany == count + 1 > ntxlim(pctx)
Missing(t, j) == ntxbandmin(pctx) - bsum(t, j)

Trim ==
  LET cleared == Kept(at) = 0 \/ TooMany
      nrun == IF cleared THEN 0 ELSE count + 1
  IN /\ stage = "trim"
     /\ tx' = [tx EXCEPT ![at] = IF cleared THEN 0 ELSE 1]
     /\ IF at + 1 < Size THEN Go("trim", at + 1, round, nrun)
        ELSE IF round < MaxRounds /\ \E j \in 0 .. Cols - 1 : Missing(tx', j) > 0
        THEN Go("backfill", 0, round, Missing(tx', 0))
        ELSE Go("top up", 0, 0, needed(pctx) - tx_sum(tx'))
     /\ UNCHANGED tableOf /\ Asked

\* ... and again for the bands whose transmissions were trimmed.
Backfill ==
  /\ stage = "backfill"
  /\ IF count > 0 THEN tx' \in tx_add_to_band(tx, at) /\ Go("backfill", at, round, count - 1)
     ELSE /\ tx' = tx
          /\ IF at + 1 < Cols THEN Go("backfill", at + 1, round, Missing(tx, at + 1))
             ELSE Go("trim", 0, round + 1, 0)
  /\ UNCHANGED tableOf /\ Asked

\* Single transmissions are added until there are as many as asked for.
TopUp ==
  /\ stage = "top up"
  /\ IF count > 0 THEN tx' = tx_add_one(tx) /\ Go("top up", 0, 0, count - 1)
     ELSE tx' = tx /\ Go("answer", 0, 0, 0)
  /\ UNCHANGED tableOf /\ Asked

----------------------------------------------------------------------------
\* next_tx_state answers for the next interval.
Known == \/ stage = "answer"
         \/ stage = "ready" /\ ~fresh /\ tableOf = pctx

next_tx_state ==
  /\ Known
  /\ run' = IF tx[cell] = 1 THEN run + 1 ELSE 0
  /\ pure' = (tx[cell] = 0 \/ pure)
  /\ cell' = (cell + 1) % Size /\ fresh' = (cell + 1 = Size)
  /\ Go("ready", 0, 0, 0)
  /\ UNCHANGED <<tx, tableOf, pctx, changes>>

set_tx_percent ==
  /\ stage = "ready" /\ changes < MaxChanges /\ changes' = changes + 1
  /\ \E p \in Pcts \ {pctx} : pctx' = p
  /\ pure' = (run = 0)
  /\ UNCHANGED <<tx, tableOf, cell, fresh, build, run>>

Next == \/ Create \/ Sparse \/ Fill \/ Trim \/ Backfill \/ TopUp
        \/ next_tx_state \/ set_tx_percent

Spec == Init /\ [][Next]_vars

----------------------------------------------------------------------------
(* Properties *)

TypeOK ==
  /\ tx \in [Cells -> {0, 1}] /\ tableOf \in Pcts \cup {-1} /\ pctx \in Pcts
  /\ cell \in Cells /\ at \in Nat /\ round \in 0 .. MaxRounds /\ count \in Int
  /\ run \in Nat

\* No more than ntxlim transmissions in a row, across the end of a table too,
\* unless the percentage was changed since the first of them.
NotInARow ==
  pure => run <= ntxlim(tableOf)

\* A table above 25 % has the transmissions asked for, or no room for one
\* that would stand alone.
ShareKept ==
  stage = "answer" /\ tableOf > 25 =>
    \/ tx_sum(tx) >= needed(tableOf)
    \/ ~ \E c \in 0 .. Size - 3 : tx[c] = 0 /\ tx[c + 1] = 0 /\ tx[c + 2] = 0
=============================================================================
