---------------------------- MODULE FanoDecoder -----------------------------
(* The sequential decoder of WSPR (src/lib/wsprd/fano.c) on a short code:    *)
(* the path grows while its metric stays above a threshold t, backs up to    *)
(* the other branch of a node when it does not, and the threshold is relaxed *)
(* where there is no way back.                                               *)
EXTENDS Integers, FiniteSets

CONSTANTS
  nbits,           \* data bits and the tail of zeros
  TailBits,            \* length of the tail, one less than the length of the code
  POLY1, POLY2,    \* taps of the two polynomials: distances back from the newest bit
  mettab,          \* what a sent bit is worth for a received symbol
  delta,           \* step of the threshold
  maxcycles,       \* timeout, in cycles for each bit
  MaxErrors        \* bound: symbols spoilt on the way
FanoAssumption == /\ TailBits \in 1..nbits /\ delta \in Nat \ {0} /\ 0 \in POLY1 \cap POLY2
                  /\ POLY1 \cup POLY2 \subseteq 0..TailBits

VARIABLES
  sent,       \* history: the bits sent
  symbols,    \* two for each bit: 0, 1, or 2 where nothing was received
  np,         \* current node, from 0; nbits once the path is complete
  encstate,   \* bit of each node on the path
  gamma,      \* cumulative metric up to each node
  tm,         \* of each node, the metrics of its branches, better first
  branch,     \* np->i: which of them is being tested
  t, i,       \* threshold, cycles
  ret         \* what fano returns: "" while it runs, "ok", "timeout"
vars == <<sent, symbols, np, encstate, gamma, tm, branch, t, i, ret>>

Nodes == 0..(nbits - 1)
tail == nbits - TailBits

\* encode: the two symbols of node n on the path of bits e.
ENCODE(e, n) ==
  LET Parity(poly) == Cardinality({j \in poly : j <= n /\ e[n - j] = 1}) % 2
  IN <<Parity(POLY1), Parity(POLY2)>>
encode(e) == [s \in 0..(2 * nbits - 1) |-> ENCODE(e, s \div 2)[(s % 2) + 1]]
Metric(n, sym) ==
  mettab[sym[1] + 1][symbols[2 * n] + 1] + mettab[sym[2] + 1][symbols[2 * n + 1] + 1]

\* The branches of a node that has just been reached; there is one only in the tail.
Branches(e, n) ==
  LET m0 == Metric(n, ENCODE([e EXCEPT ![n] = 0], n))
      m1 == Metric(n, ENCODE([e EXCEPT ![n] = 1], n))
  IN CASE n >= tail -> [bit |-> 0, tm |-> <<m0, m0>>]
       [] n < tail /\ m0 > m1 -> [bit |-> 0, tm |-> <<m0, m1>>]
       [] n < tail /\ m0 <= m1 -> [bit |-> 1, tm |-> <<m1, m0>>]

Zero == [n \in Nodes |-> 0]
Flip(s, x) == [s EXCEPT ![x] = 1 - @]
Init ==
  /\ sent \in {e \in [Nodes -> 0..1] : \A n \in Nodes : n >= tail => e[n] = 0}
  /\ \E bad \in [1..MaxErrors -> (0..(2 * nbits - 1)) \X {"none", "flipped", "lost"}] :
       symbols = [x \in 0..(2 * nbits - 1) |->
                    CASE <<x, "lost">> \in {bad[k] : k \in 1..MaxErrors} -> 2
                      [] <<x, "lost">> \notin {bad[k] : k \in 1..MaxErrors}
                         /\ <<x, "flipped">> \in {bad[k] : k \in 1..MaxErrors} -> 1 - encode(sent)[x]
                      [] OTHER -> encode(sent)[x]]
  /\ np = 0 /\ branch = Zero /\ gamma = Zero /\ t = 0 /\ i = 1 /\ ret = ""
  /\ LET first == Branches(Zero, 0)
     IN encstate = [Zero EXCEPT ![0] = first.bit] /\ tm = [n \in Nodes |-> first.tm]

ngamma == gamma[np] + tm[np][branch[np] + 1]
\* One more cycle, unless they are used up; the path may be complete in the last one.
Count == i' = i + 1 /\ ret' = IF i = maxcycles * nbits THEN "timeout" ELSE ""
Finished == np' = nbits /\ ret' = (IF i >= maxcycles * nbits THEN "timeout" ELSE "ok") /\ i' = i

Forward ==
  /\ ret = "" /\ ngamma >= t
  /\ t' = IF gamma[np] < t + delta THEN t + (delta * ((ngamma - t) \div delta)) ELSE t
  /\ IF np = nbits - 1
     THEN Finished /\ UNCHANGED <<encstate, gamma, tm, branch>>
     ELSE LET next == Branches(encstate, np + 1) IN
          /\ Count /\ np' = np + 1
          /\ gamma' = [gamma EXCEPT ![np + 1] = ngamma]
          /\ encstate' = [encstate EXCEPT ![np + 1] = next.bit]
          /\ tm' = [tm EXCEPT ![np + 1] = next.tm]
          /\ branch' = [branch EXCEPT ![np + 1] = 0]
  /\ UNCHANGED <<sent, symbols>>

\* Look backward from np: to the last node with a branch left, unless the way there is
\* barred by a node before which the metric was below the threshold.
Barred(n) == n = 0 \/ gamma[n - 1] < t
Left(n) == n < np /\ n < tail /\ branch[n] = 0
Stop == CHOOSE n \in 0..np : (Left(n) \/ Barred(n)) /\ \A x \in (n + 1)..np : ~(Left(x) \/ Barred(x))
Backward ==
  /\ ret = "" /\ ngamma < t /\ Left(Stop)
  /\ np' = Stop /\ branch' = [branch EXCEPT ![Stop] = 1] /\ encstate' = Flip(encstate, Stop)
  /\ Count /\ UNCHANGED <<sent, symbols, gamma, tm, t>>
Relax ==
  /\ ret = "" /\ ngamma < t /\ ~Left(Stop)
  /\ np' = Stop /\ t' = t - delta
  /\ branch' = [branch EXCEPT ![Stop] = 0]
  /\ encstate' = IF branch[Stop] = 1 THEN Flip(encstate, Stop) ELSE encstate
  /\ Count /\ UNCHANGED <<sent, symbols, gamma, tm>>

Next == Forward \/ Backward \/ Relax
Spec == Init /\ [][Next]_vars

----------------------------------------------------------------------------
\* The metric of the current node is that of the path the encoder's states describe, however
\* often the search backed up and took other branches.
MetricTrue ==
  LET Sum[n \in 0..nbits] ==
        IF n = 0 THEN 0 ELSE Sum[n - 1] + Metric(n - 1, ENCODE(encstate, n - 1))
  IN np < nbits => gamma[np] = Sum[np]
\* With few symbols spoilt the decoder finds what was sent, in time.
FewErrors == ret # "" => ret = "ok" /\ encstate = sent
=============================================================================
