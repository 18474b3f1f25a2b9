------------------------------ MODULE QsoProofs ------------------------------
(***************************************************************************)
(* QsoEarned and NotCalledOver for every number of acts of the operators,   *)
(* of lost messages and of foreign lines.                                   *)
(*                                                                          *)
(* What is on the air was chosen earlier, by a line, a button or a timer,   *)
(* and may have been composed before or after the DX call changed.  The     *)
(* invariant therefore speaks of three things at once: the message that is  *)
(* chosen (the tab's text, written by genStdMsgs for a DX call that may be  *)
(* gone), the one that is being sent, and the 73 that a timer will send to  *)
(* whoever is in the DX call then.  Each is earned (Earned) and, unless a   *)
(* stop is due, spares those who answered another (Spares).                 *)
(*                                                                          *)
(* Most of the program leaves the message alone: those operations are calm  *)
(* (Calm, Still73), and a calm step keeps both.  The others are             *)
(* processMessage (Answered), the 73 of the timer and the start of a        *)
(* transmission, which begins a new QSO.                                    *)
(***************************************************************************)
EXTENDS QsoSequencer, FiniteSetTheorems, TLAPS

\* A program is the record of its fields; the provers see the fields one by one.
Shape(p) == p \in
  [me : {p.me}, auto : {p.auto}, dx : {p.dx}, old : {p.old}, ntx : {p.ntx}, gen : {p.gen},
   std : {p.std}, rpt : {p.rpt}, prog : {p.prog}, progTX : {p.progTX}, hist : {p.hist},
   replied : {p.replied}, first : {p.first}, mine : {p.mine}, nonstd : {p.nonstd},
   halted : {p.halted}, left : {p.left}, nCQ : {p.nCQ}, nRCQ : {p.nRCQ}, cur : {p.cur},
   msg0 : {p.msg0}, rep : {p.rep}, sent73 : {p.sent73}, sent : {p.sent}, rcvd : {p.rcvd},
   tx : {p.tx}, restart : {p.restart}, tune : {p.tune}, cq : {p.cq}, off : {p.off},
   tx73 : {p.tx73}, log : {p.log}, clear : {p.clear}]

\* DX calls, messages that can be sent and lines the decoder writes
Some == Calls \cup {NoCall}
Rpt == {"RPT", "RRPT"}
Messages ==
  {m \in [from : Some, to : Some \cup {"CQ"}, kind : Kinds, rpt : AllReports \cup {0}] :
     /\ m.kind # "NONE" => m.from \in Calls
     /\ m.kind \in {"GRID", "RPT", "RRPT", "RR73", "73"} => m.to \in Calls
     /\ m.kind \in Rpt => m.rpt \in AllReports}
Lines ==
  {l \in [from : Calls, to : Some \cup {"CQ"}, kind : Kinds, rpt : AllReports \cup {0}, snr : AllReports] :
     l.kind \in Rpt => l.rpt \in AllReports}

\* What the next transmission sends
Chosen(p) == Text(p, p.ntx)

\* The fields the argument is about; messages to a DX call carry a report.
Formed(p, s) ==
  /\ Shape(p) /\ p.me = s
  /\ p.dx \in Some /\ p.ntx \in 1..7
  /\ p.std \in [to : Some, rpt : AllReports \cup {0}] /\ (p.std.to # NoCall => p.std.rpt \in AllReports)
  /\ p.gen \in Messages /\ p.cur \in Messages
Typed(p, s) == Formed(p, s) /\ (p.dx # NoCall => p.rpt \in AllReports)

\* m may be sent, given the reports heard and the calls signed off with.  Earned: that holds of
\* what is chosen and what is on the air; a 73 that is due, or will be after free text, may go to
\* the DX call.
Rightful(m, h, R) ==
  /\ m.kind = "RR73" => h[m.to] # 0
  /\ m.kind = "73" => m.to \in R
Earned(p, h, R, Rog) ==
  /\ Rightful(Chosen(p), h, R)
  /\ p.tx => Rightful(p.cur, h, R)
  /\ p.tx73 => p.dx \in R \cup {NoCall}
  /\ p.nonstd => Calls \subseteq Rog

\* m calls nobody of G.  Spares: nothing chosen or on the air does, unless a stop is due.
Spared(m, G) == m.kind \in {"GRID", "RPT"} => m.to \notin G
Spares(p, G) ==
  p.tune \/ /\ p.auto \/ p.tx => Spared(Chosen(p), G)
            /\ p.tx => Spared(p.cur, G)

\* The inductive invariant
Types ==
  /\ phase \in {"begin", "tx", "rx"} /\ odd \in BOOLEAN
  /\ DOMAIN st = Station
  /\ todo \in [Station -> [busy : BOOLEAN, lines : SUBSET Lines]]
  /\ seen \in [Station -> SUBSET Lines]
  /\ heard \in [Station -> [Calls -> AllReports \cup {0}]]
  /\ rogered \in [Station -> SUBSET Some] /\ swayed \in [Station -> SUBSET Some]
  /\ gone \in [Station -> SUBSET Some]

Fair(s) ==
  /\ Typed(st[s], s)
  /\ Earned(st[s], heard[s], rogered[s] \cup swayed[s], rogered[s])
  /\ Spares(st[s], gone[s])
IInv == Types /\ \A s \in Station : Fair(s)

-----------------------------------------------------------------------------
\* q is p except for the history, counts and timers; Same: also with the 73 that is due.
Near(p, q) ==
  /\ Shape(q) /\ q.me = p.me /\ q.auto = p.auto /\ q.dx = p.dx /\ q.ntx = p.ntx /\ q.gen = p.gen
  /\ q.std = p.std /\ q.rpt = p.rpt /\ q.cur = p.cur /\ q.tx = p.tx
Same(p, q) == Near(p, q) /\ q.tune = p.tune /\ q.tx73 = p.tx73 /\ q.nonstd = p.nonstd

\* From p to q no message is chosen but CQ, Auto is not switched on, and a stop that is due is
\* still due or has been made.  Still73: no 73 has become due, except for free text.
Calm(p, q) ==
  /\ Chosen(q) = Chosen(p) \/ Chosen(q).kind \in {"CQ", "NONE"}
  /\ q.tx => (p.tx \/ p.auto) /\ (q.cur = Chosen(p) \/ (p.tx /\ q.cur = p.cur))
  /\ q.dx \in {p.dx, NoCall}
  /\ q.auto => p.auto
  /\ p.tune => q.tune \/ (~q.auto /\ ~q.tx)
Still73(p, q) == (q.tx73 => p.tx73 \/ p.nonstd) /\ (q.nonstd => p.nonstd)

\* The chosen message depends on the fields that Near compares.
LEMMA NearTyped ==
  ASSUME NEW s, NEW p, NEW q, Typed(p, s), Near(p, q)
  PROVE  Typed(q, s) /\ Chosen(q) = Chosen(p)
BY DEF Typed, Formed, Near, Chosen, Text, CQ

\* The kinds that the program composes are kinds.
LEMMA KindsGiven ==
  /\ "CQ" \in Kinds /\ "GRID" \in Kinds /\ "RPT" \in Kinds /\ "RRPT" \in Kinds /\ "RR73" \in Kinds
  /\ "73" \in Kinds /\ "NONE" \in Kinds
BY DEF Kinds

\* When a composed message is one that can be sent.
LEMMA MsgTyped ==
  ASSUME NEW f \in Some, NEW t \in Some \cup {"CQ"}, NEW k \in Kinds, NEW r \in AllReports \cup {0},
         k # "NONE" => f \in Calls, k \in {"GRID", "RPT", "RRPT", "RR73", "73"} => t \in Calls,
         k \in Rpt => r \in AllReports
  PROVE  Msg(f, t, k, r) \in Messages
BY DEF Msg, Messages

\* ... and the empty message is one.
LEMMA NoMsgTyped == NoMsg \in Messages
<1>1. NoCall \in Some BY DEF Some
<1>2. "NONE" \notin Rpt BY DEF Rpt
<1>3. 0 \in AllReports \cup {0} OBVIOUS
<1> QED BY <1>1, <1>2, <1>3, KindsGiven, MsgTyped DEF NoMsg

\* The text of every tab is a message that can be sent.
LEMMA TextTyped ==
  ASSUME NEW s \in Station, NEW p, Formed(p, s), NEW n \in 1..7
  PROVE  Text(p, n) \in Messages
<1>1. s \in Calls /\ s \in Some BY DEF Calls, Some
<1>2. 0 \in AllReports \cup {0} /\ "CQ" \in Some \cup {"CQ"} OBVIOUS
<1>3. CASE n = 6
  <2>1. Text(p, n) = Msg(s, "CQ", "CQ", 0) BY <1>3 DEF Text, CQ, Formed
  <2>2. "CQ" \notin Rpt BY DEF Rpt
  <2> QED BY <2>1, <2>2, <1>1, <1>2, KindsGiven, MsgTyped
<1>4. CASE n = 7 BY <1>4 DEF Text, Formed
<1>5. CASE n < 6 /\ p.std.to = NoCall
  <2>1. Text(p, n) = NoMsg BY <1>5 DEF Text
  <2> QED BY <2>1, NoMsgTyped
<1>6. CASE n < 6 /\ p.std.to # NoCall
  <2>1. p.std.to \in Calls /\ p.std.to \in Some /\ p.std.rpt \in AllReports /\ p.me = s
    BY <1>6 DEF Formed, Some
  <2>2. Text(p, n) \in {Msg(s, p.std.to, "GRID", 0), Msg(s, p.std.to, "RPT", p.std.rpt),
                        Msg(s, p.std.to, "RRPT", p.std.rpt), Msg(s, p.std.to, "RR73", 0),
                        Msg(s, p.std.to, "73", 0)}
    BY <1>6, <2>1 DEF Text
  <2>3. "GRID" \notin Rpt /\ "RR73" \notin Rpt /\ "73" \notin Rpt BY DEF Rpt
  <2>4. p.std.to \in Some \cup {"CQ"} /\ p.std.rpt \in AllReports \cup {0} BY <2>1
  <2>5. Msg(s, p.std.to, "GRID", 0) \in Messages /\ Msg(s, p.std.to, "RR73", 0) \in Messages
         /\ Msg(s, p.std.to, "73", 0) \in Messages
    BY <2>1, <2>3, <2>4, <1>1, <1>2, KindsGiven, MsgTyped
  <2>6. Msg(s, p.std.to, "RPT", p.std.rpt) \in Messages /\ Msg(s, p.std.to, "RRPT", p.std.rpt) \in Messages
    BY <2>1, <2>4, <1>1, KindsGiven, MsgTyped
  <2> QED BY <2>2, <2>5, <2>6
<1> QED BY <1>3, <1>4, <1>5, <1>6

\* genStdMsgs: tx1 to tx5 go to the DX call.
LEMMA StdTyped ==
  ASSUME NEW s \in Station, NEW p, Formed(p, s), NEW r, p.dx # NoCall => r \in AllReports
  PROVE  LET q == genStdMsgs(p, r) IN
         /\ Typed(q, s) /\ q.std.to = p.dx /\ q.dx = p.dx /\ (p.dx # NoCall => q.std.rpt = r)
         /\ q.me = p.me /\ q.auto = p.auto /\ q.cur = p.cur /\ q.tx = p.tx
         /\ q.tune = p.tune /\ q.tx73 = p.tx73 /\ q.nonstd = p.nonstd
<1> DEFINE q == genStdMsgs(p, r)
<1>1. Shape(p) BY DEF Formed
<1>2. Shape(q) BY <1>1 DEF Shape, genStdMsgs
<1>3. /\ q.me = p.me /\ q.auto = p.auto /\ q.cur = p.cur /\ q.tx = p.tx /\ q.dx = p.dx
      /\ q.tune = p.tune /\ q.tx73 = p.tx73 /\ q.nonstd = p.nonstd
  BY <1>1 DEF Shape, genStdMsgs
<1>4. CASE p.dx = NoCall
  <2>1. /\ q.std = [to |-> NoCall, rpt |-> 0] /\ q.gen = NoMsg /\ q.ntx = p.ntx /\ q.rpt = p.rpt
    BY <1>1, <1>4 DEF Shape, genStdMsgs
  <2>2. q.std \in [to : Some, rpt : AllReports \cup {0}] /\ q.std.to = NoCall BY <2>1 DEF Some
  <2> QED BY <1>2, <1>3, <1>4, <2>1, <2>2, NoMsgTyped DEF Typed, Formed
<1>5. CASE p.dx # NoCall
  <2>1. /\ q.std = [to |-> p.dx, rpt |-> r] /\ q.gen = p.gen /\ q.ntx = 1 /\ q.rpt = r
    BY <1>1, <1>5 DEF Shape, genStdMsgs
  <2>2. p.dx \in Some /\ r \in AllReports BY <1>5 DEF Formed
  <2>3. q.std \in [to : Some, rpt : AllReports \cup {0}] /\ q.std.to = p.dx /\ q.std.rpt = r BY <2>1, <2>2
  <2> QED BY <1>2, <1>3, <1>5, <2>1, <2>2, <2>3 DEF Typed, Formed
<1> QED BY <1>4, <1>5

\* A change of the DX call alone leaves the messages as they were.
LEMMA DXTyped ==
  ASSUME NEW s \in Station, NEW p, Formed(p, s), NEW c \in Some
  PROVE  LET q == SetDX(p, c) IN
         /\ Formed(q, s) /\ q.dx = c /\ Chosen(q) = Chosen(p) /\ q.rpt = p.rpt
         /\ q.me = p.me /\ q.auto = p.auto /\ q.cur = p.cur /\ q.tx = p.tx
         /\ q.tune = p.tune /\ q.tx73 = p.tx73 /\ q.nonstd = p.nonstd
<1> DEFINE q == SetDX(p, c)
<1>1. Shape(p) BY DEF Formed
<1>2. /\ Shape(q) /\ q.dx = c /\ q.rpt = p.rpt /\ q.std = p.std /\ q.gen = p.gen /\ q.ntx = p.ntx
      /\ q.me = p.me /\ q.auto = p.auto /\ q.cur = p.cur /\ q.tx = p.tx
      /\ q.tune = p.tune /\ q.tx73 = p.tx73 /\ q.nonstd = p.nonstd
  BY <1>1 DEF Shape, SetDX
<1>3. Chosen(q) = Chosen(p) BY <1>2 DEF Chosen, Text, CQ
<1> QED BY <1>2, <1>3 DEF Formed

\* Choosing Tx n chooses the text of tab n, also for a station that shows tab 2.
LEMMA ChooseTyped ==
  ASSUME NEW s \in Station, NEW p, Typed(p, s), NEW n \in 1..6
  PROVE  LET q == Choose(p, n) IN
         /\ Typed(q, s) /\ Chosen(q) = Text(p, n) /\ q.dx = p.dx
         /\ q.me = p.me /\ q.auto = p.auto /\ q.cur = p.cur /\ q.tx = p.tx
         /\ q.tune = p.tune /\ q.tx73 = p.tx73 /\ q.nonstd = p.nonstd
<1> DEFINE q == Choose(p, n)
           r == [p EXCEPT !.prog = Progress[n], !.ntx = n]
<1>1. Shape(p) BY DEF Typed, Formed
<1>2. /\ Shape(r) /\ r.gen = p.gen /\ r.ntx = n /\ r.std = p.std /\ r.me = p.me
  BY <1>1 DEF Shape
<1>3. Text(r, n) = Text(p, n) BY <1>2 DEF Text, CQ
<1>4. /\ Shape(q) /\ q.dx = p.dx /\ q.rpt = p.rpt /\ q.std = p.std
      /\ q.me = p.me /\ q.auto = p.auto /\ q.cur = p.cur /\ q.tx = p.tx
      /\ q.tune = p.tune /\ q.tx73 = p.tx73 /\ q.nonstd = p.nonstd
      /\ q.ntx \in {7, n} /\ (q.ntx = 7 => q.gen = Text(r, n)) /\ (q.ntx = n => q.gen = p.gen)
  <2> HIDE DEF r
  <2>1. q = IF p.me \in Tab2 THEN [r EXCEPT !.ntx = 7, !.gen = Text(r, n)] ELSE r BY DEF Choose, r
  <2>2. /\ r.dx = p.dx /\ r.rpt = p.rpt /\ r.auto = p.auto /\ r.cur = p.cur /\ r.tx = p.tx
        /\ r.tune = p.tune /\ r.tx73 = p.tx73 /\ r.nonstd = p.nonstd
    BY <1>1 DEF Shape, r
  <2>3. n # 7 OBVIOUS
  <2>4. CASE p.me \in Tab2
    <3>1. q = [r EXCEPT !.ntx = 7, !.gen = Text(r, n)] BY <2>1, <2>4
    <3> HIDE DEF q
    <3> QED BY <1>2, <2>2, <2>3, <3>1 DEF Shape
  <2>5. CASE p.me \notin Tab2
    <3>1. q = r BY <2>1, <2>5
    <3> HIDE DEF q
    <3> QED BY <1>2, <2>2, <2>3, <3>1
  <2> QED BY <2>4, <2>5
<1>5. Text(p, n) \in Messages BY TextTyped DEF Typed
<1>6. q.ntx \in 1..7 /\ q.gen \in Messages BY <1>3, <1>4, <1>5 DEF Typed, Formed
<1>7. Chosen(q) = Text(p, n) BY <1>3, <1>4 DEF Chosen, Text, CQ
<1> QED BY <1>4, <1>6, <1>7 DEF Typed, Formed

\* processMessage takes one report for another only.
LEMMA CorrectedKinds ==
  ASSUME NEW p, NEW l, NEW k, k = Corrected(p, l)
  PROVE  (k = l.kind) \/ (k \in Rpt /\ l.kind \in Rpt)
BY DEF Corrected, Rpt

\* RR73 answers a report and 73 answers RR73 or 73, both sent to me.
LEMMA ResponseKinds ==
  ASSUME NEW p, NEW l, NEW k, k = Corrected(p, l)
  PROVE  LET n == Response(p, l, k) IN
         /\ n \in 1..5
         /\ n = 4 => l.to = p.me /\ l.kind \in Rpt
         /\ n = 5 => l.to = p.me /\ Is73(l)
<1>1. (k = l.kind) \/ (k \in Rpt /\ l.kind \in Rpt) BY CorrectedKinds
<1>2. CASE ~ToMe(p, l) BY <1>2 DEF Response
<1>3. CASE ToMe(p, l)
  <2>1. Response(p, l, k) = Answer(p, k) BY <1>3 DEF Response
  <2>2. CASE k \in {"RR73", "73"} BY <1>1, <1>3, <2>1, <2>2 DEF Answer, ToMe, Is73, Rpt
  <2>3. CASE k = "RRPT" BY <1>1, <1>3, <2>1, <2>3 DEF Answer, ToMe, Rpt
  <2>4. CASE k \notin {"RR73", "73", "RRPT"} BY <1>1, <1>3, <2>1, <2>4 DEF Answer
  <2> QED BY <2>2, <2>3, <2>4
<1> QED BY <1>2, <1>3

\* What processMessage chooses goes to the sender of the line; it is RR73 only after a
\* report and 73 only after RR73 or 73.
LEMMA ProcessTyped ==
  ASSUME NEW s \in Station, NEW p, Typed(p, s), NEW l \in Lines, Standard(l)
  PROVE  LET q == processMessage(p, l) IN
         /\ Typed(q, s) /\ q.dx = l.from /\ q.cur = p.cur /\ q.tx = p.tx
         /\ q.tune = p.tune /\ q.tx73 = p.tx73 /\ q.nonstd = p.nonstd
         /\ Chosen(q).to = l.from
         /\ Chosen(q).kind = "RR73" => l.to = s /\ l.kind \in Rpt
         /\ Chosen(q).kind = "73" => l.to = s /\ Is73(l)
<1> DEFINE k == Corrected(p, l)
           n == Response(p, l, k)
           u == SetDX(p, l.from)
           v == genStdMsgs(u, l.snr)
           w == Choose(v, n)
           q == processMessage(p, l)
<1>1. l.from \in Some /\ l.from # NoCall /\ l.snr \in AllReports
  BY QsoAssumption DEF Lines, Some, Calls
<1>2. Formed(u, s) /\ u.dx = l.from /\ u.cur = p.cur /\ u.tx = p.tx
      /\ u.tune = p.tune /\ u.tx73 = p.tx73 /\ u.nonstd = p.nonstd
  BY <1>1, DXTyped DEF Typed
<1>3. Typed(v, s) /\ v.dx = l.from /\ v.std.to = l.from /\ v.cur = p.cur /\ v.tx = p.tx
      /\ v.tune = p.tune /\ v.tx73 = p.tx73 /\ v.nonstd = p.nonstd
  BY <1>1, <1>2, StdTyped
<1>4. n \in 1..5 /\ n \in 1..6 BY ResponseKinds
<1>5. Typed(w, s) /\ Chosen(w) = Text(v, n) /\ w.dx = l.from /\ w.cur = p.cur /\ w.tx = p.tx
      /\ w.tune = p.tune /\ w.tx73 = p.tx73 /\ w.nonstd = p.nonstd
  <2> HIDE DEF v, n
  <2> QED BY <1>3, <1>4, ChooseTyped
<1>6. q = [w EXCEPT !.rcvd = IF ToMe(p, l) /\ k \in {"RPT", "RRPT"} THEN l.rpt ELSE @,
                    !.restart = @ \/ p.tx, !.auto = @ \/ QuickCall]
  BY DEF processMessage, Partnered
<1>7. Shape(q) /\ q.dx = w.dx /\ q.cur = w.cur /\ q.tx = w.tx /\ q.tune = w.tune
      /\ q.tx73 = w.tx73 /\ q.nonstd = w.nonstd /\ q.me = w.me /\ q.std = w.std /\ q.gen = w.gen
      /\ q.ntx = w.ntx /\ q.rpt = w.rpt
  <2>1. Shape(w) BY <1>5 DEF Typed, Formed
  <2> DEFINE a == IF ToMe(p, l) /\ k \in {"RPT", "RRPT"} THEN l.rpt ELSE w.rcvd
             b == w.restart \/ p.tx
             c == w.auto \/ QuickCall
  <2>2. q = [w EXCEPT !.rcvd = a, !.restart = b, !.auto = c] BY <1>6
  <2> HIDE DEF w, q, a, b, c
  <2> QED BY <2>1, <2>2 DEF Shape
<1>8. Typed(q, s) /\ Chosen(q) = Text(v, n)
  <2> HIDE DEF w, v, n, q
  <2> QED BY <1>5, <1>7 DEF Typed, Formed, Chosen, Text, CQ
<1>9. Text(v, n).to = l.from
  <2> HIDE DEF v, n
  <2> QED BY <1>1, <1>3, <1>4 DEF Text, Msg
<1>10. (Text(v, n).kind = "RR73" => n = 4) /\ (Text(v, n).kind = "73" => n = 5)
  <2> HIDE DEF v, n
  <2> QED BY <1>1, <1>3, <1>4 DEF Text, Msg
<1>11. p.me = s BY DEF Typed, Formed
<1>12. (n = 4 => l.to = p.me /\ l.kind \in Rpt) /\ (n = 5 => l.to = p.me /\ Is73(l)) BY ResponseKinds
<1> QED
  <2> HIDE DEF v, n, w
  <2> QED BY <1>5, <1>7, <1>8, <1>9, <1>10, <1>11, <1>12

-----------------------------------------------------------------------------
\* A calm step starts no call to a station that is to be spared.
LEMMA CalmSpares ==
  ASSUME NEW p, NEW q, NEW G, Spares(p, G), Calm(p, q)
  PROVE  Spares(q, G)
BY DEF Spares, Calm, Spared

\* ... and sends nothing that is not earned.
LEMMA CalmEarned ==
  ASSUME NEW p, NEW q, NEW h, NEW R, NEW Rog, Rog \subseteq R, p.dx \in Some,
         Earned(p, h, R, Rog), Calm(p, q), Still73(p, q)
  PROVE  Earned(q, h, R, Rog)
BY DEF Earned, Calm, Still73, Rightful, Some

\* A step that leaves message, DX call and Auto alone is calm.
LEMMA NearCalm ==
  ASSUME NEW s, NEW p, NEW q, Typed(p, s), Near(p, q), p.tune => q.tune
  PROVE  Typed(q, s) /\ Calm(p, q)
<1>1. Typed(q, s) /\ Chosen(q) = Chosen(p) BY NearTyped
<1> QED BY <1>1 DEF Near, Calm

\* What leaves message, DX call, Auto and the 73 that is due alone.
LEMMA SameOps ==
  ASSUME NEW p, Shape(p), NEW l, NEW when
  PROVE  /\ Same(p, Due(p)) /\ Same(p, EachSecond(p)) /\ Same(p, DecodeFinished(p))
         /\ Same(p, RptRcvd(p, l)) /\ Same(p, Record(p, l)) /\ Same(p, Count(p, l))
         /\ Same(p, StartClear(p, when)) /\ Same(p, LogQSO(p)) /\ Same(p, Unanswered(p))
         /\ Same(p, [p EXCEPT !.first = TRUE]) /\ Same(p, [p EXCEPT !.log = FALSE])
         /\ Same(p, [p EXCEPT !.sent73 = FALSE]) /\ Same(p, [p EXCEPT !.clear = "off"])
         /\ Same(p, [p EXCEPT !.cq = FALSE]) /\ Same(p, [p EXCEPT !.off = FALSE])
<1> USE DEF Same, Near
<1>1. Same(p, Due(p)) BY DEF Due, Shape
<1>2. Same(p, EachSecond(p)) BY DEF EachSecond, Shape
<1>3. Same(p, DecodeFinished(p)) BY DEF DecodeFinished, Shape
<1>4. Same(p, RptRcvd(p, l)) BY DEF RptRcvd, Shape
<1>5. Same(p, Record(p, l)) BY DEF Record, Shape
<1>6. Same(p, Count(p, l)) BY DEF Count, Shape
<1>7. Same(p, StartClear(p, when)) BY DEF StartClear, Shape
<1>8. Same(p, LogQSO(p)) BY DEF LogQSO, StartClear, Shape
<1>9. Same(p, Unanswered(p)) BY DEF Unanswered, Shape
<1>10. Same(p, [p EXCEPT !.first = TRUE]) BY DEF Shape
<1>11. Same(p, [p EXCEPT !.log = FALSE]) BY DEF Shape
<1>12. Same(p, [p EXCEPT !.sent73 = FALSE]) BY DEF Shape
<1>13. Same(p, [p EXCEPT !.clear = "off"]) BY DEF Shape
<1>14. Same(p, [p EXCEPT !.cq = FALSE]) BY DEF Shape
<1>15. Same(p, [p EXCEPT !.off = FALSE]) BY DEF Shape
<1> QED
  <2> HIDE DEF Same
  <2> QED BY <1>1, <1>2, <1>3, <1>4, <1>5, <1>6, <1>7, <1>8, <1>9, <1>10, <1>11, <1>12, <1>13,
       <1>14, <1>15

\* Two such steps are one.
LEMMA SameTransitive ==
  ASSUME NEW p, NEW q, NEW r, Same(p, q), Same(q, r)
  PROVE  Same(p, r)
BY DEF Same, Near

\* A halt starts the timer of the stop and nothing else.
LEMMA HaltOps ==
  ASSUME NEW p, Shape(p), NEW when
  PROVE  LET q == HaltTx(p, when) IN
         Near(p, q) /\ q.tune /\ q.tx73 = p.tx73 /\ q.nonstd = p.nonstd
BY DEF HaltTx, StartClear, Shape, Near

\* Second 0 may make a 73 due, only after free text with 73.
LEMMA Second0Calm ==
  ASSUME NEW s, NEW p, Typed(p, s)
  PROVE  LET q == Second0(p) IN
         Near(p, q) /\ (p.tune => q.tune) /\ q.nonstd = p.nonstd /\ Still73(p, q)
<1> DEFINE a == EachSecond(p)
           free == /\ a.nonstd /\ a.progTX = "ROGER_REPORT" /\ Has(a.hist[1], NoCall, {"NONERCVD"})
                   /\ Has(a.hist[2], a.dx, {"RREPORTTXD"})
           b == [a EXCEPT !.tx73 = @ \/ free]
           c == Unanswered(b)
           d == NotHeard(c)
           e == IF Same73Again(d) THEN HaltTx(d, "soon") ELSE d
<1>1. Second0(p) = e BY DEF Second0
<1>2. Same(p, a) /\ Shape(a) BY SameOps DEF Typed, Formed, Same, Near
<1>3. free => p.nonstd BY <1>2 DEF Same
<1>4. Near(a, b) /\ b.tune = a.tune /\ b.nonstd = a.nonstd /\ (b.tx73 => a.tx73 \/ free)
  <2> HIDE DEF a, free
  <2> QED BY <1>2 DEF Near, Shape
<1>5. Same(b, c)
  <2> HIDE DEF b
  <2> QED BY <1>4, SameOps DEF Near
<1>6. Near(c, d) /\ (c.tune => d.tune) /\ d.tx73 = c.tx73 /\ d.nonstd = c.nonstd
  <2> HIDE DEF c
  <2>1. Shape(c) BY <1>5 DEF Same, Near
  <2> QED BY <2>1 DEF NotHeard, HaltTx, StartClear, Near, Shape
<1>7. Near(d, e) /\ (d.tune => e.tune) /\ e.tx73 = d.tx73 /\ e.nonstd = d.nonstd
  <2> HIDE DEF d
  <2>1. Shape(d) BY <1>6 DEF Near
  <2>2. Near(d, d) BY <2>1 DEF Near
  <2> QED BY <2>1, <2>2, HaltOps
<1> HIDE DEF a, b, c, d, e, free
<1> QED BY <1>1, <1>2, <1>3, <1>4, <1>5, <1>6, <1>7 DEF Near, Same, Still73

-----------------------------------------------------------------------------
\* What a choice of message leaves alone
Kept(p, q) == q.auto = p.auto /\ q.cur = p.cur /\ q.tx = p.tx /\ q.tune = p.tune
              /\ q.tx73 = p.tx73 /\ q.nonstd = p.nonstd

\* What is composed is the chosen message.
LEMMA ComposeOp ==
  ASSUME NEW s \in Station, NEW p, Typed(p, s)
  PROVE  LET q == Compose(p) IN
         /\ Typed(q, s) /\ Chosen(q) = Chosen(p) /\ q.cur = Chosen(p) /\ q.ntx = p.ntx
         /\ q.dx = p.dx /\ q.auto = p.auto /\ q.tx = p.tx /\ q.tune = p.tune
         /\ q.tx73 = p.tx73 /\ q.nonstd = p.nonstd
<1> DEFINE q == Compose(p)
           m == Text(p, p.ntx)
           firstOf == Is73(m) /\ (~Is73(p.cur) \/ ~Names(p.cur, p.dx))
           a == p.log \/ (firstOf /\ Autolog)
           b == p.off \/ (Is73(m) /\ DisableTxOn73)
           c == IF m.kind \in {"RPT", "RRPT"} THEN m.rpt ELSE p.sent
<1>1. m \in Messages BY TextTyped DEF Typed, Formed
<1>2. q = [p EXCEPT !.cur = m, !.sent73 = firstOf, !.restart = FALSE, !.log = a, !.off = b, !.sent = c]
  BY DEF Compose
<1>3. Shape(p) BY DEF Typed, Formed
<1>4. /\ Shape(q) /\ q.cur = m /\ q.ntx = p.ntx /\ q.gen = p.gen /\ q.std = p.std /\ q.me = p.me
      /\ q.dx = p.dx /\ q.rpt = p.rpt /\ q.auto = p.auto /\ q.tx = p.tx /\ q.tune = p.tune
      /\ q.tx73 = p.tx73 /\ q.nonstd = p.nonstd
  <2> HIDE DEF q, m, firstOf, a, b, c
  <2> QED BY <1>2, <1>3 DEF Shape
<1>5. Chosen(q) = m
  <2> HIDE DEF q
  <2> QED BY <1>4 DEF Chosen, Text, CQ
<1>6. Typed(q, s)
  <2> HIDE DEF q
  <2> QED BY <1>1, <1>4 DEF Typed, Formed
<1> QED BY <1>4, <1>5, <1>6 DEF Chosen

\* ... also at the start of a transmission, where CQ clears the DX call.
LEMMA StartOp ==
  ASSUME NEW s \in Station, NEW p, Typed(p, s)
  PROVE  LET q == StartTx(p) IN
         /\ Typed(q, s) /\ Chosen(q) = Chosen(p) /\ q.cur = Chosen(p) /\ q.tx
         /\ q.dx \in {p.dx, NoCall} /\ q.auto = p.auto /\ q.tune = p.tune
         /\ q.tx73 = p.tx73 /\ q.nonstd = p.nonstd
<1> DEFINE u == Compose(p)
           a == IF u.cur = p.msg0 THEN Upto(u.rep, Watchdog) ELSE 0
           b == IF p.ntx = 7 THEN u.prog ELSE Progress[p.ntx]
           r == [u EXCEPT !.tx = TRUE, !.msg0 = u.cur, !.rep = a, !.prog = b]
           q == StartTx(p)
<1>1. /\ Typed(u, s) /\ Chosen(u) = Chosen(p) /\ u.cur = Chosen(p)
      /\ u.dx = p.dx /\ u.auto = p.auto /\ u.tune = p.tune
      /\ u.tx73 = p.tx73 /\ u.nonstd = p.nonstd
  BY ComposeOp
<1>2. q = IF r.prog = "CALLING" THEN SetDX(r, NoCall) ELSE r BY DEF StartTx
<1>3. /\ Shape(r) /\ r.cur = u.cur /\ r.ntx = u.ntx /\ r.gen = u.gen /\ r.std = u.std /\ r.me = u.me
      /\ r.dx = u.dx /\ r.rpt = u.rpt /\ r.auto = u.auto /\ r.tx /\ r.tune = u.tune
      /\ r.tx73 = u.tx73 /\ r.nonstd = u.nonstd
  <2>1. Shape(u) BY <1>1 DEF Typed, Formed
  <2> HIDE DEF u, a, b
  <2> QED BY <2>1 DEF Shape
<1>4. Typed(r, s) /\ Chosen(r) = Chosen(u)
  <2> HIDE DEF r, u
  <2> QED BY <1>1, <1>3 DEF Typed, Formed, Chosen, Text, CQ
<1>5. CASE r.prog = "CALLING"
  <2>1. q = SetDX(r, NoCall) BY <1>2, <1>5
  <2>2. NoCall \in Some BY DEF Some
  <2>3. Formed(q, s) /\ q.dx = NoCall /\ Chosen(q) = Chosen(r) /\ Kept(r, q)
    <3> HIDE DEF r, q
    <3> QED BY <1>4, <2>1, <2>2, DXTyped DEF Typed, Kept
  <2> HIDE DEF r, u
  <2> QED BY <1>1, <1>3, <1>4, <2>3 DEF Typed, Kept
<1>6. CASE r.prog # "CALLING"
  <2>1. q = r BY <1>2, <1>6
  <2> HIDE DEF r, u
  <2> QED BY <1>1, <1>3, <1>4, <2>1
<1> QED BY <1>5, <1>6

\* genMsg with CQ.
LEMMA ToCQ ==
  ASSUME NEW s \in Station, NEW p, Typed(p, s)
  PROVE  LET q == [p EXCEPT !.gen = CQ(p), !.ntx = 7] IN
         Typed(q, s) /\ Chosen(q).kind = "CQ" /\ q.dx = p.dx /\ Kept(p, q)
<1> DEFINE m == Msg(s, "CQ", "CQ", 0)
           q == [p EXCEPT !.gen = m, !.ntx = 7]
<1>1. Shape(p) /\ p.me = s BY DEF Typed, Formed
<1>2. CQ(p) = m BY <1>1 DEF CQ
<1>3. "CQ" \in Some \cup {"CQ"} /\ "CQ" \notin Rpt /\ s \in Calls /\ s \in Some BY DEF Rpt, Calls, Some
<1>4. m \in Messages BY <1>3, KindsGiven, MsgTyped
<1>5. m.kind = "CQ" BY DEF Msg
<1>6. /\ Shape(q) /\ q.cur = p.cur /\ q.ntx = 7 /\ q.gen = m /\ q.std = p.std /\ q.me = p.me
      /\ q.dx = p.dx /\ q.rpt = p.rpt /\ q.auto = p.auto /\ q.tx = p.tx /\ q.tune = p.tune
      /\ q.tx73 = p.tx73 /\ q.nonstd = p.nonstd
  <2> HIDE DEF m
  <2> QED BY <1>1 DEF Shape
<1>7. Typed(q, s) /\ Chosen(q) = m
  <2> HIDE DEF q, m
  <2> QED BY <1>4, <1>6 DEF Typed, Formed, Chosen, Text
<1> QED
  <2> HIDE DEF q, m
  <2>1. q = [p EXCEPT !.gen = CQ(p), !.ntx = 7] BY <1>2 DEF q
  <2> QED BY <2>1, <1>5, <1>6, <1>7 DEF Kept

\* A button of the tabs chooses its text, written anew for the DX call.
LEMMA ButtonOp ==
  ASSUME NEW s \in Station, NEW p, Typed(p, s), NEW n \in 1..6
  PROVE  LET q == Button(p, n) IN
         /\ Typed(q, s) /\ Chosen(q) = Text(genStdMsgs(p, p.rpt), n) /\ q.dx = p.dx /\ Kept(p, q)
<1> DEFINE v == genStdMsgs(p, p.rpt)
           m == Text(v, n)
           q == [v EXCEPT !.gen = m, !.ntx = 7, !.prog = Progress[n], !.restart = p.tx]
<1>1. Formed(p, s) /\ (p.dx # NoCall => p.rpt \in AllReports) BY DEF Typed
<1>2. Typed(v, s) /\ v.dx = p.dx /\ Kept(p, v)
  BY <1>1, StdTyped DEF Kept
<1>3. m \in Messages
  <2> HIDE DEF v
  <2>1. n \in 1..7 OBVIOUS
  <2> QED BY <1>2, <2>1, TextTyped DEF Typed
<1>4. /\ Shape(q) /\ q.cur = v.cur /\ q.ntx = 7 /\ q.gen = m /\ q.std = v.std /\ q.me = v.me
      /\ q.dx = v.dx /\ q.rpt = v.rpt /\ q.auto = v.auto /\ q.tx = v.tx /\ q.tune = v.tune
      /\ q.tx73 = v.tx73 /\ q.nonstd = v.nonstd
  <2>1. Shape(v) BY <1>2 DEF Typed, Formed
  <2> HIDE DEF v, m
  <2> QED BY <2>1 DEF Shape
<1>5. Typed(q, s) /\ Chosen(q) = m
  <2> HIDE DEF q, m, v
  <2> QED BY <1>2, <1>3, <1>4 DEF Typed, Formed, Chosen, Text
<1>6. Button(p, n) = q BY DEF Button
<1>7. q.dx = p.dx /\ Kept(p, q)
  <2> HIDE DEF q, v
  <2> QED BY <1>2, <1>4 DEF Kept
<1> QED
  <2> HIDE DEF q
  <2> QED BY <1>5, <1>6, <1>7

\* Call CQ chooses CQ.
LEMMA CallCQOp ==
  ASSUME NEW s \in Station, NEW p, Typed(p, s)
  PROVE  LET q == CallCQ(p) IN
         /\ Typed(q, s) /\ Chosen(q).kind = "CQ" /\ q.dx = NoCall /\ Kept(p, q)
<1> DEFINE u == SetDX(p, NoCall)
           v == genStdMsgs(u, u.rpt)
<1>1. NoCall \in Some BY DEF Some
<1>2. Typed(u, s) /\ u.dx = NoCall /\ Kept(p, u) BY <1>1, DXTyped DEF Typed, Kept
<1>3. Text(v, 6).kind = "CQ" BY DEF Text, CQ, Msg
<1>4. CallCQ(p) = Button(u, 6) BY DEF CallCQ
<1>5. 6 \in 1..6 OBVIOUS
<1>6. LET q == Button(u, 6) IN
      Typed(q, s) /\ Chosen(q) = Text(v, 6) /\ q.dx = u.dx /\ Kept(u, q)
  <2> HIDE DEF u
  <2> QED BY <1>2, <1>5, ButtonOp DEF v
<1> HIDE DEF u, v
<1> QED BY <1>2, <1>3, <1>4, <1>6 DEF Kept

\* The 73 that was due goes to the DX call of now.
LEMMA Send73Op ==
  ASSUME NEW s \in Station, NEW p, Typed(p, s)
  PROVE  LET q == Send73(p) IN
         /\ Typed(q, s) /\ q.dx = p.dx /\ Kept(p, q)
         /\ \/ Chosen(q).kind = "NONE"
            \/ (Chosen(q).kind = "73" /\ Chosen(q).to = p.dx /\ p.dx # NoCall)
<1> DEFINE v == genStdMsgs(p, p.rpt)
<1>1. v.std.to = p.dx BY StdTyped DEF Typed
<1>4. LET q == Send73(p) IN
      Typed(q, s) /\ Chosen(q) = Text(v, 5) /\ q.dx = p.dx /\ Kept(p, q)
  <2>1. 5 \in 1..6 OBVIOUS
  <2> QED BY <2>1, ButtonOp DEF Send73
<1>2. CASE p.dx = NoCall
  <2>1. Text(v, 5) = NoMsg BY <1>1, <1>2 DEF Text
  <2>2. NoMsg.kind = "NONE" BY DEF NoMsg, Msg
  <2> HIDE DEF v
  <2> QED BY <2>1, <2>2, <1>4
<1>3. CASE p.dx # NoCall
  <2>1. Text(v, 5) = Msg(v.me, p.dx, "73", 0)
    <3> HIDE DEF v
    <3> QED BY <1>1, <1>3 DEF Text
  <2>2. Text(v, 5).kind = "73" /\ Text(v, 5).to = p.dx BY <2>1 DEF Msg
  <2> HIDE DEF v
  <2> QED BY <1>3, <2>2, <1>4
<1> QED BY <1>2, <1>3

\* clearDX leaves CQ chosen.
LEMMA ClearOp ==
  ASSUME NEW s \in Station, NEW p, Typed(p, s)
  PROVE  LET q == clearDX(p) IN
         /\ Typed(q, s) /\ Chosen(q).kind = "CQ" /\ q.dx = NoCall /\ Kept(p, q)
<1> DEFINE a == [p EXCEPT !.old = p.dx]
           u == SetDX(a, NoCall)
           v == genStdMsgs(u, 0)
           q == clearDX(p)
<1>1. NoCall \in Some BY DEF Some
<1>2. Near(p, a) /\ Kept(p, a) BY DEF Typed, Formed, Shape, Near, Kept
<1>3. Typed(a, s)
  <2> HIDE DEF a
  <2> QED BY <1>2, NearTyped
<1>4. Typed(u, s) /\ u.dx = NoCall /\ Kept(p, u)
  <2> HIDE DEF a
  <2> QED BY <1>1, <1>2, <1>3, DXTyped DEF Typed, Kept
<1>5. Typed(v, s) /\ v.dx = NoCall /\ Kept(p, v)
  <2> HIDE DEF u
  <2> QED BY <1>4, StdTyped DEF Typed, Kept
<1>6. q = IF p.me \in Tab2 THEN [v EXCEPT !.gen = CQ(p), !.ntx = 7] ELSE [v EXCEPT !.ntx = 6]
  BY DEF clearDX
<1>7. CQ(p) = CQ(v)
  <2>1. v.me = p.me BY <1>5 DEF Typed, Formed
  <2> HIDE DEF v
  <2> QED BY <2>1 DEF CQ
<1>8. CASE p.me \in Tab2
  <2>1. q = [v EXCEPT !.gen = CQ(v), !.ntx = 7] BY <1>6, <1>7, <1>8
  <2>2. Typed(q, s) /\ Chosen(q).kind = "CQ" /\ q.dx = v.dx /\ Kept(v, q)
    <3> HIDE DEF v, q
    <3> QED BY <1>5, <2>1, ToCQ
  <2> HIDE DEF v
  <2> QED BY <1>5, <2>2 DEF Kept
<1>9. CASE p.me \notin Tab2
  <2>1. q = [v EXCEPT !.ntx = 6] BY <1>6, <1>9
  <2> HIDE DEF v
  <2>2. /\ Shape(q) /\ q.cur = v.cur /\ q.ntx = 6 /\ q.gen = v.gen /\ q.std = v.std /\ q.me = v.me
        /\ q.dx = v.dx /\ q.rpt = v.rpt /\ Kept(v, q)
    <3>1. Shape(v) BY <1>5 DEF Typed, Formed
    <3> HIDE DEF q
    <3> QED BY <2>1, <3>1 DEF Shape, Kept
  <2>3. Typed(q, s) BY <1>5, <2>2 DEF Typed, Formed
  <2>4. Chosen(q).kind = "CQ" BY <2>2 DEF Chosen, Text, CQ, Msg
  <2> QED BY <1>5, <2>2, <2>3, <2>4 DEF Kept
<1> QED BY <1>8, <1>9

\* logClearDX too.
LEMMA LogClearOp ==
  ASSUME NEW s \in Station, NEW p, Typed(p, s)
  PROVE  LET q == logClearDX(p) IN
         /\ Typed(q, s) /\ Chosen(q).kind = "CQ" /\ q.dx = NoCall /\ Kept(p, q)
<1> DEFINE a == [p EXCEPT !.clear = "off"]
           u == clearDX(a)
           r == [u EXCEPT !.prog = "CALLING"]
<1>1. Same(p, a) BY SameOps DEF Typed, Formed
<1>2. Typed(a, s) /\ Kept(p, a)
  <2> HIDE DEF a
  <2> QED BY <1>1, NearTyped DEF Same, Near, Kept
<1>3. Typed(u, s) /\ Chosen(u).kind = "CQ" /\ u.dx = NoCall /\ Kept(p, u)
  <2> HIDE DEF a
  <2> QED BY <1>2, ClearOp DEF Kept
<1>4. Near(u, r) /\ Kept(u, r)
  <2> HIDE DEF u
  <2> QED BY <1>3 DEF Typed, Formed, Shape, Near, Kept
<1>5. Typed(r, s) /\ Chosen(r) = Chosen(u)
  <2> HIDE DEF u, r
  <2> QED BY <1>3, <1>4, NearTyped
<1>6. logClearDX(p) = r BY DEF logClearDX
<1> HIDE DEF u, r
<1> QED BY <1>3, <1>4, <1>5, <1>6 DEF Near, Kept

\* Whatever else a stop does, Auto and the transmission are off.
LEMMA StopOp ==
  ASSUME NEW s \in Station, NEW p, Typed(p, s)
  PROVE  LET q == stopTx(p) IN
         /\ Typed(q, s) /\ Chosen(q) = Chosen(p) /\ q.cur = p.cur /\ q.dx = p.dx
         /\ ~q.auto /\ ~q.tx /\ q.tx73 = p.tx73 /\ q.nonstd = p.nonstd
<1> DEFINE q == stopTx(p)
<1>1. Shape(p) BY DEF Typed, Formed
<1>2. /\ Shape(q) /\ q.me = p.me /\ q.dx = p.dx /\ q.ntx = p.ntx /\ q.gen = p.gen
      /\ q.std = p.std /\ q.rpt = p.rpt /\ q.cur = p.cur
      /\ ~q.auto /\ ~q.tx /\ q.tx73 = p.tx73 /\ q.nonstd = p.nonstd
  BY <1>1 DEF stopTx, AutoTx, Shape
<1>3. Typed(q, s) BY <1>2 DEF Typed, Formed
<1>4. Chosen(q) = Chosen(p) BY <1>2 DEF Chosen, Text, CQ
<1> QED BY <1>2, <1>3, <1>4

\* Enable Tx changes Auto alone.
LEMMA AutoOp ==
  ASSUME NEW s \in Station, NEW p, Typed(p, s), NEW b \in BOOLEAN
  PROVE  LET q == AutoTx(p, b) IN
         /\ Typed(q, s) /\ Chosen(q) = Chosen(p) /\ q.cur = p.cur /\ q.dx = p.dx
         /\ q.auto = b /\ q.tx = p.tx /\ q.tune = p.tune /\ q.tx73 = p.tx73 /\ q.nonstd = p.nonstd
<1> DEFINE q == AutoTx(p, b)
<1>1. Shape(p) BY DEF Typed, Formed
<1>2. /\ Shape(q) /\ q.me = p.me /\ q.dx = p.dx /\ q.ntx = p.ntx /\ q.gen = p.gen
      /\ q.std = p.std /\ q.rpt = p.rpt /\ q.cur = p.cur /\ q.tx = p.tx
      /\ q.auto = b /\ q.tune = p.tune /\ q.tx73 = p.tx73 /\ q.nonstd = p.nonstd
  BY <1>1 DEF AutoTx, Shape
<1>3. Typed(q, s) BY <1>2 DEF Typed, Formed
<1>4. Chosen(q) = Chosen(p) BY <1>2 DEF Chosen, Text, CQ
<1> QED BY <1>2, <1>3, <1>4

\* Second 46 writes the history and forgets the free text.
LEMMA Second46Op ==
  ASSUME NEW s \in Station, NEW p0, Typed(p0, s)
  PROVE  LET q == Second46(p0) IN
         /\ Near(p0, q) /\ q.tune = p0.tune /\ q.tx73 = p0.tx73 /\ ~q.nonstd
<1> DEFINE e == EachSecond(p0)
           p == [e EXCEPT !.nonstd = FALSE]
           q == Second46(p0)
           ending(k) == Ending(p, k)
<1>1. Same(p0, e) /\ Shape(e) BY SameOps DEF Typed, Formed, Same, Near
<1>2. Near(p0, p) /\ p.tune = p0.tune /\ p.tx73 = p0.tx73 /\ ~p.nonstd
  <2> HIDE DEF e
  <2> QED BY <1>1 DEF Same, Near, Shape
<1>3. ASSUME NEW h PROVE Same(p, [p EXCEPT !.hist = h])
  <2> HIDE DEF p
  <2> QED BY <1>2 DEF Same, Near, Shape
<1>4. ASSUME NEW k PROVE Same(p, Ending(p, k))
  <2> DEFINE a == [p EXCEPT !.hist = Prepend(@, {Phrase(p.dx, k, 0)})]
             b == StartClear(a, "rx48")
             back == \E i \in 1..Len(p.hist) : Has(p.hist[i], NoCall, {"CQTXD"})
             c == [b EXCEPT !.off = @ \/ (p.auto /\ ~back)]
  <2>1. Ending(p, k) = c BY DEF Ending
  <2>2. Same(p, a) BY <1>3
  <2>3. Same(a, b)
    <3>1. Shape(a) BY <2>2 DEF Same, Near
    <3> HIDE DEF a, p
    <3> QED BY <3>1, SameOps
  <2>4. Same(b, c)
    <3> DEFINE x == b.off \/ (p.auto /\ ~back)
    <3>1. c = [b EXCEPT !.off = x] OBVIOUS
    <3> HIDE DEF a, b, c, x, p
    <3> QED BY <2>3, <3>1 DEF Same, Near, Shape
  <2> HIDE DEF a, b, c, p
  <2> QED BY <2>1, <2>2, <2>3, <2>4 DEF Same, Near
<1>5. (\E h : q = [p EXCEPT !.hist = h]) \/ q = Ending(p, "RR73TXD") \/ q = Ending(p, "73TXD")
  <2>1. q = IF p.progTX = "CALLING" \/ p.msg0.kind = "CQ"
            THEN [p EXCEPT !.hist = Cleared({Phrase(NoCall, "CQTXD", 0)})]
            ELSE CASE
                 p.progTX = "REPLYING" -> [p EXCEPT !.hist = Cleared({Phrase(p.dx, "GRIDTXD", 0)})]
              [] p.progTX = "REPORT" ->
                   [p EXCEPT !.hist =
                      IF SkipTx1 /\ ~Mentions(p.hist[2], p.dx) /\ ~Has(p.hist[3], p.dx, {"REPORTTXD"})
                      THEN Cleared({Phrase(p.dx, "REPORTTXD", 0)})
                      ELSE Prepend(@, {Phrase(p.dx, "REPORTTXD", 0)})]
              [] p.progTX = "ROGER_REPORT" ->
                   [p EXCEPT !.hist = Prepend(@, {Phrase(p.dx, "RREPORTTXD", 0)})]
              [] p.progTX = "ROGERS" -> Ending(p, "RR73TXD")
              [] OTHER -> Ending(p, "73TXD")
    BY DEF Second46
  <2> HIDE DEF p, q
  <2>2. CASE p.progTX = "CALLING" \/ p.msg0.kind = "CQ" BY <2>1, <2>2
  <2>3. CASE ~(p.progTX = "CALLING" \/ p.msg0.kind = "CQ")
    <3>1. CASE p.progTX = "REPLYING" BY <2>1, <2>3, <3>1
    <3>2. CASE p.progTX = "REPORT" BY <2>1, <2>3, <3>2
    <3>3. CASE p.progTX = "ROGER_REPORT" BY <2>1, <2>3, <3>3
    <3>4. CASE p.progTX = "ROGERS" BY <2>1, <2>3, <3>4
    <3>5. CASE p.progTX \notin {"REPLYING", "REPORT", "ROGER_REPORT", "ROGERS"} BY <2>1, <2>3, <3>5
    <3> QED BY <3>1, <3>2, <3>3, <3>4, <3>5
  <2> QED BY <2>2, <2>3
<1>6. Same(p, q) BY <1>3, <1>4, <1>5
<1> HIDE DEF p
<1> QED BY <1>2, <1>6 DEF Same, Near

\* At its end a transmission is over, and the watchdog may stop the program.
LEMMA OverOp ==
  ASSUME NEW s \in Station, NEW p, Typed(p, s)
  PROVE  LET q == Over(p) IN
         /\ Typed(q, s) /\ Chosen(q) = Chosen(p) /\ q.dx = p.dx
         /\ (q.auto => p.auto) /\ ~q.tx /\ q.tx73 = p.tx73 /\ q.nonstd = p.nonstd
         /\ p.tune => q.tune \/ ~q.auto
<1>1. CASE Watchdog > 0 /\ p.rep >= Watchdog - 1
  <2>1. Over(p) = stopTx(p) BY <1>1 DEF Over
  <2> QED BY <2>1, StopOp
<1>2. CASE ~(Watchdog > 0 /\ p.rep >= Watchdog - 1)
  <2> DEFINE q == [p EXCEPT !.tx = FALSE]
  <2>1. Over(p) = q BY <1>2 DEF Over
  <2>2. /\ Shape(q) /\ q.me = p.me /\ q.dx = p.dx /\ q.ntx = p.ntx /\ q.gen = p.gen
        /\ q.std = p.std /\ q.rpt = p.rpt /\ q.cur = p.cur /\ ~q.tx
        /\ q.auto = p.auto /\ q.tune = p.tune /\ q.tx73 = p.tx73 /\ q.nonstd = p.nonstd
    BY DEF Typed, Formed, Shape
  <2> HIDE DEF q
  <2>3. Typed(q, s) BY <2>2 DEF Typed, Formed
  <2>4. Chosen(q) = Chosen(p) BY <2>2 DEF Chosen, Text, CQ
  <2> QED BY <2>1, <2>2, <2>3, <2>4
<1> QED BY <1>1, <1>2

-----------------------------------------------------------------------------
\* AutoSeq: a line either leaves the message and the DX call alone, or its sender becomes
\* the partner.
Untouched(p, q, l) ==
  /\ Chosen(q) = Chosen(p) /\ q.dx = p.dx /\ q.auto = p.auto
  /\ q.tx73 => p.tx73 \/ (l.to = p.me /\ (~Standard(l) \/ Is73(l)))
Answered(p, q, l) ==
  /\ Standard(l) /\ q.tx73 = p.tx73 /\ q.dx = l.from /\ Chosen(q).to = l.from
  /\ Chosen(q).kind = "RR73" => l.to = p.me /\ l.kind \in Rpt
  /\ Chosen(q).kind = "73" => l.to = p.me /\ Is73(l)

\* AutoSeq on one line.
LEMMA SequenceOp ==
  ASSUME NEW s \in Station, NEW p, Typed(p, s), NEW l \in Lines
  PROVE  LET q == Sequence(p, l) IN
         /\ Typed(q, s) /\ q.cur = p.cur /\ q.tx = p.tx /\ q.tune = p.tune /\ q.nonstd = p.nonstd
         /\ Untouched(p, q, l) \/ Answered(p, q, l)
<1> DEFINE q == Sequence(p, l)
           goodbye == Has(p.hist[1], p.dx, {"RREPORTTXD"}) /\ p.dx # NoCall
           a == p.tx73 \/ goodbye
           b == p.tx73 \/ (goodbye /\ Is73(l))
<1>1. \/ q = p
      \/ ToMe(p, l) /\ ~Standard(l) /\ q = [p EXCEPT !.tx73 = a]
      \/ ToMe(p, l) /\ q = [p EXCEPT !.tx73 = b]
      \/ Standard(l) /\ q = processMessage(p, l)
  BY DEF Sequence
<1>2. Shape(p) /\ p.me = s BY DEF Typed, Formed
<1>3. ASSUME NEW x, q = [p EXCEPT !.tx73 = x]
      PROVE  Near(p, q) /\ q.tx73 = x /\ q.tune = p.tune /\ q.nonstd = p.nonstd
  <2> HIDE DEF q
  <2> QED BY <1>2, <1>3 DEF Shape, Near
<1>4. ASSUME Near(p, q), q.tune = p.tune, q.nonstd = p.nonstd,
             q.tx73 => p.tx73 \/ (l.to = p.me /\ (~Standard(l) \/ Is73(l)))
      PROVE  /\ Typed(q, s) /\ q.cur = p.cur /\ q.tx = p.tx /\ q.tune = p.tune /\ q.nonstd = p.nonstd
             /\ Untouched(p, q, l)
  <2>1. Typed(q, s) /\ Chosen(q) = Chosen(p) BY <1>4, NearTyped
  <2> QED BY <1>4, <2>1 DEF Near, Untouched
<1>5. CASE q = p
  <2>1. Near(p, q) /\ q.tx73 = p.tx73 /\ q.tune = p.tune /\ q.nonstd = p.nonstd BY <1>2, <1>5 DEF Near
  <2> QED BY <1>4, <2>1
<1>6. CASE ToMe(p, l) /\ ~Standard(l) /\ q = [p EXCEPT !.tx73 = a]
  <2>1. Near(p, q) /\ q.tx73 = a /\ q.tune = p.tune /\ q.nonstd = p.nonstd BY <1>3, <1>6
  <2>2. l.to = p.me BY <1>6 DEF ToMe
  <2>3. q.tx73 => p.tx73 \/ (l.to = p.me /\ (~Standard(l) \/ Is73(l)))
    <3> HIDE DEF goodbye, q
    <3> QED BY <1>6, <2>1, <2>2
  <2> QED BY <1>4, <2>1, <2>3
<1>7. CASE ToMe(p, l) /\ q = [p EXCEPT !.tx73 = b]
  <2>1. Near(p, q) /\ q.tx73 = b /\ q.tune = p.tune /\ q.nonstd = p.nonstd BY <1>3, <1>7
  <2>2. l.to = p.me BY <1>7 DEF ToMe
  <2>3. q.tx73 => p.tx73 \/ (l.to = p.me /\ (~Standard(l) \/ Is73(l)))
    <3> HIDE DEF goodbye, q
    <3> QED BY <1>7, <2>1, <2>2
  <2> QED BY <1>4, <2>1, <2>3
<1>8. CASE Standard(l) /\ q = processMessage(p, l)
  <2>1. q = processMessage(p, l) BY <1>8
  <2> HIDE DEF q
  <2>2. /\ Typed(q, s) /\ q.dx = l.from /\ q.cur = p.cur /\ q.tx = p.tx
        /\ q.tune = p.tune /\ q.tx73 = p.tx73 /\ q.nonstd = p.nonstd
        /\ Chosen(q).to = l.from
        /\ Chosen(q).kind = "RR73" => l.to = s /\ l.kind \in Rpt
        /\ Chosen(q).kind = "73" => l.to = s /\ Is73(l)
    BY <1>8, <2>1, ProcessTyped
  <2>3. Answered(p, q, l) BY <1>2, <1>8, <2>2 DEF Answered
  <2> USE DEF q
  <2> QED BY <2>2, <2>3
<1> QED BY <1>1, <1>5, <1>6, <1>7, <1>8

\* One line of the decoder, with the halts that keep it from AutoSeq.
LEMMA ReadOp ==
  ASSUME NEW s \in Station, NEW p, Typed(p, s), NEW l \in Lines
  PROVE  LET q == ReadLine(p, l) IN
         /\ Typed(q, s) /\ q.cur = p.cur /\ q.tx = p.tx
         /\ p.tune \/ AnsweredOther(p, l) => q.tune
         /\ q.nonstd => p.nonstd \/ l.kind = "FREE73"
         /\ Untouched(p, q, l) \/ (Answered(p, q, l) /\ ~AnsweredOther(p, l))
<1> DEFINE a == Record(p, l)
           r == [a EXCEPT !.nonstd = @ \/ l.kind = "FREE73"]
           h == Halts(r, l)
           c == Count(h, l)
           d == IF Skips(r, l) THEN c ELSE Sequence(c, l)
           q == RptRcvd(d, l)
<1>0. Shape(p) /\ p.me = s BY DEF Typed, Formed
<1>1. ReadLine(p, l) = q BY DEF ReadLine
<1>2. Same(p, a) BY <1>0, SameOps
<1>3. a.prog = p.prog BY <1>0 DEF Record, Shape
<1>4. Near(p, r) /\ r.tune = p.tune /\ r.tx73 = p.tx73
      /\ (r.nonstd => p.nonstd \/ l.kind = "FREE73") /\ r.prog = p.prog
  <2> HIDE DEF a
  <2> QED BY <1>2, <1>3 DEF Same, Near, Shape
<1>5. AnsweredOther(r, l) <=> AnsweredOther(p, l)
  <2> HIDE DEF r
  <2> QED BY <1>4 DEF AnsweredOther, Near
<1>6. Near(r, h) /\ (r.tune \/ Skips(r, l) => h.tune) /\ h.tx73 = r.tx73 /\ h.nonstd = r.nonstd
  <2> HIDE DEF r
  <2>1. Shape(r) BY <1>4 DEF Near
  <2> DEFINE u == IF AnsweredOther(r, l) THEN HaltTx(r, "soon") ELSE r
  <2>2. Near(r, u) /\ (r.tune \/ AnsweredOther(r, l) => u.tune) /\ u.tx73 = r.tx73 /\ u.nonstd = r.nonstd
    BY <2>1 DEF HaltTx, StartClear, Near, Shape
  <2>3. h = IF SameAgain(r, l)
            THEN [u EXCEPT !.tune = TRUE, !.halted = Partner(r),
                           !.left = IF @ = 0 THEN HaltFor ELSE @, !.clear = "soon"]
            ELSE u
    BY DEF Halts
  <2>4. CASE SameAgain(r, l)
    <3> DEFINE x == IF u.left = 0 THEN HaltFor ELSE u.left
    <3>1. h = [u EXCEPT !.tune = TRUE, !.halted = Partner(r), !.left = x, !.clear = "soon"]
      BY <2>3, <2>4
    <3> HIDE DEF u, h, x
    <3> QED BY <2>2, <3>1 DEF Near, Shape
  <2>5. CASE ~SameAgain(r, l)
    <3>1. h = u BY <2>3, <2>5
    <3> HIDE DEF u, h
    <3> QED BY <2>2, <2>5, <3>1 DEF Skips
  <2> QED BY <2>4, <2>5
<1>7. Same(h, c)
  <2>1. Shape(h)
    <3> HIDE DEF h
    <3> QED BY <1>6 DEF Near
  <2> HIDE DEF h
  <2> QED BY <2>1, SameOps
<1>8. Near(p, c) /\ (p.tune \/ Skips(r, l) => c.tune) /\ c.tx73 = p.tx73
      /\ (c.nonstd => p.nonstd \/ l.kind = "FREE73")
  <2> HIDE DEF r, h, c
  <2> QED BY <1>4, <1>6, <1>7 DEF Near, Same
<1>9. Typed(c, s) /\ Chosen(c) = Chosen(p)
  <2> HIDE DEF c
  <2> QED BY <1>8, NearTyped
<1>10. /\ Typed(d, s) /\ d.cur = p.cur /\ d.tx = p.tx
       /\ p.tune \/ Skips(r, l) => d.tune
       /\ d.nonstd => p.nonstd \/ l.kind = "FREE73"
       /\ Untouched(p, d, l) \/ (Answered(p, d, l) /\ ~Skips(r, l))
  <2>1. CASE Skips(r, l)
    <3>1. d = c BY <2>1
    <3> HIDE DEF c, d, r
    <3>2. Untouched(p, d, l) BY <1>8, <1>9, <3>1 DEF Near, Untouched
    <3>3. Typed(d, s) /\ d.cur = p.cur /\ d.tx = p.tx BY <1>8, <1>9, <3>1 DEF Near
    <3>4. d.tune /\ (d.nonstd => p.nonstd \/ l.kind = "FREE73") BY <1>8, <2>1, <3>1
    <3> QED BY <3>2, <3>3, <3>4
  <2>2. CASE ~Skips(r, l)
    <3>1. d = Sequence(c, l) BY <2>2
    <3> HIDE DEF c, d, r
    <3>2. /\ Typed(d, s) /\ d.cur = c.cur /\ d.tx = c.tx /\ d.tune = c.tune /\ d.nonstd = c.nonstd
          /\ Untouched(c, d, l) \/ Answered(c, d, l)
      BY <1>9, <3>1, SequenceOp
    <3>3. Untouched(p, d, l) \/ Answered(p, d, l)
      BY <1>8, <1>9, <3>2 DEF Near, Untouched, Answered
    <3> QED BY <1>8, <2>2, <3>2, <3>3 DEF Near
  <2> QED BY <2>1, <2>2
<1>11. Same(d, q)
  <2>1. Shape(d)
    <3> HIDE DEF d
    <3> QED BY <1>10 DEF Typed, Formed
  <2> HIDE DEF d
  <2> QED BY <2>1, SameOps
<1>12. Typed(q, s) /\ Chosen(q) = Chosen(d)
  <2> HIDE DEF d, q
  <2> QED BY <1>10, <1>11, NearTyped DEF Same
<1>13. AnsweredOther(p, l) => Skips(r, l)
  <2> HIDE DEF r
  <2> QED BY <1>5 DEF Skips
<1>14. (Untouched(p, d, l) => Untouched(p, q, l)) /\ (Answered(p, d, l) => Answered(p, q, l))
  <2> HIDE DEF d, q
  <2> QED BY <1>11, <1>12 DEF Same, Near, Untouched, Answered
<1> HIDE DEF r, d, q
<1> QED BY <1>1, <1>10, <1>11, <1>12, <1>13, <1>14 DEF Same, Near

-----------------------------------------------------------------------------
\* The owner of a period is a station.
LEMMA OwnerStation ==
  ASSUME odd \in BOOLEAN
  PROVE  Owner \in Station
<1>1. First \in Station /\ Cardinality(Station) = 2 BY QsoAssumption
<1>2. \E t \in Station : t # First
  <2>1. SUFFICES ASSUME \A t \in Station : t = First PROVE FALSE OBVIOUS
  <2>2. Station = {First} BY <1>1, <2>1
  <2>3. Cardinality({First}) = 1 BY FS_Singleton
  <2> QED BY <1>1, <2>2, <2>3
<1>3. \E t \in Station : (t = First) = ~odd BY <1>1, <1>2
<1> QED BY <1>3 DEF Owner

\* The calls, and no call.
LEMMA CallsGiven == Station \subseteq Calls /\ Calls \subseteq Some /\ NoCall \in Some /\ NoCall \notin Calls
                    /\ Other \in Calls
BY QsoAssumption DEF Calls, Some

\* The invariant holds initially.
LEMMA InitHolds == Init => IInv
<1> SUFFICES ASSUME Init PROVE IInv OBVIOUS
<1> USE DEF Init
<1>1. Types BY CallsGiven DEF Types
<1>2. ASSUME NEW s \in Station PROVE Fair(s)
  <2> DEFINE b == (s = First)
             p == [Program(s) EXCEPT !.auto = b]
             m == Msg(s, "CQ", "CQ", 0)
  <2>1. st[s] = p OBVIOUS
  <2>2. /\ Shape(p) /\ p.me = s /\ p.dx = NoCall /\ p.ntx = 7 /\ p.std = [to |-> NoCall, rpt |-> 0]
        /\ p.gen = m /\ p.cur = NoMsg /\ ~p.tx /\ ~p.tx73 /\ ~p.nonstd
    <3> HIDE DEF b, m
    <3>1. Program(s).gen = m BY DEF m, Program
    <3> QED BY <3>1 DEF Program, Shape
  <2>3. m \in Messages
    <3>1. "CQ" \in Some \cup {"CQ"} /\ "CQ" \notin Rpt BY DEF Rpt
    <3> QED BY <3>1, CallsGiven, KindsGiven, MsgTyped
  <2>4. m.kind = "CQ" BY DEF Msg
  <2>5. p.std \in [to : Some, rpt : AllReports \cup {0}] /\ p.std.to = NoCall
    <3> HIDE DEF p
    <3> QED BY <2>2, CallsGiven
  <2>6. Typed(p, s)
    <3> HIDE DEF p, m
    <3> QED BY <2>2, <2>3, <2>5, CallsGiven, NoMsgTyped DEF Typed, Formed
  <2>7. Chosen(p) = m
    <3> HIDE DEF p, m
    <3> QED BY <2>2 DEF Chosen, Text
  <2> HIDE DEF p, m
  <2> QED BY <2>1, <2>2, <2>4, <2>6, <2>7 DEF Fair, Earned, Spares, Rightful, Spared
<1> QED BY <1>1, <1>2 DEF IInv

\* A step of one station
LEMMA OneStation ==
  ASSUME IInv, Types', NEW x \in Station, NEW q, Does(x, q),
         Typed(q, x), Earned(q, heard'[x], rogered'[x] \cup swayed'[x], rogered'[x]),
         Spares(q, gone'[x]),
         \A s \in Station \ {x} : /\ heard'[s] = heard[s] /\ rogered'[s] = rogered[s]
                                 /\ swayed'[s] = swayed[s] /\ gone'[s] = gone[s]
  PROVE  IInv'
<1>1. DOMAIN st = Station BY DEF IInv, Types
<1>2. st'[x] = q BY <1>1 DEF Does
<1>3. \A s \in Station \ {x} : st'[s] = st[s] BY <1>1 DEF Does
<1>4. ASSUME NEW s \in Station PROVE Fair(s)'
  <2>1. CASE s = x BY <1>2, <2>1 DEF Fair
  <2>2. CASE s # x
    <3>1. Fair(s) BY DEF IInv
    <3>2. /\ st'[s] = st[s] /\ heard'[s] = heard[s] /\ rogered'[s] = rogered[s]
          /\ swayed'[s] = swayed[s] /\ gone'[s] = gone[s]
      BY <1>3, <2>2
    <3> QED BY <3>1, <3>2 DEF Fair
  <2> QED BY <2>1, <2>2
<1> QED BY <1>4 DEF IInv

\* ... that chooses no message of weight
LEMMA CalmStep ==
  ASSUME IInv, NEW x \in Station, NEW q, Does(x, q),
         UNCHANGED <<airVars, heard, rogered, swayed, gone, seen>>,
         todo' \in [Station -> [busy : BOOLEAN, lines : SUBSET Lines]],
         Typed(q, x), Calm(st[x], q), Still73(st[x], q)
  PROVE  IInv'
<1>1. DOMAIN st' = Station BY DEF IInv, Types, Does
<1>2. Types' BY <1>1 DEF IInv, Types, airVars
<1>3. Fair(x) BY DEF IInv
<1>4. rogered[x] \subseteq rogered[x] \cup swayed[x] OBVIOUS
<1>5. st[x].dx \in Some BY <1>3 DEF Fair, Typed, Formed
<1>6. Earned(q, heard[x], rogered[x] \cup swayed[x], rogered[x])
  BY <1>3, <1>4, <1>5, CalmEarned DEF Fair
<1>7. Spares(q, gone[x]) BY <1>3, CalmSpares DEF Fair
<1> QED BY <1>2, <1>6, <1>7, OneStation

\* A step that Same describes is calm.
LEMMA SameCalm ==
  ASSUME NEW s, NEW p, NEW q, Typed(p, s), Same(p, q)
  PROVE  Typed(q, s) /\ Chosen(q) = Chosen(p) /\ Calm(p, q) /\ Still73(p, q)
<1>1. Near(p, q) /\ q.tune = p.tune /\ q.tx73 = p.tx73 /\ q.nonstd = p.nonstd BY DEF Same
<1>2. Typed(q, s) /\ Chosen(q) = Chosen(p) /\ Calm(p, q) BY <1>1, NearTyped, NearCalm
<1> QED BY <1>1, <1>2 DEF Still73

\* Choosing CQ is calm.
LEMMA CQCalm ==
  ASSUME NEW p, NEW q, Kept(p, q), Chosen(q).kind = "CQ", q.dx \in {p.dx, NoCall}
  PROVE  Calm(p, q) /\ Still73(p, q)
BY DEF Kept, Calm, Still73

\* What the invariant says of the fields of a station.
LEMMA StationTyped ==
  ASSUME IInv, NEW s \in Station
  PROVE  Typed(st[s], s) /\ Shape(st[s]) /\ st[s].dx \in Some
BY DEF IInv, Fair, Typed, Formed

\* ... that leaves message, DX call, Auto and the 73 that is due alone
LEMMA SameStep ==
  ASSUME IInv, NEW x \in Station, NEW q, Does(x, q), Same(st[x], q),
         UNCHANGED <<airVars, heard, rogered, swayed, gone, seen>>,
         todo' \in [Station -> [busy : BOOLEAN, lines : SUBSET Lines]]
  PROVE  IInv'
<1>1. Typed(st[x], x) BY StationTyped
<1>2. Typed(q, x) /\ Calm(st[x], q) /\ Still73(st[x], q) BY <1>1, SameCalm
<1> QED BY <1>2, CalmStep

\* Each action keeps the invariant.  The clock:
LEMMA SecondHolds == ASSUME IInv, NEW s \in Station, Second(s) PROVE IInv'
<1> USE DEF Second
<1>1. Same(st[s], EachSecond(st[s])) BY StationTyped, SameOps
<1>2. todo' \in [Station -> [busy : BOOLEAN, lines : SUBSET Lines]] BY DEF IInv, Types
<1> QED BY <1>1, <1>2, SameStep DEF history

\* m_restart:
LEMMA RestartHolds == ASSUME IInv, NEW s \in Station, Restart(s) PROVE IInv'
<1> USE DEF Restart
<1> DEFINE p == st[s]
           q == Compose(p)
<1>1. Typed(p, s) BY StationTyped
<1>2. /\ Typed(q, s) /\ Chosen(q) = Chosen(p) /\ q.cur = Chosen(p)
      /\ q.dx = p.dx /\ q.auto = p.auto /\ q.tx = p.tx /\ q.tune = p.tune
      /\ q.tx73 = p.tx73 /\ q.nonstd = p.nonstd
  <2> HIDE DEF p
  <2> QED BY <1>1, ComposeOp
<1>3. Calm(p, q) /\ Still73(p, q)
  <2> HIDE DEF p, q
  <2> QED BY <1>2 DEF Calm, Still73
<1>4. todo' \in [Station -> [busy : BOOLEAN, lines : SUBSET Lines]] BY DEF IInv, Types
<1>5. Does(s, q) BY DEF Restart
<1> HIDE DEF q
<1> QED BY <1>2, <1>3, <1>4, <1>5, CalmStep DEF history

\* The first 73 was sent and Auto is off:
LEMMA AfterLast73Holds == ASSUME IInv, NEW s \in Station, AfterLast73(s) PROVE IInv'
<1> USE DEF AfterLast73
<1> DEFINE a == [st[s] EXCEPT !.sent73 = FALSE]
           q == IF s \in Tab2 THEN [a EXCEPT !.gen = CQ(a), !.ntx = 7] ELSE a
<1>1. Typed(st[s], s) /\ Same(st[s], a) BY StationTyped, SameOps
<1>2. Typed(a, s) /\ Calm(st[s], a) /\ Still73(st[s], a) /\ Kept(st[s], a) /\ a.dx = st[s].dx
  <2> HIDE DEF a
  <2> QED BY <1>1, SameCalm DEF Kept, Same, Near
<1>3. Typed(q, s) /\ Calm(st[s], q) /\ Still73(st[s], q)
  <2> HIDE DEF a
  <2>1. CASE s \in Tab2
    <3>1. q = [a EXCEPT !.gen = CQ(a), !.ntx = 7] BY <2>1
    <3> HIDE DEF q
    <3>2. Typed(q, s) /\ Chosen(q).kind = "CQ" /\ q.dx = a.dx /\ Kept(a, q) BY <1>2, <3>1, ToCQ
    <3>3. Kept(st[s], q) /\ q.dx = st[s].dx BY <1>2, <3>2 DEF Kept
    <3> QED BY <3>2, <3>3, CQCalm
  <2>2. CASE s \notin Tab2 BY <1>2, <2>2
  <2> QED BY <2>1, <2>2
<1>4. todo' \in [Station -> [busy : BOOLEAN, lines : SUBSET Lines]] BY DEF IInv, Types
<1>5. Does(s, q) OBVIOUS
<1>6. UNCHANGED <<airVars, heard, rogered, swayed, gone, seen>> BY DEF history
<1> HIDE DEF q
<1> QED BY <1>3, <1>4, <1>5, <1>6, CalmStep

\* The log:
LEMMA LogTimerHolds == ASSUME IInv, NEW s \in Station, LogTimer(s) PROVE IInv'
<1> USE DEF LogTimer
<1> DEFINE a == [st[s] EXCEPT !.log = FALSE]
           q == LogQSO(a)
<1>1. Same(st[s], a) BY StationTyped, SameOps
<1>2. Same(a, q)
  <2> HIDE DEF a
  <2>1. Shape(a) BY <1>1 DEF Same, Near
  <2> QED BY <2>1, SameOps
<1>3. Same(st[s], q)
  <2> HIDE DEF a, q
  <2> QED BY <1>1, <1>2, SameTransitive
<1>4. todo' \in [Station -> [busy : BOOLEAN, lines : SUBSET Lines]] BY DEF IInv, Types
<1>5. Does(s, q) OBVIOUS
<1>6. UNCHANGED <<airVars, heard, rogered, swayed, gone, seen>> OBVIOUS
<1> HIDE DEF q
<1> QED BY <1>3, <1>4, <1>5, <1>6, SameStep

\* DecodeFinished:
LEMMA FinishHolds == ASSUME IInv, NEW s \in Station, Finish(s) PROVE IInv'
<1> USE DEF Finish
<1>1. Same(st[s], DecodeFinished(st[s])) BY StationTyped, SameOps
<1>2. todo' \in [Station -> [busy : BOOLEAN, lines : SUBSET Lines]] BY DEF IInv, Types
<1>3. UNCHANGED <<airVars, heard, rogered, swayed, gone, seen>> BY DEF history
<1> QED BY <1>1, <1>2, <1>3, SameStep

\* The next period:
LEMMA EndHolds == ASSUME IInv, End PROVE IInv'
<1>1. odd' \in BOOLEAN /\ phase' \in {"begin", "tx", "rx"} BY DEF End, IInv, Types
<1>2. UNCHANGED <<st, todo, seen, heard, rogered, swayed, gone>> BY DEF End, history
<1>3. Types' BY <1>1, <1>2 DEF IInv, Types
<1>4. \A s \in Station : Fair(s)' BY <1>2 DEF IInv, Fair
<1> QED BY <1>3, <1>4 DEF IInv

\* The timers.  A stop ends the transmission that tune was to end; the 73 goes to a station
\* that is in the DX call since it was earned.
LEMMA TimerHolds == ASSUME IInv, NEW s \in Station, TimerFires(s) PROVE IInv'
<1> DEFINE p == st[s]
<1>1. Typed(p, s) /\ Shape(p) /\ p.dx \in Some BY StationTyped
<1>2. todo' \in [Station -> [busy : BOOLEAN, lines : SUBSET Lines]] BY DEF IInv, Types, TimerFires
<1>3. UNCHANGED <<airVars, heard, rogered, swayed, gone, seen>> BY DEF TimerFires, history
<1>4. \/ Does(s, stopTx([p EXCEPT !.tune = FALSE]))
      \/ Does(s, CallCQ([p EXCEPT !.cq = FALSE]))
      \/ Does(s, AutoTx([p EXCEPT !.off = FALSE], FALSE))
      \/ p.tx73 /\ Does(s, Send73([p EXCEPT !.tx73 = FALSE]))
      \/ Does(s, logClearDX(p))
  BY DEF TimerFires
<1>5. CASE Does(s, stopTx([p EXCEPT !.tune = FALSE]))
  <2> DEFINE a == [p EXCEPT !.tune = FALSE]
             q == stopTx(a)
  <2>1. Near(p, a) /\ a.tx73 = p.tx73 /\ a.nonstd = p.nonstd
    <3> HIDE DEF p
    <3> QED BY <1>1 DEF Shape, Near
  <2>2. Typed(a, s) /\ Chosen(a) = Chosen(p)
    <3> HIDE DEF a, p
    <3> QED BY <1>1, <2>1, NearTyped
  <2>3. /\ Typed(q, s) /\ Chosen(q) = Chosen(a) /\ q.cur = a.cur /\ q.dx = a.dx
        /\ ~q.auto /\ ~q.tx /\ q.tx73 = a.tx73 /\ q.nonstd = a.nonstd
    <3> HIDE DEF a, p
    <3> QED BY <2>2, StopOp
  <2>4. Calm(p, q) /\ Still73(p, q)
    <3> HIDE DEF a, p, q
    <3> QED BY <2>1, <2>2, <2>3 DEF Near, Calm, Still73
  <2>5. Does(s, q) BY <1>5
  <2> HIDE DEF q
  <2> QED BY <1>2, <1>3, <2>3, <2>4, <2>5, CalmStep
<1>6. CASE Does(s, CallCQ([p EXCEPT !.cq = FALSE]))
  <2> DEFINE a == [p EXCEPT !.cq = FALSE]
             q == CallCQ(a)
  <2>1. Same(p, a) BY <1>1, SameOps
  <2>2. Typed(a, s) /\ Kept(p, a)
    <3> HIDE DEF a, p
    <3> QED BY <1>1, <2>1, SameCalm DEF Same, Near, Kept
  <2>3. Typed(q, s) /\ Chosen(q).kind = "CQ" /\ q.dx = NoCall /\ Kept(a, q)
    <3> HIDE DEF a, p
    <3> QED BY <2>2, CallCQOp
  <2>4. Kept(p, q)
    <3> HIDE DEF a, p, q
    <3> QED BY <2>2, <2>3 DEF Kept
  <2>5. Calm(p, q) /\ Still73(p, q)
    <3> HIDE DEF a, p, q
    <3> QED BY <2>3, <2>4, CQCalm
  <2>6. Does(s, q) BY <1>6
  <2> HIDE DEF q
  <2> QED BY <1>2, <1>3, <2>3, <2>5, <2>6, CalmStep
<1>7. CASE Does(s, AutoTx([p EXCEPT !.off = FALSE], FALSE))
  <2> DEFINE a == [p EXCEPT !.off = FALSE]
             q == AutoTx(a, FALSE)
  <2>1. Same(p, a) BY <1>1, SameOps
  <2>2. Typed(a, s) /\ Chosen(a) = Chosen(p)
    <3> HIDE DEF a, p
    <3> QED BY <1>1, <2>1, SameCalm
  <2>3. /\ Typed(q, s) /\ Chosen(q) = Chosen(a) /\ q.cur = a.cur /\ q.dx = a.dx
        /\ ~q.auto /\ q.tx = a.tx /\ q.tune = a.tune /\ q.tx73 = a.tx73 /\ q.nonstd = a.nonstd
    <3> HIDE DEF a, p
    <3> QED BY <2>2, AutoOp
  <2>4. Calm(p, q) /\ Still73(p, q)
    <3> HIDE DEF a, p, q
    <3> QED BY <2>1, <2>2, <2>3 DEF Same, Near, Calm, Still73
  <2>5. Does(s, q) BY <1>7
  <2> HIDE DEF q
  <2> QED BY <1>2, <1>3, <2>3, <2>4, <2>5, CalmStep
<1>8. CASE p.tx73 /\ Does(s, Send73([p EXCEPT !.tx73 = FALSE]))
  <2> DEFINE a == [p EXCEPT !.tx73 = FALSE]
             q == Send73(a)
  <2>1. Near(p, a) /\ ~a.tx73 /\ a.nonstd = p.nonstd /\ a.tune = p.tune
    <3> HIDE DEF p
    <3> QED BY <1>1 DEF Shape, Near
  <2>2. Typed(a, s) /\ Chosen(a) = Chosen(p)
    <3> HIDE DEF a, p
    <3> QED BY <1>1, <2>1, NearTyped
  <2>3. /\ Typed(q, s) /\ q.dx = a.dx /\ Kept(a, q)
        /\ \/ Chosen(q).kind = "NONE"
           \/ (Chosen(q).kind = "73" /\ Chosen(q).to = a.dx /\ a.dx # NoCall)
    <3> HIDE DEF a, p
    <3> QED BY <2>2, Send73Op
  <2>4. Fair(s) BY DEF IInv
  <2>5. Earned(q, heard[s], rogered[s] \cup swayed[s], rogered[s])
    <3>1. Earned(p, heard[s], rogered[s] \cup swayed[s], rogered[s]) BY <2>4 DEF Fair
    <3> HIDE DEF a, p, q
    <3> QED BY <1>8, <2>1, <2>3, <3>1 DEF Earned, Rightful, Near, Kept
  <2>6. Spares(q, gone[s])
    <3>1. Spares(p, gone[s]) BY <2>4 DEF Fair
    <3> HIDE DEF a, p, q
    <3> QED BY <2>1, <2>3, <3>1 DEF Spares, Spared, Near, Kept
  <2>7. Types' BY <1>2, <1>3 DEF IInv, Types, airVars, TimerFires, Does
  <2>8. Does(s, q) BY <1>8
  <2>9. heard' = heard /\ rogered' = rogered /\ swayed' = swayed /\ gone' = gone BY <1>3
  <2> HIDE DEF q
  <2> QED BY <2>3, <2>5, <2>6, <2>7, <2>8, <2>9, OneStation
<1>9. CASE Does(s, logClearDX(p))
  <2> DEFINE q == logClearDX(p)
  <2>1. Typed(q, s) /\ Chosen(q).kind = "CQ" /\ q.dx = NoCall /\ Kept(p, q)
    <3> HIDE DEF p
    <3> QED BY <1>1, LogClearOp
  <2>2. Calm(p, q) /\ Still73(p, q)
    <3> HIDE DEF p, q
    <3> QED BY <2>1, CQCalm
  <2>3. Does(s, q) BY <1>9
  <2> HIDE DEF q
  <2> QED BY <1>2, <1>3, <2>1, <2>2, <2>3, CalmStep
<1> QED BY <1>4, <1>5, <1>6, <1>7, <1>8, <1>9

\* A program that sends its message again or for the first time: an answer to a CQ makes
\* what was heard before count no longer, except for the 73 that is already due.
LEMMA AnewEarned ==
  ASSUME IInv, NEW x \in Station, NEW q, Anew(x, Chosen(st[x])),
         Chosen(q) = Chosen(st[x]), q.cur = Chosen(st[x]), q.dx \in {st[x].dx, NoCall},
         Still73(st[x], q)
  PROVE  /\ Earned(q, heard'[x], rogered'[x] \cup swayed'[x], rogered'[x])
         /\ heard' \in [Station -> [Calls -> AllReports \cup {0}]]
         /\ rogered' \in [Station -> SUBSET Some] /\ swayed' \in [Station -> SUBSET Some]
         /\ gone' = gone
         /\ \A s \in Station \ {x} :
              heard'[s] = heard[s] /\ rogered'[s] = rogered[s] /\ swayed'[s] = swayed[s]
<1> DEFINE p == st[x]
           m == Chosen(p)
<1>1. Earned(p, heard[x], rogered[x] \cup swayed[x], rogered[x]) BY DEF IInv, Fair
<1>2. /\ heard \in [Station -> [Calls -> AllReports \cup {0}]]
      /\ rogered \in [Station -> SUBSET Some] /\ swayed \in [Station -> SUBSET Some]
  BY DEF IInv, Types
<1>3. /\ heard' = (IF m.kind = "GRID" THEN [heard EXCEPT ![x][m.to] = 0] ELSE heard)
      /\ rogered' = (IF m.kind = "GRID" /\ ~p.tx73 /\ ~p.nonstd
                     THEN [rogered EXCEPT ![x] = @ \ {m.to}] ELSE rogered)
      /\ swayed' = (IF m.kind = "GRID" /\ ~p.tx73 /\ ~p.nonstd
                    THEN [swayed EXCEPT ![x] = @ \ {m.to}] ELSE swayed)
      /\ gone' = gone
  BY DEF Anew
<1>4. Chosen(q) = m /\ q.cur = m /\ q.dx \in {p.dx, NoCall} /\ Still73(p, q) OBVIOUS
<1> HIDE DEF p, m
<1>5. \A s \in Station \ {x} :
        heard'[s] = heard[s] /\ rogered'[s] = rogered[s] /\ swayed'[s] = swayed[s]
  BY <1>2, <1>3
<1>6. heard' \in [Station -> [Calls -> AllReports \cup {0}]] BY <1>2, <1>3
<1>7. rogered' \in [Station -> SUBSET Some] /\ swayed' \in [Station -> SUBSET Some] BY <1>2, <1>3
<1>8. Earned(q, heard'[x], rogered'[x] \cup swayed'[x], rogered'[x])
  <2>1. p.dx \in Some BY StationTyped DEF p
  <2>2. CASE m.kind # "GRID"
    <3>1. heard' = heard /\ rogered' = rogered /\ swayed' = swayed BY <1>3, <2>2
    <3>2. Rightful(m, heard[x], rogered[x] \cup swayed[x]) BY <1>1 DEF Earned, m
    <3> QED BY <1>1, <1>4, <2>1, <3>1, <3>2 DEF Earned, Still73, Some
  <2>3. CASE m.kind = "GRID" /\ (p.tx73 \/ p.nonstd)
    <3>1. rogered' = rogered /\ swayed' = swayed BY <1>3, <2>3
    <3>2. Rightful(m, heard'[x], rogered[x] \cup swayed[x]) BY <2>3 DEF Rightful
    <3> QED BY <1>1, <1>4, <2>1, <3>1, <3>2 DEF Earned, Still73, Some
  <2>4. CASE m.kind = "GRID" /\ ~p.tx73 /\ ~p.nonstd
    <3>1. ~q.tx73 /\ ~q.nonstd BY <1>4, <2>4 DEF Still73
    <3>2. Rightful(m, heard'[x], rogered'[x] \cup swayed'[x]) BY <2>4 DEF Rightful
    <3> QED BY <1>4, <3>1, <3>2 DEF Earned
  <2> QED BY <2>2, <2>3, <2>4
<1> QED BY <1>3, <1>5, <1>6, <1>7, <1>8

\* A transmission starts late:
LEMMA LateStartHolds == ASSUME IInv, LateStart PROVE IInv'
<1> DEFINE x == Owner
           p == st[x]
           q == StartTx(p)
<1>1. x \in Station BY OwnerStation DEF IInv, Types
<1> HIDE DEF x
<1>2. /\ p.auto /\ Does(x, q) /\ Anew(x, Chosen(p)) /\ UNCHANGED <<odd, phase, todo, seen>>
  BY DEF LateStart, x, airVars, Chosen
<1>3. Typed(p, x) /\ p.dx \in Some BY <1>1, StationTyped
<1>4. /\ Typed(q, x) /\ Chosen(q) = Chosen(p) /\ q.cur = Chosen(p) /\ q.tx
      /\ q.dx \in {p.dx, NoCall} /\ q.auto = p.auto /\ q.tune = p.tune
      /\ q.tx73 = p.tx73 /\ q.nonstd = p.nonstd
  <2> HIDE DEF p
  <2> QED BY <1>1, <1>3, StartOp
<1>5. Calm(p, q) /\ Still73(p, q)
  <2> HIDE DEF p, q
  <2> QED BY <1>2, <1>4 DEF Calm, Still73
<1>6. Spares(q, gone[x])
  <2>1. Spares(p, gone[x]) BY <1>1 DEF IInv, Fair
  <2> HIDE DEF p, q
  <2> QED BY <1>5, <2>1, CalmSpares
<1> HIDE DEF q
<1>7. /\ Earned(q, heard'[x], rogered'[x] \cup swayed'[x], rogered'[x])
      /\ heard' \in [Station -> [Calls -> AllReports \cup {0}]]
      /\ rogered' \in [Station -> SUBSET Some] /\ swayed' \in [Station -> SUBSET Some]
      /\ gone' = gone
      /\ \A s \in Station \ {x} :
           heard'[s] = heard[s] /\ rogered'[s] = rogered[s] /\ swayed'[s] = swayed[s]
  BY <1>1, <1>2, <1>4, <1>5, AnewEarned
<1>8. DOMAIN st' = Station BY <1>2 DEF Does, IInv, Types
<1>9. Types' BY <1>2, <1>7, <1>8 DEF IInv, Types
<1> QED BY <1>1, <1>2, <1>4, <1>6, <1>7, <1>9, OneStation

\* Second 0:
LEMMA BeginHolds == ASSUME IInv, Begin PROVE IInv'
<1> DEFINE x == Owner
           q(s) == IF s = x /\ st[s].auto THEN Second0(StartTx(Due(st[s]))) ELSE Due(st[s])
<1>1. x \in Station BY OwnerStation DEF IInv, Types
<1>2. ASSUME NEW s \in Station
      PROVE  /\ Typed(q(s), s) /\ Calm(st[s], q(s)) /\ Still73(st[s], q(s))
             /\ s = x /\ st[s].auto =>
                  Chosen(q(s)) = Chosen(st[s]) /\ q(s).cur = Chosen(st[s]) /\ q(s).dx \in {st[s].dx, NoCall}
  <2> DEFINE p == st[s]
             d == Due(p)
             r == StartTx(d)
             z == Second0(r)
  <2>1. Typed(p, s) /\ Same(p, d) BY StationTyped, SameOps
  <2>2. Typed(d, s) /\ Chosen(d) = Chosen(p) /\ Calm(p, d) /\ Still73(p, d)
    <3> HIDE DEF p, d
    <3> QED BY <2>1, SameCalm
  <2>3. CASE ~(s = x /\ p.auto)
    <3>1. q(s) = d BY <2>3
    <3> HIDE DEF p, d, q
    <3> QED BY <2>2, <2>3, <3>1 DEF p
  <2>4. CASE s = x /\ p.auto
    <3>1. q(s) = z BY <2>4
    <3>2. /\ Typed(r, s) /\ Chosen(r) = Chosen(d) /\ r.cur = Chosen(d) /\ r.tx
          /\ r.dx \in {d.dx, NoCall} /\ r.auto = d.auto /\ r.tune = d.tune
          /\ r.tx73 = d.tx73 /\ r.nonstd = d.nonstd
      <4> HIDE DEF d
      <4> QED BY <2>2, StartOp
    <3>3. Near(r, z) /\ (r.tune => z.tune) /\ z.nonstd = r.nonstd /\ Still73(r, z)
      <4> HIDE DEF r
      <4> QED BY <3>2, Second0Calm
    <3>4. Typed(z, s) /\ Chosen(z) = Chosen(r)
      <4> HIDE DEF r, z
      <4> QED BY <3>2, <3>3, NearTyped
    <3>5. Chosen(z) = Chosen(p) /\ z.cur = Chosen(p) /\ z.dx \in {p.dx, NoCall}
      <4> HIDE DEF p, d, r, z
      <4> QED BY <2>1, <2>2, <3>2, <3>3, <3>4 DEF Same, Near
    <3>6. Calm(p, z) /\ Still73(p, z)
      <4> HIDE DEF p, d, r, z
      <4> QED BY <2>1, <2>4, <3>2, <3>3, <3>5 DEF Same, Near, Calm, Still73
    <3> HIDE DEF r, z, d, q
    <3> QED BY <3>1, <3>4, <3>5, <3>6 DEF p
  <2> QED BY <2>3, <2>4
<1>3. \A s \in Station : st'[s] = q(s) /\ DOMAIN st' = Station BY DEF Begin
<1>4. phase' = "tx" /\ odd' = odd /\ todo' = todo /\ seen' = seen BY DEF Begin
<1>5. IF st[x].auto THEN Anew(x, Chosen(st[x])) ELSE UNCHANGED history BY DEF Begin, Chosen
<1> HIDE DEF q
<1>6. /\ Earned(q(x), heard'[x], rogered'[x] \cup swayed'[x], rogered'[x])
      /\ heard' \in [Station -> [Calls -> AllReports \cup {0}]]
      /\ rogered' \in [Station -> SUBSET Some] /\ swayed' \in [Station -> SUBSET Some]
      /\ gone' = gone
      /\ \A s \in Station \ {x} :
           heard'[s] = heard[s] /\ rogered'[s] = rogered[s] /\ swayed'[s] = swayed[s]
  <2>1. CASE st[x].auto
    <3>1. /\ Calm(st[x], q(x)) /\ Still73(st[x], q(x))
          /\ Chosen(q(x)) = Chosen(st[x]) /\ q(x).cur = Chosen(st[x]) /\ q(x).dx \in {st[x].dx, NoCall}
      BY <1>1, <1>2, <2>1
    <3>2. Anew(x, Chosen(st[x])) BY <1>5, <2>1
    <3> HIDE DEF x
    <3> QED BY <1>1, <3>1, <3>2, AnewEarned
  <2>2. CASE ~st[x].auto
    <3>1. heard' = heard /\ rogered' = rogered /\ swayed' = swayed /\ gone' = gone
      BY <1>5, <2>2 DEF history
    <3>2. Earned(st[x], heard[x], rogered[x] \cup swayed[x], rogered[x]) BY <1>1 DEF IInv, Fair
    <3>3. st[x].dx \in Some BY <1>1, StationTyped
    <3>4. rogered[x] \subseteq rogered[x] \cup swayed[x] OBVIOUS
    <3>5. Earned(q(x), heard[x], rogered[x] \cup swayed[x], rogered[x])
      <4>1. Calm(st[x], q(x)) /\ Still73(st[x], q(x)) BY <1>1, <1>2
      <4> HIDE DEF x
      <4> QED BY <3>2, <3>3, <3>4, <4>1, CalmEarned
    <3> QED BY <3>1, <3>5 DEF IInv, Types
  <2> QED BY <2>1, <2>2
<1> HIDE DEF x
<1>7. Types' BY <1>3, <1>4, <1>6, <1>1 DEF IInv, Types
<1>8. ASSUME NEW s \in Station PROVE Fair(s)'
  <2>1. Typed(q(s), s) /\ Calm(st[s], q(s)) /\ Still73(st[s], q(s)) BY <1>2
  <2>2. Fair(s) BY DEF IInv
  <2>3. Spares(q(s), gone[s]) BY <2>1, <2>2, CalmSpares DEF Fair
  <2>4. Earned(q(s), heard'[s], rogered'[s] \cup swayed'[s], rogered'[s])
    <3>1. CASE s = x BY <1>6, <3>1
    <3>2. CASE s # x
      <4>1. heard'[s] = heard[s] /\ rogered'[s] = rogered[s] /\ swayed'[s] = swayed[s] BY <1>6, <3>2
      <4>2. rogered[s] \subseteq rogered[s] \cup swayed[s] OBVIOUS
      <4>3. st[s].dx \in Some BY StationTyped
      <4>4. Earned(q(s), heard[s], rogered[s] \cup swayed[s], rogered[s])
        BY <2>1, <2>2, <4>2, <4>3, CalmEarned DEF Fair
      <4> QED BY <4>1, <4>4
    <3> QED BY <3>1, <3>2
  <2> QED BY <1>3, <1>6, <2>1, <2>3, <2>4 DEF Fair
<1> QED BY <1>7, <1>8 DEF IInv

\* A line makes more be earned, and the message it leads to with it.
LEMMA TakenEarned ==
  ASSUME IInv, NEW x \in Station, NEW l \in Lines, NEW q, Does(x, q), Taken(x, l), Typed(q, x),
         q.cur = st[x].cur, q.tx = st[x].tx, q.nonstd => st[x].nonstd \/ l.kind = "FREE73",
         Untouched(st[x], q, l) \/ Answered(st[x], q, l)
  PROVE  /\ Earned(q, heard'[x], rogered'[x] \cup swayed'[x], rogered'[x])
         /\ heard' \in [Station -> [Calls -> AllReports \cup {0}]]
         /\ rogered' \in [Station -> SUBSET Some] /\ swayed' \in [Station -> SUBSET Some]
         /\ \A s \in Station \ {x} :
              heard'[s] = heard[s] /\ rogered'[s] = rogered[s] /\ swayed'[s] = swayed[s]
<1> DEFINE p == st[x]
           R == rogered[x] \cup swayed[x]
           S == rogered'[x] \cup swayed'[x]
<1>1. Earned(p, heard[x], R, rogered[x]) /\ Typed(p, x) BY DEF IInv, Fair
<1>2. /\ heard \in [Station -> [Calls -> AllReports \cup {0}]]
      /\ rogered \in [Station -> SUBSET Some] /\ swayed \in [Station -> SUBSET Some]
      /\ DOMAIN st = Station
  BY DEF IInv, Types
<1>3. st'[x] = q BY <1>2 DEF Does
<1>4. /\ heard' = (IF l.to = x /\ l.kind \in Rpt THEN [heard EXCEPT ![x][l.from] = l.rpt] ELSE heard)
      /\ rogered' = (IF ~Standard(l) THEN [rogered EXCEPT ![x] = Calls]
                     ELSE IF l.to = x /\ Is73(l) THEN [rogered EXCEPT ![x] = @ \cup {l.from}]
                     ELSE rogered)
      /\ swayed' = [swayed EXCEPT ![x] =
           @ \cup (IF l.to = x /\ Is73(l) THEN {p.dx} ELSE {})
             \cup (IF p.tx73 /\ q.dx = l.from THEN {l.from} ELSE {})]
  BY <1>3 DEF Taken, Rpt
<1>5. l.from \in Calls /\ l.from \in Some /\ (l.kind \in Rpt => l.rpt \in AllReports) /\ 0 \notin AllReports
  BY QsoAssumption DEF Lines, Some
<1>6. p.me = x /\ p.dx \in Some /\ q.dx \in Some /\ p.cur \in Messages BY <1>1 DEF Typed, Formed
<1>7. Chosen(p) \in Messages BY <1>1, TextTyped DEF Typed, Formed, Chosen
<1>8. q.cur = p.cur /\ q.tx = p.tx /\ (q.nonstd => p.nonstd \/ l.kind = "FREE73")
      /\ (Untouched(p, q, l) \/ Answered(p, q, l))
  OBVIOUS
<1> HIDE DEF p
<1>9. \A s \in Station \ {x} :
        heard'[s] = heard[s] /\ rogered'[s] = rogered[s] /\ swayed'[s] = swayed[s]
  BY <1>2, <1>4
<1>10. heard' \in [Station -> [Calls -> AllReports \cup {0}]]
  <2>1. CASE l.to = x /\ l.kind \in Rpt
    <3>1. heard' = [heard EXCEPT ![x][l.from] = l.rpt] BY <1>4, <2>1
    <3> QED BY <1>2, <1>5, <2>1, <3>1
  <2>2. CASE ~(l.to = x /\ l.kind \in Rpt) BY <1>2, <1>4, <2>2
  <2> QED BY <2>1, <2>2
<1>11. rogered' \in [Station -> SUBSET Some] /\ swayed' \in [Station -> SUBSET Some]
  <2>1. Calls \subseteq Some BY CallsGiven
  <2> QED BY <1>2, <1>4, <1>5, <1>6, <2>1
<1>12. \A c \in Calls : heard[x][c] # 0 => heard'[x][c] # 0
  <2>1. CASE l.to = x /\ l.kind \in Rpt
    <3>1. heard' = [heard EXCEPT ![x][l.from] = l.rpt] BY <1>4, <2>1
    <3> QED BY <1>2, <1>5, <2>1, <3>1
  <2>2. CASE ~(l.to = x /\ l.kind \in Rpt) BY <1>4, <2>2
  <2> QED BY <2>1, <2>2
<1>13. rogered[x] \cap Calls \subseteq rogered'[x] BY <1>2, <1>4
<1>14. swayed'[x] = swayed[x] \cup (IF l.to = x /\ Is73(l) THEN {p.dx} ELSE {})
                               \cup (IF p.tx73 /\ q.dx = l.from THEN {l.from} ELSE {})
  BY <1>2, <1>4
<1>15. R \cap Calls \subseteq S BY <1>13, <1>14
<1>16. ASSUME NEW m \in Messages, Rightful(m, heard[x], R) PROVE Rightful(m, heard'[x], S)
  <2>1. m.kind \in {"RR73", "73"} => m.to \in Calls BY DEF Messages
  <2> HIDE DEF R, S
  <2> QED BY <1>12, <1>15, <1>16, <2>1 DEF Rightful
<1>17. q.tx => Rightful(q.cur, heard'[x], S)
  <2> HIDE DEF R, S
  <2> QED BY <1>1, <1>6, <1>8, <1>16 DEF Earned
<1>18. q.nonstd => Calls \subseteq rogered'[x]
  <2>1. CASE l.kind = "FREE73"
    <3>1. ~Standard(l) BY <2>1 DEF Standard
    <3> QED BY <1>2, <1>4, <3>1
  <2>2. CASE l.kind # "FREE73"
    <3>1. q.nonstd => Calls \subseteq rogered[x] BY <1>1, <1>8, <2>2 DEF Earned
    <3> QED BY <1>13, <3>1
  <2> QED BY <2>1, <2>2
<1>19. CASE Untouched(p, q, l)
  <2>1. Rightful(Chosen(q), heard'[x], S)
    <3> HIDE DEF R, S
    <3> QED BY <1>1, <1>7, <1>16, <1>19 DEF Earned, Untouched
  <2>2. q.tx73 => q.dx \in S \cup {NoCall}
    <3>1. CASE p.tx73
      <4>1. p.dx \in R \cup {NoCall} BY <1>1, <3>1 DEF Earned
      <4>2. p.dx \in Calls \cup {NoCall} BY <1>6 DEF Some
      <4> HIDE DEF R, S
      <4> QED BY <1>15, <1>19, <4>1, <4>2 DEF Untouched
    <3>2. CASE ~p.tx73 /\ q.tx73
      <4>1. l.to = x /\ (~Standard(l) \/ Is73(l)) BY <1>6, <1>19, <3>2 DEF Untouched
      <4>2. q.dx = p.dx BY <1>19 DEF Untouched
      <4>3. CASE ~Standard(l)
        <5>1. rogered'[x] = Calls BY <1>2, <1>4, <4>3
        <5> QED BY <1>6, <5>1 DEF Some
      <4>4. CASE Is73(l) BY <1>14, <4>1, <4>2, <4>4
      <4> QED BY <4>1, <4>3, <4>4
    <3> QED BY <3>1, <3>2
  <2> QED BY <1>9, <1>10, <1>11, <1>17, <1>18, <2>1, <2>2 DEF Earned
<1>20. CASE Answered(p, q, l)
  <2>1. Rightful(Chosen(q), heard'[x], S)
    <3>1. Chosen(q).to = l.from BY <1>20 DEF Answered
    <3>2. Chosen(q).kind = "RR73" => heard'[x][l.from] # 0
      <4>1. SUFFICES ASSUME Chosen(q).kind = "RR73" PROVE heard'[x][l.from] # 0 OBVIOUS
      <4>2. l.to = x /\ l.kind \in Rpt BY <1>6, <1>20, <4>1 DEF Answered
      <4>3. heard' = [heard EXCEPT ![x][l.from] = l.rpt] BY <1>4, <4>2
      <4>4. heard'[x][l.from] = l.rpt BY <1>2, <1>5, <4>3
      <4> QED BY <1>5, <4>2, <4>4
    <3>3. Chosen(q).kind = "73" => l.from \in rogered'[x]
      <4>1. SUFFICES ASSUME Chosen(q).kind = "73" PROVE l.from \in rogered'[x] OBVIOUS
      <4>2. l.to = x /\ Is73(l) /\ Standard(l) BY <1>6, <1>20, <4>1 DEF Answered
      <4>3. rogered' = [rogered EXCEPT ![x] = @ \cup {l.from}] BY <1>4, <4>2
      <4> QED BY <1>2, <4>3
    <3> QED BY <3>1, <3>2, <3>3 DEF Rightful
  <2>2. q.tx73 => q.dx \in S \cup {NoCall}
    <3>1. q.tx73 = p.tx73 /\ q.dx = l.from BY <1>20 DEF Answered
    <3> QED BY <1>14, <3>1
  <2> QED BY <1>9, <1>10, <1>11, <1>17, <1>18, <2>1, <2>2 DEF Earned
<1> QED BY <1>8, <1>19, <1>20

\* A line of the decoder.  If it shows that the DX call answers another, the stop is due.
LEMMA LineHolds == ASSUME IInv, NEW s \in Station, Line(s) PROVE IInv'
<1> DEFINE p == st[s]
<1>1. PICK l \in todo[s].lines :
        /\ Does(s, ReadLine(p, l)) /\ Heard(s, l)
        /\ todo' = [todo EXCEPT ![s].lines = @ \ {l}]
  BY DEF Line
<1> DEFINE q == ReadLine(p, l)
<1>2. todo \in [Station -> [busy : BOOLEAN, lines : SUBSET Lines]] /\ gone \in [Station -> SUBSET Some]
  BY DEF IInv, Types
<1>3. l \in Lines BY <1>1, <1>2
<1>4. Typed(p, s) /\ Spares(p, gone[s]) BY DEF IInv, Fair
<1>5. /\ Typed(q, s) /\ q.cur = p.cur /\ q.tx = p.tx
      /\ p.tune \/ AnsweredOther(p, l) => q.tune
      /\ q.nonstd => p.nonstd \/ l.kind = "FREE73"
      /\ Untouched(p, q, l) \/ (Answered(p, q, l) /\ ~AnsweredOther(p, l))
  <2> HIDE DEF p
  <2> QED BY <1>3, <1>4, ReadOp
<1>6. Does(s, q) /\ Taken(s, l) BY <1>1 DEF Heard
<1>7. gone' = IF AnsweredOther(p, l) /\ l.from = p.dx
              THEN [gone EXCEPT ![s] = @ \cup {l.from}] ELSE [gone EXCEPT ![s] = @ \ {l.from}]
  BY <1>1 DEF Heard
<1>8. UNCHANGED <<airVars, seen>> BY DEF Line
<1>9. l.from \in Some BY <1>3, CallsGiven DEF Lines
<1>10. Spares(q, gone'[s])
  <2>1. CASE q.tune BY <2>1 DEF Spares
  <2>2. CASE ~q.tune
    <3> HIDE DEF p, q
    <3>1. ~p.tune /\ ~AnsweredOther(p, l) BY <1>5, <2>2
    <3>2. gone'[s] = gone[s] \ {l.from} BY <1>2, <1>7, <3>1
    <3>3. q.tx => Spared(q.cur, gone'[s]) BY <1>4, <1>5, <3>1, <3>2 DEF Spares, Spared
    <3>4. q.auto \/ q.tx => Spared(Chosen(q), gone'[s])
      <4>1. CASE Untouched(p, q, l) BY <1>4, <1>5, <3>1, <3>2, <4>1 DEF Spares, Spared, Untouched
      <4>2. CASE Answered(p, q, l) BY <3>2, <4>2 DEF Spared, Answered
      <4> QED BY <1>5, <4>1, <4>2
    <3> QED BY <3>3, <3>4 DEF Spares
  <2> QED BY <2>1, <2>2
<1>11. /\ Earned(q, heard'[s], rogered'[s] \cup swayed'[s], rogered'[s])
       /\ heard' \in [Station -> [Calls -> AllReports \cup {0}]]
       /\ rogered' \in [Station -> SUBSET Some] /\ swayed' \in [Station -> SUBSET Some]
       /\ \A t \in Station \ {s} :
            heard'[t] = heard[t] /\ rogered'[t] = rogered[t] /\ swayed'[t] = swayed[t]
  <2> HIDE DEF q
  <2> QED BY <1>3, <1>5, <1>6, TakenEarned
<1>12. todo' \in [Station -> [busy : BOOLEAN, lines : SUBSET Lines]] BY <1>1, <1>2
<1>13. gone' \in [Station -> SUBSET Some] /\ \A t \in Station \ {s} : gone'[t] = gone[t]
  BY <1>2, <1>7, <1>9
<1>14. DOMAIN st' = Station BY <1>6 DEF Does, IInv, Types
<1>15. Types' BY <1>8, <1>11, <1>12, <1>13, <1>14 DEF IInv, Types, airVars
<1> HIDE DEF q
<1> QED BY <1>5, <1>6, <1>10, <1>11, <1>13, <1>15, OneStation

\* A line the operator clicks on:
LEMMA DoubleClickHolds == ASSUME IInv, NEW s \in Station, DoubleClick(s) PROVE IInv'
<1> DEFINE p == st[s]
<1>1. PICK l \in seen[s] \ todo[s].lines :
        /\ Standard(l) /\ Operates(s, processMessage(p, l)) /\ Taken(s, l)
        /\ gone' = [gone EXCEPT ![s] = {}]
  BY DEF DoubleClick
<1> DEFINE q == processMessage(p, l)
<1>2. seen \in [Station -> SUBSET Lines] /\ gone \in [Station -> SUBSET Some] BY DEF IInv, Types
<1>3. l \in Lines BY <1>1, <1>2
<1>4. Typed(p, s) /\ p.me = s BY StationTyped DEF Typed, Formed
<1>5. /\ Typed(q, s) /\ q.dx = l.from /\ q.cur = p.cur /\ q.tx = p.tx
      /\ q.tune = p.tune /\ q.tx73 = p.tx73 /\ q.nonstd = p.nonstd
      /\ Chosen(q).to = l.from
      /\ Chosen(q).kind = "RR73" => l.to = s /\ l.kind \in Rpt
      /\ Chosen(q).kind = "73" => l.to = s /\ Is73(l)
  <2> HIDE DEF p
  <2> QED BY <1>1, <1>3, <1>4, ProcessTyped
<1>6. Answered(p, q, l)
  <2> HIDE DEF p, q
  <2> QED BY <1>1, <1>4, <1>5 DEF Answered
<1>7. Does(s, q) /\ UNCHANGED <<airVars, todo, seen>> BY <1>1 DEF Operates
<1>8. Spares(q, gone'[s])
  <2>1. gone'[s] = {} BY <1>1, <1>2
  <2> HIDE DEF q
  <2> QED BY <2>1 DEF Spares, Spared
<1>9. /\ Earned(q, heard'[s], rogered'[s] \cup swayed'[s], rogered'[s])
      /\ heard' \in [Station -> [Calls -> AllReports \cup {0}]]
      /\ rogered' \in [Station -> SUBSET Some] /\ swayed' \in [Station -> SUBSET Some]
      /\ \A t \in Station \ {s} :
           heard'[t] = heard[t] /\ rogered'[t] = rogered[t] /\ swayed'[t] = swayed[t]
  <2> HIDE DEF q
  <2> QED BY <1>1, <1>3, <1>5, <1>6, <1>7, TakenEarned
<1>10. gone' \in [Station -> SUBSET Some] /\ \A t \in Station \ {s} : gone'[t] = gone[t]
  BY <1>1, <1>2
<1>11. DOMAIN st' = Station BY <1>7 DEF Does, IInv, Types
<1>12. Types' BY <1>7, <1>9, <1>10, <1>11 DEF IInv, Types, airVars
<1> HIDE DEF q
<1> QED BY <1>5, <1>7, <1>8, <1>9, <1>10, <1>12, OneStation

\* The other acts of the operator:
LEMMA OperatorHolds == ASSUME IInv, NEW s \in Station, Operator(s) PROVE IInv'
<1> DEFINE p == st[s]
<1>1. Typed(p, s) /\ Shape(p) /\ p.dx \in Some BY StationTyped
<1>2. Earned(p, heard[s], rogered[s] \cup swayed[s], rogered[s]) /\ Spares(p, gone[s]) BY DEF IInv, Fair
<1>3. heard' = heard /\ rogered' = rogered /\ swayed' = swayed BY DEF Operator
<1>4. UNCHANGED <<airVars, todo, seen>> BY DEF Operator, Operates
<1>5. todo' \in [Station -> [busy : BOOLEAN, lines : SUBSET Lines]] /\ gone \in [Station -> SUBSET Some]
  BY <1>4 DEF IInv, Types
<1>6. \/ Does(s, AutoTx(CallCQ(p), TRUE)) /\ gone' = gone
      \/ Does(s, stopTx(p)) /\ gone' = gone
      \/ Does(s, AutoTx(p, TRUE)) /\ gone' = [gone EXCEPT ![s] = {}]
      \/ Does(s, clearDX(p)) /\ gone' = gone
      \/ Does(s, LogQSO(p)) /\ gone' = gone
  BY DEF Operator, Operates
<1>7. DOMAIN st' = Station BY <1>6 DEF Does, IInv, Types
<1>8. ASSUME gone' \in [Station -> SUBSET Some] PROVE Types'
  BY <1>3, <1>4, <1>7, <1>8 DEF IInv, Types, airVars
<1>9. CASE Does(s, AutoTx(CallCQ(p), TRUE)) /\ gone' = gone
  <2> DEFINE a == CallCQ(p)
             q == AutoTx(a, TRUE)
  <2>1. Typed(a, s) /\ Chosen(a).kind = "CQ" /\ a.dx = NoCall /\ Kept(p, a)
    <3> HIDE DEF p
    <3> QED BY <1>1, CallCQOp
  <2>2. /\ Typed(q, s) /\ Chosen(q) = Chosen(a) /\ q.cur = a.cur /\ q.dx = a.dx
        /\ q.tx = a.tx /\ q.tune = a.tune /\ q.tx73 = a.tx73 /\ q.nonstd = a.nonstd
    <3> HIDE DEF a
    <3> QED BY <2>1, AutoOp
  <2>3. Earned(q, heard[s], rogered[s] \cup swayed[s], rogered[s])
    <3> HIDE DEF p, a, q
    <3> QED BY <1>2, <2>1, <2>2 DEF Earned, Rightful, Kept
  <2>4. Spares(q, gone[s])
    <3> HIDE DEF p, a, q
    <3> QED BY <1>2, <2>1, <2>2 DEF Spares, Spared, Kept
  <2>5. Does(s, q) /\ gone' = gone BY <1>9
  <2>6. Types' BY <1>5, <1>8, <2>5
  <2> HIDE DEF q
  <2> QED BY <1>3, <2>2, <2>3, <2>4, <2>5, <2>6, OneStation
<1>10. CASE Does(s, stopTx(p)) /\ gone' = gone
  <2> DEFINE q == stopTx(p)
  <2>1. /\ Typed(q, s) /\ Chosen(q) = Chosen(p) /\ q.cur = p.cur /\ q.dx = p.dx
        /\ ~q.auto /\ ~q.tx /\ q.tx73 = p.tx73 /\ q.nonstd = p.nonstd
    <3> HIDE DEF p
    <3> QED BY <1>1, StopOp
  <2>2. Calm(p, q) /\ Still73(p, q)
    <3> HIDE DEF p, q
    <3> QED BY <2>1 DEF Calm, Still73
  <2>3. Does(s, q) /\ gone' = gone BY <1>10
  <2> HIDE DEF q
  <2> QED BY <1>3, <1>4, <1>5, <2>1, <2>2, <2>3, CalmStep
<1>11. CASE Does(s, AutoTx(p, TRUE)) /\ gone' = [gone EXCEPT ![s] = {}]
  <2> DEFINE q == AutoTx(p, TRUE)
  <2>1. /\ Typed(q, s) /\ Chosen(q) = Chosen(p) /\ q.cur = p.cur /\ q.dx = p.dx
        /\ q.tx = p.tx /\ q.tx73 = p.tx73 /\ q.nonstd = p.nonstd
    <3> HIDE DEF p
    <3> QED BY <1>1, AutoOp
  <2>2. Earned(q, heard[s], rogered[s] \cup swayed[s], rogered[s])
    <3> HIDE DEF p, q
    <3> QED BY <1>2, <2>1 DEF Earned
  <2>3. gone'[s] = {} /\ gone' \in [Station -> SUBSET Some]
        /\ \A t \in Station \ {s} : gone'[t] = gone[t]
    BY <1>5, <1>11
  <2>4. Spares(q, gone'[s])
    <3> HIDE DEF q
    <3> QED BY <2>3 DEF Spares, Spared
  <2>5. Does(s, q) BY <1>11
  <2>6. Types' BY <1>8, <2>3
  <2> HIDE DEF q
  <2> QED BY <1>3, <2>1, <2>2, <2>3, <2>4, <2>5, <2>6, OneStation
<1>12. CASE Does(s, clearDX(p)) /\ gone' = gone
  <2> DEFINE q == clearDX(p)
  <2>1. Typed(q, s) /\ Chosen(q).kind = "CQ" /\ q.dx = NoCall /\ Kept(p, q)
    <3> HIDE DEF p
    <3> QED BY <1>1, ClearOp
  <2>2. Calm(p, q) /\ Still73(p, q)
    <3> HIDE DEF p, q
    <3> QED BY <2>1, CQCalm
  <2>3. Does(s, q) /\ gone' = gone BY <1>12
  <2> HIDE DEF q
  <2> QED BY <1>3, <1>4, <1>5, <2>1, <2>2, <2>3, CalmStep
<1>13. CASE Does(s, LogQSO(p)) /\ gone' = gone
  <2>1. Same(p, LogQSO(p)) BY <1>1, SameOps
  <2> QED BY <1>3, <1>4, <1>5, <1>13, <2>1, SameStep
<1> QED BY <1>6, <1>9, <1>10, <1>11, <1>12, <1>13

-----------------------------------------------------------------------------
\* The other station listens.
LEMMA TwoStations ==
  ASSUME odd \in BOOLEAN
  PROVE  /\ Owner \in Station /\ Listener \in Station /\ Listener # Owner
         /\ Station = {Owner, Listener}
<1>1. Owner \in Station BY OwnerStation
<1>2. IsFiniteSet(Station) /\ Cardinality(Station) = 2 BY QsoAssumption
<1>3. \E t \in Station : t # Owner
  <2>1. SUFFICES ASSUME \A t \in Station : t = Owner PROVE FALSE OBVIOUS
  <2>2. Station = {Owner} BY <1>1, <2>1
  <2>3. Cardinality({Owner}) = 1 BY FS_Singleton
  <2> QED BY <1>2, <2>2, <2>3
<1>4. Listener \in Station /\ Listener # Owner BY <1>3 DEF Listener
<1> DEFINE T == {Owner} \cup {Listener}
<1>5. IsFiniteSet({Owner}) /\ Cardinality({Owner}) = 1 BY FS_Singleton
<1>6. Cardinality(T) = 2
  <2>1. Listener \notin {Owner} BY <1>4
  <2> QED BY <1>5, <2>1, FS_AddElement
<1>7. T \subseteq Station BY <1>1, <1>4
<1>8. T = Station BY <1>2, <1>6, <1>7, FS_Subset
<1> QED BY <1>1, <1>4, <1>8

\* What the third operator sends is a message.
LEMMA OthersTyped == \A m \in OtherLines : m \in Messages /\ m.kind # "NONE"
<1>1. Other \in Calls /\ Other \in Some /\ NoCall \in Some BY CallsGiven
<1>2. "CQ" \in Some \cup {"CQ"} /\ NoCall \in Some \cup {"CQ"} BY <1>1
<1>3. "CQ" \notin Rpt /\ "GRID" \notin Rpt /\ "FREE73" \notin Rpt BY DEF Rpt
<1>4. 0 \in AllReports \cup {0} /\ "FREE73" \in Kinds BY DEF Kinds
<1>5. Msg(Other, "CQ", "CQ", 0) \in Messages BY <1>1, <1>2, <1>3, <1>4, KindsGiven, MsgTyped
<1>6. Msg(Other, NoCall, "FREE73", 0) \in Messages BY <1>1, <1>2, <1>3, <1>4, MsgTyped
<1>7. ASSUME NEW s \in Station
      PROVE  /\ Msg(Other, s, "GRID", 0) \in Messages
             /\ \A r \in AllReports : Msg(Other, s, "RPT", r) \in Messages
  <2>1. s \in Calls /\ s \in Some \cup {"CQ"} BY <1>7, CallsGiven
  <2>2. Msg(Other, s, "GRID", 0) \in Messages BY <1>1, <1>3, <1>4, <2>1, KindsGiven, MsgTyped
  <2>3. ASSUME NEW r \in AllReports PROVE Msg(Other, s, "RPT", r) \in Messages
    <3>1. r \in AllReports \cup {0} OBVIOUS
    <3> QED BY <1>1, <2>1, <3>1, KindsGiven, MsgTyped
  <2> QED BY <2>2, <2>3
<1>8. ASSUME NEW m \in OtherLines
      PROVE  m \in Messages
  <2>1. OtherReports \subseteq AllReports BY DEF AllReports
  <2> QED BY <1>5, <1>6, <1>7, <2>1 DEF OtherLines
<1>9. ASSUME NEW m \in OtherLines
      PROVE  m.kind # "NONE"
  BY DEF OtherLines, Msg
<1> QED BY <1>8, <1>9

\* ... and what is sent can be a decoder's line.
LEMMA LinedTyped ==
  ASSUME NEW m \in Messages, m.kind # "NONE", NEW n \in AllReports
  PROVE  Lined(m, n) \in Lines
BY DEF Lined, Lines, Messages

\* Second 46: the transmission is over, and its lines are with the listener.
LEMMA MiddleHolds ==
  ASSUME IInv, NEW lines, \A m \in lines : m \in Messages /\ m.kind # "NONE", NEW lost \in BOOLEAN,
         Middle(lines, lost)
  PROVE  IInv'
<1> DEFINE own == st[Owner]
           out == IF lost \/ Air.kind = "NONE" THEN {} ELSE {Air}
           rx == IF st[Listener].clear = "rx48" THEN logClearDX(st[Listener]) ELSE st[Listener]
           q(s) == IF s = Listener THEN [rx EXCEPT !.first = TRUE]
                   ELSE IF own.tx THEN Over(Second46(own))
                   ELSE [own EXCEPT !.first = TRUE]
           got(n, o) == {Lined(m, IF m.from = Other THEN o ELSE n) : m \in out \cup lines}
<1>1. Owner \in Station /\ Listener \in Station /\ Listener # Owner /\ Station = {Owner, Listener}
  BY TwoStations DEF IInv, Types
<1>2. PICK n \in Reports, o \in OtherReports :
        /\ st' = [s \in Station |-> q(s)]
        /\ todo' = [s \in Station |-> [busy |-> s = Listener \/ ~own.tx,
                                       lines |-> IF s = Listener THEN got(n, o) ELSE {}]]
        /\ seen' = IF got(n, o) = {} THEN seen ELSE [seen EXCEPT ![Listener] = got(n, o)]
  BY DEF Middle
<1>3. /\ phase' = "rx" /\ odd' = odd
      /\ heard' = heard /\ rogered' = rogered /\ swayed' = swayed /\ gone' = gone
  BY DEF Middle
<1>4. got(n, o) \subseteq Lines
  <2>1. Typed(own, Owner) BY <1>1, StationTyped
  <2>2. Air \in Messages BY <2>1, NoMsgTyped DEF Air, Typed, Formed
  <2>3. \A m \in out \cup lines : m \in Messages /\ m.kind # "NONE" BY <2>2
  <2>4. n \in AllReports /\ o \in AllReports BY DEF AllReports
  <2> HIDE DEF out
  <2>5. ASSUME NEW m \in out \cup lines PROVE Lined(m, IF m.from = Other THEN o ELSE n) \in Lines
    <3>1. CASE m.from = Other BY <2>3, <2>4, <3>1, LinedTyped
    <3>2. CASE m.from # Other BY <2>3, <2>4, <3>2, LinedTyped
    <3> QED BY <3>1, <3>2
  <2> QED BY <2>5
<1>5. todo' \in [Station -> [busy : BOOLEAN, lines : SUBSET Lines]]
  <2> HIDE DEF got, own
  <2>1. \A s \in Station : [busy |-> s = Listener \/ ~own.tx, lines |-> IF s = Listener THEN got(n, o) ELSE {}]
                           \in [busy : BOOLEAN, lines : SUBSET Lines]
    <3> TAKE s \in Station
    <3> DEFINE b == s = Listener \/ ~own.tx
               c == IF s = Listener THEN got(n, o) ELSE {}
    <3>1. b \in BOOLEAN OBVIOUS
    <3>2. c \in SUBSET Lines BY <1>4
    <3>3. [busy |-> b, lines |-> c] \in [busy : BOOLEAN, lines : SUBSET Lines]
      <4> HIDE DEF b, c
      <4> QED BY <3>1, <3>2
    <3> QED BY <3>3
  <2> QED BY <1>2, <2>1
<1>6. seen' \in [Station -> SUBSET Lines]
  <2>1. seen \in [Station -> SUBSET Lines] BY DEF IInv, Types
  <2> HIDE DEF got
  <2> QED BY <1>1, <1>2, <1>4, <2>1
<1>7. Types'
  <2>1. DOMAIN st' = Station BY <1>2
  <2> QED BY <1>3, <1>5, <1>6, <2>1 DEF IInv, Types
<1>8. ASSUME NEW s \in Station
      PROVE  Typed(q(s), s) /\ Calm(st[s], q(s)) /\ Still73(st[s], q(s))
  <2> DEFINE p == st[s]
  <2>0. Typed(p, s) /\ Shape(p) BY StationTyped
  <2>1. CASE s = Listener
    <3> DEFINE z == [rx EXCEPT !.first = TRUE]
    <3>1. q(s) = z BY <2>1
    <3>2. Typed(rx, s) /\ Calm(p, rx) /\ Still73(p, rx) /\ Shape(rx)
      <4>1. CASE st[Listener].clear = "rx48"
        <5> DEFINE w == logClearDX(p)
        <5>1. rx = w BY <2>1, <4>1
        <5>2. Typed(w, s) /\ Chosen(w).kind = "CQ" /\ w.dx = NoCall /\ Kept(p, w)
          <6> HIDE DEF p
          <6> QED BY <2>0, LogClearOp
        <5>3. Calm(p, w) /\ Still73(p, w)
          <6> HIDE DEF p, w
          <6> QED BY <5>2, CQCalm
        <5>4. Shape(w)
          <6> HIDE DEF w
          <6> QED BY <5>2 DEF Typed, Formed
        <5> HIDE DEF w, rx
        <5> QED BY <5>1, <5>2, <5>3, <5>4
      <4>2. CASE st[Listener].clear # "rx48"
        <5>1. rx = p BY <2>1, <4>2
        <5>2. Near(p, p) BY <2>0 DEF Near
        <5>3. Calm(p, p) /\ Still73(p, p) BY <2>0, <5>2, NearCalm DEF Still73
        <5> HIDE DEF rx, p
        <5> QED BY <2>0, <5>1, <5>3
      <4> QED BY <4>1, <4>2
    <3>3. Same(rx, z)
      <4> HIDE DEF rx
      <4> QED BY <3>2, SameOps
    <3>4. Typed(z, s) /\ Chosen(z) = Chosen(rx)
      <4> HIDE DEF rx, z
      <4> QED BY <3>2, <3>3, SameCalm
    <3>5. Calm(p, z) /\ Still73(p, z)
      <4> HIDE DEF rx, z, p
      <4> QED BY <3>2, <3>3, <3>4 DEF Same, Near, Calm, Still73
    <3> HIDE DEF q, z, p
    <3> QED BY <3>1, <3>4, <3>5 DEF p
  <2>2. CASE s # Listener /\ own.tx
    <3>1. s = Owner /\ own = p BY <1>1, <2>2
    <3> DEFINE e == Second46(p)
               z == Over(e)
    <3>2. q(s) = z BY <2>2, <3>1
    <3>3. Near(p, e) /\ e.tune = p.tune /\ e.tx73 = p.tx73 /\ ~e.nonstd
      <4> HIDE DEF p
      <4> QED BY <2>0, Second46Op
    <3>4. Typed(e, s) /\ Chosen(e) = Chosen(p)
      <4> HIDE DEF p, e
      <4> QED BY <2>0, <3>3, NearTyped
    <3>5. /\ Typed(z, s) /\ Chosen(z) = Chosen(e) /\ z.dx = e.dx
          /\ (z.auto => e.auto) /\ ~z.tx /\ z.tx73 = e.tx73 /\ z.nonstd = e.nonstd
          /\ e.tune => z.tune \/ ~z.auto
      <4> HIDE DEF e
      <4> QED BY <3>4, OverOp
    <3>6. Calm(p, z) /\ Still73(p, z)
      <4> HIDE DEF p, e, z
      <4> QED BY <3>3, <3>4, <3>5 DEF Near, Calm, Still73
    <3> HIDE DEF q, z, p
    <3> QED BY <3>2, <3>5, <3>6 DEF p
  <2>3. CASE s # Listener /\ ~own.tx
    <3>1. s = Owner /\ own = p BY <1>1, <2>3
    <3> DEFINE z == [p EXCEPT !.first = TRUE]
    <3>2. q(s) = z BY <2>3, <3>1
    <3>3. Same(p, z)
      <4> HIDE DEF p
      <4> QED BY <2>0, SameOps
    <3>4. Typed(z, s) /\ Calm(p, z) /\ Still73(p, z)
      <4> HIDE DEF p, z
      <4> QED BY <2>0, <3>3, SameCalm
    <3> HIDE DEF q, z, p
    <3> QED BY <3>2, <3>4 DEF p
  <2> QED BY <2>1, <2>2, <2>3
<1>9. ASSUME NEW s \in Station PROVE Fair(s)'
  <2>1. Fair(s) /\ st[s].dx \in Some BY StationTyped DEF IInv
  <2>2. rogered[s] \subseteq rogered[s] \cup swayed[s] OBVIOUS
  <2>3. st'[s] = q(s) BY <1>2
  <2>4. Typed(q(s), s) /\ Calm(st[s], q(s)) /\ Still73(st[s], q(s)) BY <1>8
  <2> HIDE DEF q
  <2>5. Earned(q(s), heard[s], rogered[s] \cup swayed[s], rogered[s])
    BY <2>1, <2>2, <2>4, CalmEarned DEF Fair
  <2>6. Spares(q(s), gone[s]) BY <2>1, <2>4, CalmSpares DEF Fair
  <2> QED BY <1>3, <2>3, <2>4, <2>5, <2>6 DEF Fair
<1> QED BY <1>7, <1>9 DEF IInv

\* Every step keeps the invariant.
LEMMA StepHolds == ASSUME IInv, [Next]_vars PROVE IInv'
<1>1. CASE UNCHANGED vars
  BY <1>1 DEF vars, airVars, history, IInv, Types, Fair
<1>2. CASE Begin BY <1>2, BeginHolds
<1>3. CASE LateStart BY <1>3, LateStartHolds
<1>4. CASE Decoded
  <2>1. Middle({}, FALSE) BY <1>4 DEF Decoded
  <2>2. \A m \in {} : m \in Messages /\ m.kind # "NONE" OBVIOUS
  <2> QED BY <2>1, <2>2, MiddleHolds
<1>5. CASE Lost
  <2>1. Middle({}, TRUE) BY <1>5 DEF Lost
  <2>2. \A m \in {} : m \in Messages /\ m.kind # "NONE" OBVIOUS
  <2> QED BY <2>1, <2>2, MiddleHolds
<1>6. CASE OtherHeard
  <2>1. PICK m \in OtherLines : Middle({m}, FALSE) BY <1>6 DEF OtherHeard
  <2>2. \A l \in {m} : l \in Messages /\ l.kind # "NONE" BY OthersTyped
  <2> QED BY <2>1, <2>2, MiddleHolds
<1>7. CASE End BY <1>7, EndHolds
<1>8. ASSUME NEW s \in Station, Second(s) \/ Restart(s) \/ AfterLast73(s) \/ TimerFires(s)
                                \/ LogTimer(s) \/ Line(s) \/ Finish(s)
      PROVE  IInv'
  BY <1>8, SecondHolds, RestartHolds, AfterLast73Holds, TimerHolds, LogTimerHolds, LineHolds,
     FinishHolds
<1>9. ASSUME NEW s \in Station, DoubleClick(s) \/ Operator(s) PROVE IInv'
  BY <1>9, DoubleClickHolds, OperatorHolds
<1> QED BY <1>1, <1>2, <1>3, <1>4, <1>5, <1>6, <1>7, <1>8, <1>9 DEF Next, Clockwork

\* IInv is an invariant, for every number of acts, losses and foreign lines, every setting and
\* every length of the history, with and without late decodes.
THEOREM InvariantHolds == Spec => []IInv
BY InitHolds, StepHolds, PTL DEF Spec

-----------------------------------------------------------------------------
\* A message goes on the air only at the middle of a period.
LEMMA SentByMiddle ==
  ASSUME [Next]_vars, phase = "tx", phase' = "rx"
  PROVE  \E lines : \E lost \in BOOLEAN : Middle(lines, lost)
<1>1. ~UNCHANGED vars /\ ~Begin /\ ~LateStart /\ ~End
  BY DEF vars, airVars, Begin, LateStart, End
<1>2. ASSUME NEW s \in Station
      PROVE  ~(Second(s) \/ Restart(s) \/ AfterLast73(s) \/ TimerFires(s)
               \/ LogTimer(s) \/ Line(s) \/ Finish(s) \/ DoubleClick(s) \/ Operator(s))
  BY DEF Second, Restart, AfterLast73, TimerFires, LogTimer, Line, Finish, DoubleClick, Operator,
         Operates, airVars
<1>3. Decoded \/ Lost \/ OtherHeard BY <1>1, <1>2 DEF Next, Clockwork
<1> QED BY <1>3 DEF Decoded, Lost, OtherHeard

\* QsoEarned: RR73 is sent only to a station whose report was received in this QSO, 73 only to
\* one that rogered, or after free text, or was in the DX call when another's 73 was read.
THEOREM QsoIsEarned == Spec => QsoEarned
<1>1. IInv /\ [Next]_vars =>
        /\ [OnAir({"RR73"}) => heard[Owner][Air.to] # 0]_vars
        /\ [OnAir({"73"}) => Air.to \in rogered[Owner] \cup swayed[Owner]]_vars
  <2>1. SUFFICES ASSUME IInv, Air.kind \in {"RR73", "73"}
                 PROVE  Rightful(Air, heard[Owner], rogered[Owner] \cup swayed[Owner])
    BY DEF OnAir, Rightful
  <2>2. Owner \in Station BY <2>1, OwnerStation DEF IInv, Types
  <2>3. Earned(st[Owner], heard[Owner], rogered[Owner] \cup swayed[Owner], rogered[Owner])
    BY <2>1, <2>2 DEF IInv, Fair
  <2>4. NoMsg.kind = "NONE" BY DEF NoMsg, Msg
  <2> QED BY <2>1, <2>3, <2>4 DEF Air, Earned
<1> QED BY <1>1, InvariantHolds, PTL DEF Spec, QsoEarned, RogersEarned, SignedOff

\* NotCalledOver: a station that was heard answering another is not sent a grid or a report by
\* the call that is under way.
THEOREM NobodyCalledOver == Spec => NotCalledOver
<1>1. IInv /\ [Next]_vars => [OnAir({"GRID", "RPT"}) => Air.to \notin gone[Owner]]_vars
  <2>1. SUFFICES ASSUME IInv, [Next]_vars, OnAir({"GRID", "RPT"})
                 PROVE  Air.to \notin gone[Owner]
    OBVIOUS
  <2>2. Owner \in Station BY <2>1, OwnerStation DEF IInv, Types
  <2>3. Spares(st[Owner], gone[Owner]) BY <2>1, <2>2 DEF IInv, Fair
  <2>4. Quiet BY <2>1, SentByMiddle DEF OnAir, Middle
  <2>5. ~st[Owner].tune BY <2>2, <2>4 DEF Quiet, Idle
  <2>6. NoMsg.kind = "NONE" BY DEF NoMsg, Msg
  <2>7. st[Owner].tx /\ Air = st[Owner].cur /\ Air.kind \in {"GRID", "RPT"}
    BY <2>1, <2>6 DEF OnAir, Air
  <2> QED BY <2>3, <2>5, <2>7 DEF Spares, Spared
<1> QED BY <1>1, InvariantHolds, PTL DEF Spec, NotCalledOver
=============================================================================
