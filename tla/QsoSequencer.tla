---------------------------- MODULE QsoSequencer ----------------------------
(***************************************************************************)
(* AutoSeq: two stations running the program work each other over a lossy   *)
(* channel.  readFromStdout takes the decoder's lines one by one, keeps     *)
(* m_qsohistory and lets processMessage choose the next message; guiUpdate  *)
(* sends it at the next transmit period; single-shot timers call the slots  *)
(* of buttons in between.                                                   *)
(*                                                                          *)
(* Periods are those of JT65, 60 s.  A period is cut at the seconds the     *)
(* code looks at: "begin" is second 0, "tx" the time up to second 46, "rx"  *)
(* the rest, in which the audio of the period is decoded.  What is left of  *)
(* a slow decode is read in the next period.  Calls are standard ones,      *)
(* RR73 is chosen, dates, grids and frequencies are left out.               *)
(***************************************************************************)
EXTENDS Integers, Sequences, FiniteSets

CONSTANTS
  Station,    \* the two stations; the first transmits in even periods
  First, Other, \* ... the first one, and a third operator
  NoCall,     \* an empty DX Call entry
  Reports,    \* signal reports the stations give each other (not 0, which is none)
  OtherReports, \* ... and those given to and by the third operator
  SkipTx1, QuickCall, DisableTxOn73, Autolog, ClearDXset,
  Tab2,       \* stations that show QSO messages tab 2
  BackToCQ, Retransmit, SameReport, Same73, \* the N of Sequencing, 0 when off
  Watchdog,   \* m_watchdogLimit: equal messages in a row, 0 when off
  HaltFor,    \* periods for which a halted call is not answered (6)
  HistLen,    \* entries in m_qsohistory (14)
  LateLines,  \* decodes may last into the next period
  Free73,     \* the third operator also sends 73 in free text
  MaxClicks, MaxLoss, MaxOther \* bounds: operator, channel, third operator

AllReports == Reports \cup OtherReports
Settings == {SkipTx1, QuickCall, DisableTxOn73, Autolog, ClearDXset, LateLines, Free73}
Upto(n, k) == IF n > k THEN n ELSE n + 1
Larger(S) == CHOOSE n \in S : \A k \in S : k <= n
ASSUME QsoAssumption ==
  /\ IsFiniteSet(Station) /\ Cardinality(Station) = 2 /\ First \in Station /\ Other \notin Station
  /\ NoCall \notin Station \cup {Other} /\ 0 \notin AllReports
  /\ Settings \subseteq BOOLEAN /\ Tab2 \subseteq Station
  /\ {BackToCQ, Retransmit, SameReport, Same73, Watchdog} \subseteq Nat /\ HaltFor \in Nat \ {0}
  /\ HistLen > 2 * Larger({1, BackToCQ, Retransmit, SameReport - 1, Same73 - 1}) + 1
  /\ {MaxClicks, MaxLoss, MaxOther} \subseteq Nat

VARIABLES
  odd,     \* the period's parity
  phase,   \* "begin", "tx" or "rx"
  st,      \* the program of each station
  todo,    \* lines the decoder has not delivered; busy until DecodeFinished
  seen,    \* lines on the screen that the operator may double-click
  clicks, losses, others, \* interventions so far
  log,     \* history: how often a call was logged in this QSO, since the operator's last act
  heard, told,            \* history: reports heard from and told to a call in a QSO
  rogered, gone,          \* history: calls that rogered, calls heard answering another
  swayed,                 \* history: calls signed off to for another one's 73, or chosen
                          \* while a 73 was due
  meddled,                \* history: the operator has acted while a QSO was to be logged
  steered                 \* history: calls whose QSO the operator has led by a click on a line

airVars == <<odd, phase>>
bounds == <<clicks, losses, others>>
history == <<log, heard, told, rogered, gone, swayed, meddled, steered>>
vars == <<airVars, st, todo, seen, bounds, history>>

Calls == Station \cup {Other}
Owner == CHOOSE s \in Station : (s = First) = ~odd
Kinds == {"CQ", "GRID", "RPT", "RRPT", "RR73", "73", "FREE73", "MYFREE73", "NONE"}
Msg(f, t, k, r) == [from |-> f, to |-> t, kind |-> k, rpt |-> r]
NoMsg == Msg(NoCall, NoCall, "NONE", 0)
\* The third operator calls CQ, or one of the stations.
OtherLines ==
  {Msg(Other, "CQ", "CQ", 0)} \cup {Msg(Other, s, "GRID", 0) : s \in Station}
    \cup {Msg(Other, s, "RPT", r) : s \in Station, r \in OtherReports}
    \cup (IF Free73 THEN {Msg(Other, NoCall, "FREE73", 0)} ELSE {})
Is73(m) == m.kind \in {"RR73", "73"}
\* QString::contains on a message: every string contains the empty one.
Names(m, c) == c = NoCall \/ c = m.from \/ c = m.to

-----------------------------------------------------------------------------
\* m_qsohistory, newest first.  An entry is the set of the phrases in it.
Phrase(c, k, r) == [call |-> c, kind |-> k, rpt |-> r]
Has(e, c, k) == \E x \in e : x.kind \in k /\ (c = NoCall \/ x.call = c)
Mentions(e, c) == c = NoCall \/ \E x \in e : x.call = c
Blank(n) == [i \in 1..n |-> {}]
Prepend(h, e) == SubSeq(<<e>> \o h, 1, Len(h))
Cleared(e) == <<e>> \o Blank(HistLen - 1)

Reported == {"REPORTRCVD", "RRPRTRCVD"}
Replied == {"REPLIEDCQGRID", "REPLIEDCQRPRT"}
Ended == {"RR73RCVD", "73RCVD"}
Received(k) == CASE k = "RRPT" -> "RRPRTRCVD" [] k = "RPT" -> "REPORTRCVD"
                 [] k = "RR73" -> "RR73RCVD" [] k = "73" -> "73RCVD"
                 [] k = "GRID" -> "GRIDRCVD" [] OTHER -> "FREEMSG"
RepliedCQ(k) == CASE k = "GRID" -> "REPLIEDCQGRID" [] k \in {"RPT", "RRPT"} -> "REPLIEDCQRPRT"
                  [] OTHER -> Received(k)

-----------------------------------------------------------------------------
\* The messages of a station's tabs

\* dxCallEntry: a change stops the timer that would clear it.
SetDX(p, c) == IF c = p.dx THEN p ELSE [p EXCEPT !.dx = c, !.clear = "off"]

Progress == <<"REPLYING", "REPORT", "ROGER_REPORT", "ROGERS", "SIGNOFF", "CALLING">>

CQ(p) == Msg(p.me, "CQ", "CQ", 0)
\* tx1 .. tx6 hold what genStdMsgs last wrote; 7 is genMsg.
Text(p, n) ==
  IF n = 6 THEN CQ(p)
  ELSE IF n = 7 THEN p.gen
  ELSE IF p.std.to = NoCall THEN NoMsg
  ELSE CASE n = 1 -> Msg(p.me, p.std.to, "GRID", 0)
         [] n = 2 -> Msg(p.me, p.std.to, "RPT", p.std.rpt)
         [] n = 3 -> Msg(p.me, p.std.to, "RRPT", p.std.rpt)
         [] n = 4 -> Msg(p.me, p.std.to, "RR73", 0)
         [] n = 5 -> Msg(p.me, p.std.to, "73", 0)

genStdMsgs(p, r) ==
  IF p.dx = NoCall
  THEN [p EXCEPT !.std = [to |-> NoCall, rpt |-> 0], !.gen = NoMsg]
  ELSE [p EXCEPT !.std = [to |-> p.dx, rpt |-> r], !.rpt = r, !.ntx = 1,
                 !.prog = IF SkipTx1 THEN "REPORT" ELSE "REPLYING"]

\* Tx message n is chosen; tab 2 sends a copy of it.
Choose(p, n) ==
  LET q == [p EXCEPT !.prog = Progress[n], !.ntx = n]
  IN IF p.me \in Tab2 THEN [q EXCEPT !.ntx = 7, !.gen = Text(q, n)] ELSE q

clearDX(p) ==
  LET q == genStdMsgs(SetDX([p EXCEPT !.old = p.dx], NoCall), 0)
  IN IF p.me \in Tab2 THEN [q EXCEPT !.gen = CQ(p), !.ntx = 7] ELSE [q EXCEPT !.ntx = 6]

logClearDX(p) == [clearDX([p EXCEPT !.clear = "off"]) EXCEPT !.prog = "CALLING"]

Button(p, n) ==
  LET q == genStdMsgs(p, p.rpt)
  IN [q EXCEPT !.gen = Text(q, n), !.ntx = 7, !.prog = Progress[n], !.restart = p.tx]
CallCQ(p) == Button(SetDX(p, NoCall), 6)
Send73(p) == Button(p, 5)

AutoTx(p, b) == [p EXCEPT !.auto = b, !.progTX = IF b THEN @ ELSE "NONE"]
stopTx(p) == [(IF p.auto THEN AutoTx(p, FALSE) ELSE p) EXCEPT !.tx = FALSE, !.rep = 0]

\* Timers that are not running are started.
StartClear(p, when) == IF p.clear = "off" THEN [p EXCEPT !.clear = when] ELSE p
HaltTx(p, when) == StartClear([p EXCEPT !.tune = TRUE], when)
-----------------------------------------------------------------------------
\* readFromStdout

ToMe(p, l) == l.to = p.me
Standard(l) == l.kind \notin {"FREE73", "MYFREE73"}
Partner(p) == IF p.dx # NoCall THEN p.dx ELSE p.old

\* What a line adds to the history.
Record(p, l) ==
  IF ~ToMe(p, l) THEN p
  ELSE IF ~Standard(l) THEN [p EXCEPT !.mine = TRUE]
  ELSE LET q == [p EXCEPT !.mine = TRUE] IN
    IF Partner(p) # NoCall
    THEN IF l.from = Partner(p)
         THEN [q EXCEPT !.hist = Prepend(@, {Phrase(l.from, Received(l.kind), l.rpt)})]
         ELSE q
    ELSE IF p.progTX = "CALLING"
    THEN LET r == p.replied \cup {Phrase(l.from, RepliedCQ(l.kind), 0)}
         IN [q EXCEPT !.replied = r, !.first = FALSE,
                      !.hist = IF p.first THEN Prepend(@, r) ELSE <<r>> \o Tail(@)]
    ELSE IF ClearDXset /\ p.progTX = "ROGERS"
    THEN [q EXCEPT !.hist = LET h == IF l.kind \in {"RR73", "73"}
                                     THEN <<{Phrase(l.from, Received(l.kind), 0)}>> \o @ ELSE @
                            IN SubSeq(h, 1, Len(h) - 1)]
    ELSE q

\* The operator I called answers another one.
AnsweredOther(p, l) ==
  /\ p.auto /\ Standard(l)
  /\ p.prog \in (IF SkipTx1 THEN {"REPLYING", "REPORT"} ELSE {"REPLYING"})
  /\ p.dx \in {NoCall, l.from}
  /\ l.to \notin {"CQ", p.me} /\ ~Is73(l)

\* The same report has come SameReport times, in every other entry.
SameAgain(p, l) ==
  /\ p.auto /\ SameReport > 0 /\ ToMe(p, l) /\ Partner(p) # NoCall
  /\ Names(l, Partner(p)) /\ \E x \in p.hist[1] : x.kind \in Reported
  /\ \A i \in 1..(SameReport - 1) :
       /\ Has(p.hist[2*i + 1], Partner(p), Reported)
       /\ p.hist[2*i + 1] = p.hist[2*i - 1]

\* A report starts the counts of unanswered messages again.
Count(p, l) ==
  LET fromDX == ToMe(p, l) /\ p.dx \in {NoCall, l.from}
      report == fromDX /\ l.kind \in {"RPT", "RRPT"}
      stage(g) == p.prog = g /\ p.progTX = g
  IN IF ~p.auto THEN p
     ELSE [p EXCEPT
       !.nCQ = IF BackToCQ > 0 /\ stage("REPORT") /\ report THEN 0 ELSE @,
       !.nRCQ = IF Retransmit > 0 /\ fromDX
                   /\ (IF SkipTx1 THEN stage("REPORT") /\ l.kind = "RRPT" ELSE stage("REPLYING") /\ report)
                THEN 0 ELSE @]

\* Halts that keep the line from processMessage.
Halts_not(p, l) == p
Halts(p, l) ==
  LET q == IF AnsweredOther(p, l) THEN HaltTx(p, "soon") ELSE p
  IN IF SameAgain(p, l)
     THEN [q EXCEPT !.tune = TRUE, !.halted = Partner(p), !.left = IF @ = 0 THEN HaltFor ELSE @, !.clear = "soon"]
     ELSE q
Skips(p, l) == AnsweredOther(p, l) \/ SameAgain(p, l)

\* processMessage reads wrong sequences as if they were right.
Corrected(p, l) ==
  LET with == p.dx # NoCall /\ Names(l, p.dx) /\ Names(l, p.me)
  IN CASE l.kind = "RRPT" /\ p.dx = NoCall /\ Names(l, p.me)
            /\ Has(p.hist[1], NoCall, {"REPLIEDCQRPRT"}) -> "RPT"
       [] l.kind = "RRPT" /\ with /\ Has(p.hist[2], p.dx, {"GRIDTXD"})
            /\ Has(p.hist[1], NoCall, {"RRPRTRCVD"}) -> "RPT"
       [] l.kind = "RPT" /\ with /\ Has(p.hist[2], p.dx, {"REPORTTXD"})
            /\ Has(p.hist[1], NoCall, {"REPORTRCVD"}) -> "RRPT"
       [] OTHER -> l.kind

Answer_shifted(p, k) == CASE k \in {"RR73", "73", "RRPT"} -> 5 [] k = "RPT" -> 4 [] OTHER -> 3
Answer(p, k) == CASE k \in {"RR73", "73"} -> 5 [] k = "RRPT" -> 4 [] k = "RPT" -> 3 [] OTHER -> 2

\* The sender is the new partner, and the messages to him carry the report on what was heard.
Partnered(p, l) == genStdMsgs(SetDX(p, l.from), l.snr)
\* What is sent next: the next message of the contact, or the first to a station that is working
\* somebody else.
Response(p, l, k) == IF ToMe(p, l) THEN Answer(p, k) ELSE IF SkipTx1 THEN 2 ELSE 1
processMessage(p, l) ==
  IF ~Standard(l) THEN p
  ELSE LET k == Corrected(p, l)
           r == Choose(Partnered(p, l), Response(p, l, k))
       IN [r EXCEPT !.rcvd = IF ToMe(p, l) /\ k \in {"RPT", "RRPT"} THEN l.rpt ELSE @,
                    !.restart = @ \/ p.tx, !.auto = @ \/ QuickCall]

\* AutoSeq
Sequence(p, l) ==
  LET goodbye == Has(p.hist[1], p.dx, {"RREPORTTXD"}) /\ p.dx # NoCall
  IN IF ~ToMe(p, l) THEN p
     ELSE IF ~Standard(l) THEN [p EXCEPT !.tx73 = @ \/ goodbye]
     ELSE IF l.from = p.halted THEN p
     ELSE IF p.dx = l.from THEN processMessage(p, l)
     ELSE IF p.dx # NoCall THEN [p EXCEPT !.tx73 = @ \/ (goodbye /\ Is73(l))]
     ELSE IF Mentions(p.hist[3], l.from) /\ ~Is73(l) THEN processMessage(p, l)
     ELSE p

\* DecodedText::report: the report of a message to me, of anyone's while there
\* is no DX call.
RptRcvd(p, l) ==
  IF ToMe(p, l) /\ l.kind \in {"RPT", "RRPT"} /\ p.dx \in {NoCall, l.from}
  THEN [p EXCEPT !.rcvd = l.rpt] ELSE p

ReadLine(p, l) ==
  LET q == Record(p, l)
      r == [q EXCEPT !.nonstd = @ \/ l.kind = "FREE73"]
      s == Count(Halts(r, l), l)
  IN RptRcvd(IF Skips(r, l) THEN s ELSE Sequence(s, l), l)

DecodeFinished(p) ==
  [p EXCEPT !.hist = IF p.mine THEN @ ELSE Prepend(@, {Phrase(NoCall, "NONERCVD", 0)}),
            !.mine = FALSE, !.replied = {}]

-----------------------------------------------------------------------------
\* guiUpdate

\* The message part, at the start of a transmission or when it is restarted.
Compose_unrogered(p) ==
  LET m == Text(p, p.ntx)
      firstOf == Is73(m) /\ (~Is73(p.cur) \/ ~Names(p.cur, p.dx))
  IN [p EXCEPT !.cur = m, !.sent73 = firstOf, !.restart = FALSE, !.log = @ \/ (firstOf /\ Autolog),
        !.sent = IF m.kind = "RPT" THEN m.rpt ELSE @]
Compose(p) ==
  LET m == Text(p, p.ntx)
      firstOf == Is73(m) /\ (~Is73(p.cur) \/ ~Names(p.cur, p.dx))
  IN [p EXCEPT !.cur = m, !.sent73 = firstOf, !.restart = FALSE,
        !.log = @ \/ (firstOf /\ Autolog), !.off = @ \/ (Is73(m) /\ DisableTxOn73),
        !.sent = IF m.kind \in {"RPT", "RRPT"} THEN m.rpt ELSE @]

StartTx(p) ==
  LET q == Compose(p)
      r == [q EXCEPT !.tx = TRUE, !.msg0 = q.cur,
                     !.rep = IF q.cur = p.msg0 THEN Upto(@, Watchdog) ELSE 0,
                     !.prog = IF p.ntx = 7 THEN @ ELSE Progress[p.ntx]]
  IN IF r.prog = "CALLING" THEN SetDX(r, NoCall) ELSE r

\* Once per second while transmitting, and what second 0 adds.
EachSecond(p) == [p EXCEPT !.progTX = p.prog]

Unanswered(p) ==
  IF p.progTX # "REPORT" \/ p.dx = NoCall THEN [p EXCEPT !.nCQ = 0]
  ELSE IF BackToCQ = 0 THEN p
  ELSE LET n == Upto(p.nCQ, BackToCQ)
       IN IF n > BackToCQ /\ Has(p.hist[2*BackToCQ + 1], p.dx, Replied)
          THEN [p EXCEPT !.cq = TRUE, !.nCQ = 0] ELSE [p EXCEPT !.nCQ = n]

NotHeard(p) ==
  LET n == Upto(p.nRCQ, Retransmit)
      last == p.hist[2*Retransmit]
      silent == \/ ~SkipTx1 /\ p.progTX = "REPLYING" /\ Has(last, p.dx, {"GRIDTXD"})
                \/ /\ SkipTx1 /\ p.progTX = "REPORT" /\ Has(last, p.dx, {"REPORTTXD"})
                   /\ ~Has(p.hist[2*Retransmit + 1], p.dx, Replied)
  IN IF Retransmit = 0 \/ p.dx = NoCall THEN p
     ELSE IF p.progTX # (IF SkipTx1 THEN "REPORT" ELSE "REPLYING") THEN [p EXCEPT !.nRCQ = 0]
     ELSE IF n > Retransmit /\ silent
     THEN [HaltTx(p, "boundary") EXCEPT !.nRCQ = 0]
     ELSE [p EXCEPT !.nRCQ = n]

Same73Again(p) ==
  /\ Same73 > 0 /\ \E x \in p.hist[1] : x.kind \in Ended
  /\ \A i \in 1..(Same73 - 1) :
       Has(p.hist[2*i + 1], NoCall, Ended) /\ p.hist[2*i + 1] = p.hist[2*i - 1]

Second0(p) ==
  LET q == EachSecond(p)
      free == /\ q.nonstd /\ q.progTX = "ROGER_REPORT" /\ Has(q.hist[1], NoCall, {"NONERCVD"})
              /\ Has(q.hist[2], q.dx, {"RREPORTTXD"})
      r == NotHeard(Unanswered([q EXCEPT !.tx73 = @ \/ free]))
  IN IF Same73Again(r) THEN HaltTx(r, "soon") ELSE r

\* Second 46: what was sent goes into the history.
Ending(p, k) ==
  LET q == [p EXCEPT !.hist = Prepend(@, {Phrase(p.dx, k, 0)})]
      back == \E i \in 1..Len(p.hist) : Has(p.hist[i], NoCall, {"CQTXD"})
  IN [StartClear(q, "rx48") EXCEPT !.off = @ \/ (p.auto /\ ~back)]

Second46(p0) ==
  LET p == [EachSecond(p0) EXCEPT !.nonstd = FALSE]
      report == Phrase(p.dx, "REPORTTXD", 0)
  IN IF p.progTX = "CALLING" \/ p.msg0.kind = "CQ"
     THEN [p EXCEPT !.hist = Cleared({Phrase(NoCall, "CQTXD", 0)})]
     ELSE CASE
          p.progTX = "REPLYING" -> [p EXCEPT !.hist = Cleared({Phrase(p.dx, "GRIDTXD", 0)})]
       [] p.progTX = "REPORT" ->
            [p EXCEPT !.hist =
               IF SkipTx1 /\ ~Mentions(p.hist[2], p.dx) /\ ~Has(p.hist[3], p.dx, {"REPORTTXD"})
               THEN Cleared({report}) ELSE Prepend(@, {report})]
       [] p.progTX = "ROGER_REPORT" ->
            [p EXCEPT !.hist = Prepend(@, {Phrase(p.dx, "RREPORTTXD", 0)})]
       [] p.progTX = "ROGERS" -> Ending(p, "RR73TXD")
       [] OTHER -> Ending(p, "73TXD")
\* stopTx2 when the transmission is over.
Over(p) == IF Watchdog > 0 /\ p.rep >= Watchdog - 1 THEN stopTx(p) ELSE [p EXCEPT !.tx = FALSE]

-----------------------------------------------------------------------------
\* The two stations

Program(s) ==
  [me |-> s, auto |-> FALSE, dx |-> NoCall, old |-> NoCall,
   ntx |-> 7, gen |-> Msg(s, "CQ", "CQ", 0), std |-> [to |-> NoCall, rpt |-> 0], rpt |-> 0,
   prog |-> "CALLING", progTX |-> "NONE", hist |-> Blank(HistLen),
   replied |-> {}, first |-> TRUE, mine |-> FALSE, nonstd |-> FALSE, halted |-> NoCall, left |-> 0,
   nCQ |-> 0, nRCQ |-> 0, cur |-> NoMsg, msg0 |-> NoMsg, rep |-> 0, sent73 |-> FALSE,
   sent |-> 0, rcvd |-> 0, tx |-> FALSE, restart |-> FALSE,
   tune |-> FALSE, cq |-> FALSE, off |-> FALSE, tx73 |-> FALSE, log |-> FALSE, clear |-> "off"]

\* The first station calls CQ, the other one listens.
Init ==
  /\ odd = FALSE /\ phase = "begin"
  /\ st = [s \in Station |-> [Program(s) EXCEPT !.auto = (s = First)]]
  /\ todo = [s \in Station |-> [busy |-> FALSE, lines |-> {}]]
  /\ seen = [s \in Station |-> {}]
  /\ clicks = 0 /\ losses = 0 /\ others = 0
  /\ log = [s \in Station |-> [c \in Calls |-> 0]]
  /\ heard = [s \in Station |-> [c \in Calls |-> 0]] /\ told = heard
  /\ rogered = [s \in Station |-> {}] /\ gone = rogered /\ swayed = rogered
  /\ meddled = [s \in Station |-> FALSE] /\ steered = [s \in Station |-> {}]

Does(s, p) == st' = [st EXCEPT ![s] = p]
Live == phase \in {"tx", "rx"}

\* Nothing is left for the next passes of the event loop.
Idle(p) == /\ ~(p.tune \/ p.cq \/ p.off \/ p.tx73 \/ p.log \/ p.restart)
           /\ p.clear # "soon" /\ (p.sent73 => p.auto)
Quiet == \A s \in Station : Idle(st[s])

\* A timer that ends with the period has a fraction of a second to go; the one
\* that forgets the halted call counts periods.
Due(p) == [p EXCEPT !.clear = IF @ = "boundary" THEN "soon" ELSE @,
                    !.left = IF @ = 0 THEN 0 ELSE @ - 1,
                    !.halted = IF p.left = 1 THEN NoCall ELSE @]

\* A grid in answer to a CQ begins a QSO with that station; a 73 that is due, or was
\* heard in free text, counts for the new one too.
Anew(s, m) ==
  LET new(f) == IF m.kind = "GRID" THEN [f EXCEPT ![s][m.to] = 0] ELSE f
      without(f) == IF m.kind = "GRID" /\ ~st[s].tx73 /\ ~st[s].nonstd
                    THEN [f EXCEPT ![s] = @ \ {m.to}] ELSE f
  IN /\ heard' = new(heard) /\ told' = new(told) /\ log' = new(log)
     /\ rogered' = without(rogered) /\ swayed' = without(swayed) /\ UNCHANGED <<gone, meddled>>
     /\ steered' = IF m.kind = "GRID" THEN [steered EXCEPT ![s] = @ \ {m.to}] ELSE steered

Begin ==
  /\ phase = "begin" /\ phase' = "tx"
  /\ IF st[Owner].auto THEN Anew(Owner, Text(st[Owner], st[Owner].ntx)) ELSE UNCHANGED history
  /\ st' = [s \in Station |-> IF s = Owner /\ st[s].auto THEN Second0(StartTx(Due(st[s])))
                              ELSE Due(st[s])]
  /\ UNCHANGED <<odd, todo, seen, bounds>>

\* Auto was switched on after second 0.
LateStart ==
  LET p == st[Owner]
  IN /\ phase = "tx" /\ p.auto /\ ~p.tx /\ Does(Owner, StartTx(p))
     /\ Anew(Owner, Text(p, p.ntx))
     /\ UNCHANGED <<airVars, todo, seen, bounds>>

Second(s) ==
  /\ phase = "tx" /\ st[s].tx /\ EachSecond(st[s]) # st[s] /\ Does(s, EachSecond(st[s]))
  /\ UNCHANGED <<airVars, todo, seen, bounds, history>>

\* m_restart composes a message whether or not a transmission is left.
Restart(s) ==
  /\ Live /\ st[s].restart /\ Does(s, Compose(st[s]))
  /\ UNCHANGED <<airVars, todo, seen, bounds, history>>

AfterLast73(s) ==
  LET p == [st[s] EXCEPT !.sent73 = FALSE]
  IN /\ Live /\ st[s].sent73 /\ ~st[s].auto /\ ~st[s].restart
     /\ Does(s, IF s \in Tab2 THEN [p EXCEPT !.gen = CQ(p), !.ntx = 7] ELSE p)
     /\ UNCHANGED <<airVars, todo, seen, bounds, history>>

\* Single-shot timers
TimerFires(s) ==
  LET p == st[s]
  IN /\ Live
     /\ \/ p.tune /\ Does(s, stopTx([p EXCEPT !.tune = FALSE]))
        \/ p.cq /\ Does(s, CallCQ([p EXCEPT !.cq = FALSE]))
        \/ p.off /\ Does(s, AutoTx([p EXCEPT !.off = FALSE], FALSE))
        \/ p.tx73 /\ Does(s, Send73([p EXCEPT !.tx73 = FALSE]))
        \/ p.clear = "soon" /\ Does(s, logClearDX(p))
     /\ UNCHANGED <<airVars, todo, seen, bounds, history>>

\* on_logQSOButton_clicked and the log window accepted at once.
LogQSO(p) == IF ClearDXset /\ Partner(p) # NoCall THEN StartClear(p, "boundary") ELSE p

LogTimer(s) ==
  /\ Live /\ st[s].log /\ Does(s, LogQSO([st[s] EXCEPT !.log = FALSE]))
  /\ log' = IF Partner(st[s]) = NoCall \/ meddled[s] THEN log ELSE [log EXCEPT ![s][Partner(st[s])] = Upto(@, 1)]
  /\ meddled' = [meddled EXCEPT ![s] = FALSE]
  /\ UNCHANGED <<airVars, todo, seen, bounds, heard, told, rogered, gone, swayed, steered>>

\* A line is read, by the program or the operator who clicks on it.
Taken(s, l) ==
  /\ heard' = IF l.to = s /\ l.kind \in {"RPT", "RRPT"}
              THEN [heard EXCEPT ![s][l.from] = l.rpt] ELSE heard
  /\ rogered' = IF ~Standard(l) THEN [rogered EXCEPT ![s] = Calls]
                ELSE IF l.to = s /\ Is73(l) THEN [rogered EXCEPT ![s] = @ \cup {l.from}] ELSE rogered
  /\ swayed' = [swayed EXCEPT ![s] =
       @ \cup (IF l.to = s /\ Is73(l) THEN {st[s].dx} ELSE {})
         \cup (IF st[s].tx73 /\ st'[s].dx = l.from THEN {l.from} ELSE {})]
Heard(s, l) ==
  /\ Taken(s, l) /\ UNCHANGED meddled
  /\ steered' = IF l.to = s /\ l.kind = "GRID" THEN [steered EXCEPT ![s] = @ \ {l.from}] ELSE steered
  /\ log' = IF l.to = s /\ l.kind \in {"GRID", "RRPT"} THEN [log EXCEPT ![s][l.from] = 0] ELSE log
  /\ gone' = IF AnsweredOther(st[s], l) /\ l.from = st[s].dx
             THEN [gone EXCEPT ![s] = @ \cup {l.from}] ELSE [gone EXCEPT ![s] = @ \ {l.from}]

Line(s) ==
  /\ Live
  /\ \E l \in todo[s].lines :
       /\ Does(s, ReadLine(st[s], l)) /\ Heard(s, l)
       /\ todo' = [todo EXCEPT ![s].lines = @ \ {l}]
  /\ UNCHANGED <<airVars, seen, bounds, told>>

Finish(s) ==
  /\ Live /\ todo[s].busy /\ todo[s].lines = {}
  /\ Does(s, DecodeFinished(st[s])) /\ todo' = [todo EXCEPT ![s].busy = FALSE]
  /\ UNCHANGED <<airVars, seen, bounds, history>>

\* What is on the air in this period, and what the other station decodes of it.
Air == IF st[Owner].tx THEN st[Owner].cur ELSE NoMsg
Listener == CHOOSE s \in Station : s # Owner
Lined(m, n) == [from |-> m.from, to |-> m.to, kind |-> m.kind, rpt |-> m.rpt, snr |-> n]

Middle(lines, lost) ==
  /\ phase = "tx" /\ phase' = "rx" /\ Quiet
  /\ ~(st[Owner].auto /\ ~st[Owner].tx) /\ \A s \in Station : ~todo[s].busy
  /\ LET out == IF lost \/ Air.kind = "NONE" THEN {} ELSE {Air}
         own == st[Owner]
         rx == IF st[Listener].clear = "rx48" THEN logClearDX(st[Listener]) ELSE st[Listener]
     IN \E n \in Reports, o \in OtherReports :
          LET got == {Lined(m, IF m.from = Other THEN o ELSE n) : m \in out \cup lines} IN
          /\ st' = [s \in Station |->
                      IF s = Listener THEN [rx EXCEPT !.first = TRUE]
                      ELSE IF own.tx THEN Over(Second46(own))
                      ELSE [own EXCEPT !.first = TRUE]]
          /\ todo' = [s \in Station |-> [busy |-> s = Listener \/ ~own.tx,
                                         lines |-> IF s = Listener THEN got ELSE {}]]
          /\ seen' = IF got = {} THEN seen ELSE [seen EXCEPT ![Listener] = got]
  /\ told' = IF Air.kind \in {"RPT", "RRPT"} THEN [told EXCEPT ![Owner][Air.to] = Air.rpt] ELSE told
  /\ UNCHANGED <<odd, clicks, log, heard, rogered, gone, swayed, meddled, steered>>

Decoded == Middle({}, FALSE) /\ UNCHANGED <<losses, others>>
Lost == /\ losses < MaxLoss /\ Air.kind # "NONE" /\ losses' = losses + 1
        /\ Middle({}, TRUE) /\ UNCHANGED others
OtherHeard == /\ others < MaxOther /\ others' = others + 1 /\ UNCHANGED losses
              /\ \E m \in OtherLines : m.to # Owner /\ Middle({m}, FALSE)

End ==
  /\ phase = "rx" /\ phase' = "begin" /\ Quiet
  /\ LateLines \/ \A s \in Station : ~todo[s].busy
  /\ odd' = ~odd
  /\ UNCHANGED <<st, todo, seen, bounds, history>>

-----------------------------------------------------------------------------
\* The operator

Operates(s, p) ==
  /\ Live /\ clicks < MaxClicks /\ clicks' = clicks + 1 /\ Does(s, p)
  /\ log' = [log EXCEPT ![s] = [c \in Calls |-> 0]]
  /\ meddled' = [meddled EXCEPT ![s] = @ \/ st[s].log]
  /\ UNCHANGED <<airVars, todo, seen, losses, others, told>>

DoubleClick(s) ==
  \E l \in seen[s] \ todo[s].lines :
    /\ Standard(l) /\ Operates(s, processMessage(st[s], l)) /\ Taken(s, l)
    /\ gone' = [gone EXCEPT ![s] = {}] /\ steered' = [steered EXCEPT ![s] = Calls]

Operator(s) ==
  /\ \/ Operates(s, AutoTx(CallCQ(st[s]), TRUE)) /\ UNCHANGED gone
     \/ st[s].auto /\ Operates(s, stopTx(st[s])) /\ UNCHANGED gone
     \/ ~st[s].auto /\ Operates(s, AutoTx(st[s], TRUE)) /\ gone' = [gone EXCEPT ![s] = {}]
     \/ st[s].dx # NoCall /\ Operates(s, clearDX(st[s])) /\ UNCHANGED gone
     \/ Partner(st[s]) # NoCall /\ Operates(s, LogQSO(st[s])) /\ UNCHANGED gone
  /\ UNCHANGED <<heard, rogered, swayed, steered>>

Clockwork ==
  \/ Begin \/ LateStart \/ Decoded \/ Lost \/ OtherHeard \/ End
  \/ \E s \in Station : Second(s) \/ Restart(s) \/ AfterLast73(s) \/ TimerFires(s)
                        \/ LogTimer(s) \/ Line(s) \/ Finish(s)

Next == Clockwork \/ \E s \in Station : DoubleClick(s) \/ Operator(s)

Spec == Init /\ [][Next]_vars /\ WF_vars(Clockwork)
-----------------------------------------------------------------------------
\* Properties

TypeOK ==
  /\ odd \in BOOLEAN /\ phase \in {"begin", "tx", "rx"}
  /\ \A s \in Station :
       /\ st[s].dx \in Calls \cup {NoCall} /\ st[s].ntx \in 1..7
       /\ st[s].prog \in {Progress[i] : i \in 1..6}
       /\ st[s].progTX \in {Progress[i] : i \in 1..6} \cup {"NONE"}
       /\ Len(st[s].hist) <= HistLen
       /\ st[s].clear \in {"off", "soon", "rx48", "boundary"}
       /\ st[s].tx => phase = "tx"
       /\ {st[s].gen.kind, st[s].cur.kind} \subseteq Kinds

\* Promised (the length it is declared with, mainwindow.cpp:260): the history keeps its
\* entries.
HistoryWhole == \A s \in Station : Len(st[s].hist) = HistLen

OnAir(kind) == phase = "tx" /\ phase' = "rx" /\ Air.kind \in kind

\* RR73 is sent only to a station whose report was received in this QSO.
RogersEarned == [][OnAir({"RR73"}) => heard[Owner][Air.to] # 0]_vars

\* 73 is sent only to a station that rogered, or after free text with 73.  Not so for
\* a 73 of another station, and while a 73 is due and the DX call changes.
SignedOff == [][OnAir({"73"}) => Air.to \in rogered[Owner] \cup swayed[Owner]]_vars

\* Promised (the comments of readFromStdout): only free text with 73 stands for a roger.
SignedOffAlways == [][OnAir({"73"}) => Air.to \in rogered[Owner]]_vars

\* Neither RR73 nor 73 is sent before it is earned.
QsoEarned == RogersEarned /\ SignedOff

\* A station that was heard answering another is not called again, unless its operator
\* says so.
NotCalledOver == [][OnAir({"GRID", "RPT"}) => Air.to \notin gone[Owner]]_vars

\* The reports that go into the log are those that were exchanged with c.
Exchanged(s, c) ==
  /\ st[s].rcvd = heard[s][c] /\ st[s].rcvd # 0
  /\ st[s].sent = told[s][c] /\ st[s].sent # 0

\* A QSO the program logs of itself has the reports that were exchanged in it, whoever calls in
\* between, whatever is lost and whichever buttons are pressed.  Not so when a line has been
\* double-clicked since its first grid: the reports are never cleared, and a click may leave
\* those of another station, or of an earlier contact, to be logged.
LogTrue ==
  [][\A s \in Station : LogTimer(s) /\ ~meddled[s] =>
       \A c \in {Partner(st[s])} \ (steered[s] \cup {NoCall}) : Exchanged(s, c)]_vars

\* Promised (the log is one of contacts): ... and so it is with clicks on lines.
LogTrueAlways ==
  [][\A s \in Station : LogTimer(s) /\ ~meddled[s] =>
       \A c \in {Partner(st[s])} \ {NoCall} : Exchanged(s, c)]_vars

\* From one answer to a CQ or one rogered report to the next, and between two acts of
\* its operator, a program logs a station at most once.  A roger that is repeated, for
\* its answer was lost, logs it again.
LoggedOnce == \A s \in Station, c \in Calls : log[s][c] <= 1

\* The log has each QSO once, and as it was, unless the operator led it.
LogRight == LogTrue /\ []LoggedOnce

\* QSOs end: again and again both stations call CQ or have Enable Tx off.
Ends == []<>(\A s \in Station : ~st[s].auto \/ st[s].prog = "CALLING")
=============================================================================
