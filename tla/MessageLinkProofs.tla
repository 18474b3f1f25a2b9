-------------------------- MODULE MessageLinkProofs --------------------------
(***************************************************************************)
(* Proofs about MessageLink, for any hosts, ports and builds of the servers *)
(* and any number of status changes, failures and datagrams on the way: the *)
(* last message handed to the client is sent, kept, or known to be lost,    *)
(* and what is sent to a server can be read there.                          *)
(***************************************************************************)
EXTENDS MessageLink, FiniteSetTheorems, SequenceTheorems, TLAPS

-----------------------------------------------------------------------------
\* Induction, by the least counterexample

\* A set of natural numbers has a least member.
LEMMA LeastNumber ==
  ASSUME NEW T, T \subseteq Nat, T # {}
  PROVE  \E x \in T : \A y \in T : x <= y
<1> DEFINE R == OpToRel(<, Nat)
<1>1. IsWellFoundedOn(R, Nat)
  BY NatLessThanWellFounded
<1>2. \A x, y \in Nat : y < x => <<y, x>> \in R
  BY DEF OpToRel
<1> HIDE DEF R
<1>3. PICK x \in T : \A y \in T : ~ (<<y, x>> \in R)
  BY <1>1, WFMin, Zenon
<1>4. SUFFICES ASSUME NEW y \in T PROVE x <= y
  OBVIOUS
<1>5. x \in Nat /\ y \in Nat
  OBVIOUS
<1>6. ~(y < x)
  BY <1>2, <1>3, <1>5, Zenon
<1> QED BY <1>5, <1>6

\* The set of functions that InSequence chooses from.
Increasing(K) ==
  {q \in [1..Cardinality(K) -> K] : \A a, b \in 1..Cardinality(K) : a < b => q[a] < q[b]}

\* Every finite set of numbers can be put in order.
LEMMA Orderly ==
  ASSUME NEW n \in Nat, NEW K, K \subseteq 1..n
  PROVE  Increasing(K) # {}
<1> DEFINE Fails(m) == \E L : L \subseteq 1..m /\ Increasing(L) = {}
           T == {m \in Nat : Fails(m)}
<1>1. SUFFICES T = {}
  OBVIOUS
<1>2. SUFFICES ASSUME T # {} PROVE FALSE
  OBVIOUS
<1>3. T \subseteq Nat
  OBVIOUS
<1> HIDE DEF T
<1>4. PICK m \in T : \A y \in T : m <= y
  BY <1>2, <1>3, LeastNumber
<1> USE DEF T
<1>5. m \in Nat
  OBVIOUS
<1>6. PICK L : L \subseteq 1..m /\ Increasing(L) = {}
  BY <1>4
<1>7. IsFiniteSet(L) /\ Cardinality(L) \in Nat
  <2>1. IsFiniteSet(1..m)
    BY <1>5, FS_Interval
  <2> QED BY <1>6, <2>1, FS_Subset, FS_CardinalityType
<1>8. CASE m \notin L
  <2>1. m # 0
    <3>1. ASSUME m = 0 PROVE FALSE
      <4>1. L = {}
        BY <1>6, <3>1
      <4>2. Cardinality(L) = 0
        BY <4>1, FS_EmptySet
      <4> DEFINE q == [i \in 1..0 |-> 0]
      <4>3. q \in [1..0 -> L]
        OBVIOUS
      <4>4. q \in Increasing(L)
        BY <4>2, <4>3 DEF Increasing
      <4> QED BY <1>6, <4>4
    <3> QED BY <3>1
  <2>2. m - 1 \in Nat /\ L \subseteq 1..(m - 1)
    BY <1>5, <1>6, <1>8, <2>1
  <2>3. m - 1 \in T
    BY <1>6, <2>2
  <2> QED BY <1>4, <1>5, <2>3
<1>9. CASE m \in L
  <2> DEFINE M == L \ {m}
             c == Cardinality(M)
  <2>1. m - 1 \in Nat /\ M \subseteq 1..(m - 1)
    BY <1>5, <1>6, <1>9
  <2>2. Cardinality(M) = Cardinality(L) - 1
    BY <1>7, <1>9, FS_RemoveElement
  <2>3. Increasing(M) # {}
    <3>1. ASSUME Increasing(M) = {} PROVE FALSE
      <4>1. m - 1 \in T
        BY <2>1, <3>1
      <4> QED BY <1>4, <1>5, <4>1
    <3> QED BY <3>1
  <2>4. PICK q \in [1..c -> M] : \A a, b \in 1..c : a < b => q[a] < q[b]
    BY <2>3 DEF Increasing
  <2>5. c \in Nat /\ Cardinality(L) = c + 1
    <3>1. IsFiniteSet(M)
      BY <1>7, FS_RemoveElement
    <3>2. Cardinality(M) \in Nat
      BY <3>1, FS_CardinalityType
    <3> QED BY <1>7, <2>2, <3>2
  <2> HIDE DEF c
  <2> DEFINE r == [i \in 1..(c + 1) |-> IF i = c + 1 THEN m ELSE q[i]]
  <2>6. r \in [1..(c + 1) -> L]
    <3>1. ASSUME NEW i \in 1..(c + 1) PROVE (IF i = c + 1 THEN m ELSE q[i]) \in L
      <4>1. CASE i = c + 1
        BY <1>9, <4>1
      <4>2. CASE i # c + 1
        <5>1. i \in 1..c
          BY <2>5, <4>2
        <5> QED BY <2>4, <4>2, <5>1
      <4> QED BY <4>1, <4>2
    <3> QED BY <3>1
  <2>7. ASSUME NEW a \in 1..(c + 1), NEW b \in 1..(c + 1), a < b PROVE r[a] < r[b]
    <3>1. a \in 1..c /\ r[a] = q[a] /\ q[a] \in 1..(m - 1)
      BY <2>1, <2>4, <2>5, <2>7
    <3>2. CASE b = c + 1
      BY <1>5, <3>1, <3>2
    <3>3. CASE b # c + 1
      <4>1. b \in 1..c /\ r[b] = q[b]
        BY <2>5, <3>3
      <4> QED BY <2>4, <2>7, <3>1, <4>1
    <3> QED BY <3>2, <3>3
  <2>8. r \in Increasing(L)
    <3> HIDE DEF r
    <3> QED BY <2>5, <2>6, <2>7 DEF Increasing
  <2> QED BY <1>6, <2>8
<1> QED BY <1>8, <1>9

\* A sequence in which nothing is new after the k-th message ends with that message.
LEMMA NothingNew ==
  ASSUME NEW n \in Nat, NEW f, NEW k \in 0..n, \A i \in (k + 1)..n : f[i] = f[i - 1]
  PROVE  f[n] = f[k]
<1> DEFINE T == {i \in Nat : i \in k..n /\ f[i] # f[k]}
<1>1. SUFFICES T = {}
  BY <1>1
<1>2. SUFFICES ASSUME T # {} PROVE FALSE
  OBVIOUS
<1>3. T \subseteq Nat
  OBVIOUS
<1> HIDE DEF T
<1>4. PICK m \in T : \A y \in T : m <= y
  BY <1>2, <1>3, LeastNumber
<1> USE DEF T
<1>5. m \in Nat /\ m \in k..n /\ f[m] # f[k]
  OBVIOUS
<1>6. m # k
  BY <1>5
<1>7. m \in (k + 1)..n /\ m - 1 \in Nat /\ m - 1 \in k..n
  BY <1>5, <1>6
<1>8. f[m - 1] # f[k]
  BY <1>5, <1>7
<1>9. m - 1 \in T
  BY <1>7, <1>8
<1> QED BY <1>4, <1>5, <1>9

-----------------------------------------------------------------------------
\* What the operators of the link return

LEMMA LastOf ==
  ASSUME NEW S, NEW q \in Seq(S), NEW d
  PROVE  /\ q = <<>> => Last(q, d) = d
         /\ q # <<>> => Len(q) \in Nat \ {0} /\ Last(q, d) = q[Len(q)] /\ Last(q, d) \in S
<1>1. q # <<>> => Len(q) \in Nat \ {0}
  BY EmptySeq
<1>2. q # <<>> => q[Len(q)] \in S
  BY <1>1, ElementOfSeq
<1> QED BY <1>1, <1>2 DEF Last

\* What send_message writes of a backlog comes from it, and in the end the last
\* message handed to it is the one that duplicates are compared with.
LEMMA FreshOnes ==
  ASSUME NEW S, NEW last, NEW msgs \in Seq(S)
  PROVE  /\ Fresh(last, msgs) \in Seq(S)
         /\ Last(Fresh(last, msgs), last) = Last(msgs, last)
<1> DEFINE n == Len(msgs)
           K == News(last, msgs)
           c == Cardinality(K)
           new == InSequence(K)
<1>1. n \in Nat /\ K \subseteq 1..n
  BY LenProperties DEF News
<1>2. IsFiniteSet(K) /\ c \in Nat
  <2>1. IsFiniteSet(1..n)
    BY <1>1, FS_Interval
  <2> QED BY <1>1, <2>1, FS_Subset, FS_CardinalityType
<1>3. new \in [1..c -> K] /\ \A a, b \in 1..c : a < b => new[a] < new[b]
  <2>1. Increasing(K) # {}
    BY <1>1, Orderly
  <2>2. \E q \in [1..c -> K] : \A a, b \in 1..c : a < b => q[a] < q[b]
    BY <2>1 DEF Increasing
  <2> QED BY <2>2 DEF InSequence
<1>4. Fresh(last, msgs) = [k \in 1..c |-> msgs[new[k]]]
  BY DEF Fresh
<1>5. \A i \in K : i \in 1..n /\ msgs[i] \in S
  BY <1>1, ElementOfSeq
<1> HIDE DEF K, new
<1>6. Fresh(last, msgs) \in [1..c -> S]
  BY <1>3, <1>4, <1>5
<1>7. Fresh(last, msgs) \in Seq(S) /\ Len(Fresh(last, msgs)) = c
  <2> HIDE DEF c
  <2>1. [1..c -> S] \subseteq Seq(S)
    BY <1>2, SeqDef
  <2>2. DOMAIN Fresh(last, msgs) = 1..c
    BY <1>4
  <2>3. Fresh(last, msgs) \in Seq(S)
    BY <1>6, <2>1
  <2> QED BY <1>2, <2>2, <2>3, LenProperties
\* the function of what send_message compares, from the duplicate at its start on
<1> DEFINE before == [i \in 0..n |-> IF i = 0 THEN last ELSE msgs[i]]
<1>8. ASSUME NEW i \in 1..n, i \notin K PROVE before[i] = before[i - 1]
  <2>1. msgs[i] = IF i = 1 THEN last ELSE msgs[i - 1]
    BY <1>8 DEF K, News
  <2> QED BY <1>1, <2>1
<1>9. before[n] = Last(msgs, last)
  BY <1>1, LastOf
<1>10. CASE c = 0
  <2>1. K = {}
    BY <1>2, <1>10, FS_EmptySet
  <2>2. \A i \in (0 + 1)..n : before[i] = before[i - 1]
    BY <1>8, <2>1
  <2>3. 0 \in 0..n
    BY <1>1
  <2> HIDE DEF before
  <2>4. before[n] = before[0]
    BY <1>1, <2>2, <2>3, NothingNew
  <2>5. Fresh(last, msgs) = <<>>
    BY <1>7, <1>10, EmptySeq
  <2>6. Last(Fresh(last, msgs), last) = last
    BY <1>7, <2>5, LastOf
  <2> QED BY <1>1, <1>7, <1>9, <2>4, <2>6 DEF before
<1>11. CASE c # 0
  <2> DEFINE k == new[c]
  <2>1. c \in 1..c /\ k \in K /\ k \in 1..n
    BY <1>2, <1>3, <1>5, <1>11
  <2>2. Fresh(last, msgs) # <<>>
    BY <1>7, <1>11, EmptySeq
  <2>3. Last(Fresh(last, msgs), last) = msgs[k]
    <3>1. Last(Fresh(last, msgs), last) = Fresh(last, msgs)[c]
      BY <1>7, <2>2, LastOf
    <3> QED BY <1>4, <2>1, <3>1
  <2>4. ASSUME NEW i \in (k + 1)..n PROVE i \notin K
    <3>1. SUFFICES ASSUME i \in K PROVE FALSE
      OBVIOUS
    \* every new message has its place in the sequence, at most c
    <3>2. \E a \in 1..c : new[a] = i
      <4>1. \A a, b \in 1..c : new[a] = new[b] => a = b
        <5>1. \A a \in 1..c : new[a] \in 1..n
          BY <1>3, <1>5
        <5>2. \A a, b \in 1..c : a # b => a < b \/ b < a
          BY <1>2
        <5> QED BY <1>1, <1>3, <5>1, <5>2
      <4>2. new \in Injection(1..c, K)
        BY <1>3, <4>1 DEF Injection, IsInjective
      <4>3. IsFiniteSet(1..c) /\ Cardinality(1..c) = c
        BY <1>2, FS_Interval
      <4>4. new \in Surjection(1..c, K)
        BY <1>2, <4>2, <4>3, FS_Injection
      <4> QED BY <3>1, <4>4 DEF Surjection
    <3>3. PICK a \in 1..c : new[a] = i
      BY <3>2
    <3>4. a = c \/ a < c
      BY <1>2
    <3>5. new[a] <= k
      BY <1>1, <1>3, <1>5, <2>1, <3>3, <3>4
    <3> QED BY <1>1, <2>1, <3>3, <3>5
  <2>5. \A i \in (k + 1)..n : before[i] = before[i - 1]
    <3>1. \A i \in (k + 1)..n : i \in 1..n
      BY <1>1, <2>1
    <3> QED BY <1>8, <2>4, <3>1
  <2>6. k \in 0..n /\ before[k] = msgs[k]
    BY <1>1, <2>1
  <2> HIDE DEF before, k
  <2>7. before[n] = before[k]
    BY <1>1, <2>5, <2>6, NothingNew
  <2> QED BY <1>7, <1>9, <2>3, <2>6, <2>7
<1> QED BY <1>10, <1>11

LEMMA One ==
  ASSUME NEW S, NEW m \in S, NEW d
  PROVE  <<m>> \in Seq(S) /\ <<m>> # <<>> /\ Last(<<m>>, d) = m
BY DEF Last

LEMMA Nothing ==
  ASSUME NEW S, NEW d
  PROVE  <<>> \in Seq(S) /\ Last(<<>>, d) = d
BY EmptySeq DEF Last

LEMMA LastOfBoth ==
  ASSUME NEW S, NEW q \in Seq(S), NEW r \in Seq(S), NEW d
  PROVE  q \o r \in Seq(S) /\ Last(q \o r, d) = Last(r, Last(q, d))
<1>1. q \o r \in Seq(S)
  BY ConcatProperties
<1>2. CASE r = <<>>
  <2>1. q \o r = q
    BY <1>2, ConcatEmptySeq
  <2> QED BY <1>1, <1>2, <2>1, Nothing
<1>3. CASE r # <<>>
  <2>1. Len(r) \in Nat \ {0} /\ Last(r, Last(q, d)) = r[Len(r)]
    BY <1>3, LastOf
  <2>2. Len(q) \in Nat /\ Len(q \o r) = Len(q) + Len(r)
    BY LenProperties, ConcatProperties
  <2>3. (q \o r)[Len(q) + Len(r)] = r[Len(r)]
    BY <2>1, <2>2, ConcatProperties
  <2>4. q \o r # <<>>
    BY <2>1, <2>2, EmptySeq
  <2>5. Last(q \o r, d) = (q \o r)[Len(q \o r)]
    <3> DEFINE both == q \o r
    <3>1. both \in Seq(S) /\ both # <<>>
      BY <1>1, <2>4
    <3> HIDE DEF both
    <3>2. Last(both, d) = both[Len(both)]
      BY <3>1, LastOf
    <3> QED BY <3>2 DEF both
  <2> QED BY <1>1, <2>1, <2>2, <2>3, <2>5
<1> QED BY <1>2, <1>3

LEMMA Writing ==
  ASSUME NEW S, NEW net \in [Servers -> Seq(S)], NEW host, NEW msgs \in Seq(S)
  PROVE  Written(net, host, msgs) \in [Servers -> Seq(S)]
<1>1. ASSUME <<host, port>> \in Servers
      PROVE  net[<<host, port>>] \o msgs \in Seq(S)
  BY <1>1, ConcatProperties
<1> QED BY <1>1 DEF Written

LEMMA Taken ==
  ASSUME NEW S, NEW q \in Seq(S), q # <<>>
  PROVE  Head(q) \in S /\ Tail(q) \in Seq(S)
BY HeadTailProperties

LEMMA Removed ==
  ASSUME NEW S, NEW q \in Seq(S), NEW i \in 1..Len(q)
  PROVE  Without(q, i) \in Seq(S) /\ q[i] \in S
<1>1. Len(q) \in Nat /\ q[i] \in S
  BY LenProperties, ElementOfSeq
<1>2. SubSeq(q, 1, i - 1) \in Seq(S)
  BY <1>1, SubSeqProperties
<1>3. SubSeq(q, i + 1, Len(q)) \in Seq(S)
  BY <1>1, SubSeqProperties
<1> QED BY <1>1, <1>2, <1>3, ConcatProperties DEF Without

LEMMA Appended ==
  ASSUME NEW S, NEW q \in Seq(S), NEW m \in S
  PROVE  Append(q, m) \in Seq(S)
BY AppendProperties

\* send_message keeps what it handles where it belongs, and loses sight of no message
\* that was the last to be handed to it.
LEMMA Sending ==
  ASSUME NEW S, toServer \in [Servers -> Seq(S)], pending_messages_ \in Seq(S),
         last_message_ \in S \cup {NoMessage}, told \in S, dropped \in BOOLEAN,
         missed \in BOOLEAN, NEW last \in S \cup {NoMessage}, NEW msgs \in Seq(S), Send(last, msgs)
  PROVE  /\ toServer' \in [Servers -> Seq(S)] /\ pending_messages_' \in Seq(S)
         /\ last_message_' \in S \cup {NoMessage} /\ told' \in S /\ dropped' \in BOOLEAN
         /\ missed' \in BOOLEAN
<1>1. \A d : Last(msgs, d) \in S \cup {d}
  BY LastOf
<1>2. told' \in S /\ dropped' \in BOOLEAN /\ missed' \in BOOLEAN
  BY <1>1 DEF Send
<1>3. CASE server_ # Null
  <2>1. toServer' = Written(toServer, server_, Fresh(last, msgs))
        /\ last_message_' = Last(msgs, last) /\ pending_messages_' = pending_messages_
    BY <1>3 DEF Send
  <2>2. Fresh(last, msgs) \in Seq(S)
    BY FreshOnes
  <2> QED BY <1>1, <1>2, <2>1, <2>2, Writing
<1>4. CASE server_ = Null
  <2>1. pending_messages_' = pending_messages_ \o msgs /\ last_message_' = last
        /\ toServer' = toServer
    BY <1>4 DEF Send
  <2> QED BY <1>2, <2>1, ConcatProperties
<1> QED BY <1>3, <1>4

\* The backlog is empty while the server is known, and LastKept while it lives.
Kept == alive => dropped \/ Last(pending_messages_, last_message_) = told
NoBacklog == server_ # Null => pending_messages_ = <<>>

LEMMA SendingKeeps ==
  ASSUME NEW S, pending_messages_ \in Seq(S), NEW last, NEW msgs \in Seq(S), Send(last, msgs),
         alive, Kept, NoBacklog, UNCHANGED <<alive, server_>>
  PROVE  Kept' /\ NoBacklog'
<1>1. \A d : Last(<<>>, d) = d
  BY Nothing
<1>2. CASE msgs = <<>>
  <2>1. told' = told /\ dropped' = (dropped \/ last # last_message_)
    BY <1>1, <1>2 DEF Send
  <2>2. last_message_' = last /\ pending_messages_' = pending_messages_
    <3>1. pending_messages_ \o <<>> = pending_messages_
      BY ConcatEmptySeq
    <3> QED BY <1>1, <1>2, <3>1 DEF Send
  <2> QED BY <2>1, <2>2 DEF Kept, NoBacklog
<1>3. CASE msgs # <<>>
  <2>1. \A d, e : Last(msgs, d) = Last(msgs, e)
    BY <1>3, LastOf
  <2>2. told' = Last(msgs, told)
    BY DEF Send
  <2>3. CASE server_ # Null
    <3>1. pending_messages_' = <<>> /\ last_message_' = Last(msgs, last)
      BY <2>3 DEF Send, NoBacklog
    <3> QED BY <1>1, <2>1, <2>2, <3>1 DEF Kept, NoBacklog
  <2>4. CASE server_ = Null
    <3>1. pending_messages_' = pending_messages_ \o msgs
      BY <2>4 DEF Send
    <3>2. Last(pending_messages_', last_message_')
            = Last(msgs, Last(pending_messages_, last_message_'))
      BY <3>1, LastOfBoth
    <3> QED BY <2>1, <2>2, <2>4, <3>2 DEF Kept, NoBacklog
  <2> QED BY <2>3, <2>4
<1> QED BY <1>2, <1>3

-----------------------------------------------------------------------------
\* Types, and with them the schemas: T is the server that taught each incarnation of the client,
\* B the builds.  What an incarnation sends is of a schema that its teacher reads, or of the first
\* one; what a server sends, and notes of a client, is of a schema that it reads itself.

Teachers == [1..(MaxFaults + 1) -> Servers \cup {Null}]
Offered(T, B, i) == IF T[i] = Null THEN 2 ELSE B[T[i]]
Sent(T, B) ==
  {m \in Messages : /\ m.schema <= Offered(T, B, m.from)
                    /\ m.type = "Status" => m.val <= MaxStatus
                    /\ m.type = "Heartbeat" => m.val = SchemaNumber}
Replies(B) ==
  {m \in [type : {"Heartbeat", "Replay", "HaltTx"}, by : Servers, to : 1..(MaxFaults + 1),
          schema : 2..3] : m.schema <= B[m.by]}
Known == [known : BOOLEAN, from : 0..(MaxFaults + 1), schema : 2..3]

ClientTypes ==
  /\ starts \in 1..(faults + 1) /\ alive \in BOOLEAN /\ status \in 0..MaxStatus
  /\ name \in Hosts \cup {""} /\ port \in Ports
  /\ lookups \in Seq(Hosts) /\ server_ \in Hosts \cup {Null}
  /\ asking \in 0..faults /\ faults \in 0..MaxFaults
  /\ returned \in BOOLEAN
ServerTypes(B) ==
  /\ clients_ \in [Servers -> Known]
  /\ \A s \in Servers : /\ clients_[s].known => clients_[s].from >= 1
                        /\ clients_[s].schema <= B[s]
  /\ shown \in [Servers -> (0..MaxStatus) \cup {Null}] /\ beat \in [Servers -> BOOLEAN]
BuildTypes(T, B) == build = B /\ taught = T
QueueTypes(T, B) ==
  /\ schema_ \in 2..3 /\ schema_ <= Offered(T, B, starts)
  /\ pending_messages_ \in Seq(Sent(T, B)) /\ last_message_ \in Sent(T, B) \cup {NoMessage}
  /\ told \in Sent(T, B) /\ dropped \in BOOLEAN /\ missed \in BOOLEAN
  /\ toServer \in [Servers -> Seq(Sent(T, B))]
  /\ toClient \in Seq(Replies(B))
Types(T, B) == ClientTypes /\ ServerTypes(B) /\ BuildTypes(T, B) /\ QueueTypes(T, B)

\* Builds have the number 2 or 3, and so have what is offered.
LEMMA Numbers == ASSUME NEW B \in Builds PROVE \A s \in Servers : B[s] \in 2..3
<1> SUFFICES ASSUME NEW s \in Servers PROVE B[s] \in 2..3
  OBVIOUS
<1>1. B[s] \in Schemas
  BY DEF Builds
<1>2. Schemas \subseteq {2, 3}
  BY LinkAssumption
<1>3. B[s] = 2 \/ B[s] = 3
  BY <1>1, <1>2
<1> QED BY <1>3

LEMMA Offers ==
  ASSUME NEW T \in Teachers, NEW B \in Builds
  PROVE  \A i \in 1..(MaxFaults + 1) : Offered(T, B, i) \in 2..3
<1> SUFFICES ASSUME NEW i \in 1..(MaxFaults + 1) PROVE Offered(T, B, i) \in 2..3
  OBVIOUS
<1>1. T[i] = Null \/ T[i] \in Servers
  BY DEF Teachers
<1> QED BY <1>1, Numbers DEF Offered

\* The messages the client makes.
LEMMA Made ==
  ASSUME NEW T \in Teachers, NEW B \in Builds, ClientTypes,
         NEW sch \in 2..3, sch <= Offered(T, B, starts), NEW v \in 0..MaxStatus
  PROVE  /\ [Status(sch) EXCEPT !.val = v] \in Sent(T, B) /\ Status(sch) \in Sent(T, B)
         /\ Msg("Close", 0, sch) \in Sent(T, B)
         /\ Msg("Heartbeat", SchemaNumber, sch) \in Sent(T, B)
<1>1. /\ MaxStatus \in Nat /\ MaxFaults \in Nat /\ starts \in 1..(MaxFaults + 1)
      /\ status \in 0..MaxStatus
  <2>1. MaxStatus \in Nat /\ MaxFaults \in Nat
    BY LinkAssumption
  <2>2. starts \in 1..(faults + 1) /\ faults \in 0..MaxFaults /\ status \in 0..MaxStatus
    BY DEF ClientTypes
  <2> QED BY <2>1, <2>2
<1>2. ASSUME NEW t \in {"Status", "Close", "Heartbeat"}, NEW w \in 0..(MaxStatus + 3)
      PROVE  Msg(t, w, sch) \in Messages
  <2>1. Msg(t, w, sch) = [type |-> t, val |-> w, schema |-> sch, from |-> starts]
    BY DEF Msg
  <2> QED BY <1>1, <2>1 DEF Messages
<1>3. status \in 0..(MaxStatus + 3) /\ v \in 0..(MaxStatus + 3) /\ 0 \in 0..(MaxStatus + 3)
      /\ SchemaNumber \in 0..(MaxStatus + 3)
  BY <1>1 DEF SchemaNumber
<1>4. Status(sch) \in Messages /\ [Status(sch) EXCEPT !.val = v] = Msg("Status", v, sch)
  BY <1>2, <1>3 DEF Status, Msg
<1>5. /\ Status(sch).schema <= Offered(T, B, Status(sch).from) /\ Status(sch).type = "Status"
      /\ Status(sch).val <= MaxStatus
      /\ Msg("Status", v, sch).schema <= Offered(T, B, Msg("Status", v, sch).from)
      /\ Msg("Status", v, sch).type = "Status"
      /\ Msg("Status", v, sch).val <= MaxStatus
  BY <1>1 DEF Status, Msg
<1>6. Status(sch) \in Sent(T, B) /\ Msg("Status", v, sch) \in Sent(T, B)
  BY <1>2, <1>3, <1>4, <1>5 DEF Sent
<1>7. Msg("Close", 0, sch) \in Sent(T, B)
  <2>1. Msg("Close", 0, sch).schema <= Offered(T, B, Msg("Close", 0, sch).from)
        /\ Msg("Close", 0, sch).type = "Close"
    BY <1>1 DEF Msg
  <2> QED BY <1>2, <1>3, <2>1 DEF Sent
<1>8. Msg("Heartbeat", SchemaNumber, sch) \in Sent(T, B)
  <2>1. /\ Msg("Heartbeat", SchemaNumber, sch).schema
             <= Offered(T, B, Msg("Heartbeat", SchemaNumber, sch).from)
        /\ Msg("Heartbeat", SchemaNumber, sch).type = "Heartbeat"
        /\ Msg("Heartbeat", SchemaNumber, sch).val = SchemaNumber
    BY <1>1 DEF Msg
  <2> QED BY <1>2, <1>3, <2>1 DEF Sent
<1> QED BY <1>4, <1>6, <1>7, <1>8

\* Answers of a server, and what it notes of a client, when it has read message m.
LEMMA Answers ==
  ASSUME NEW T \in Teachers, NEW B \in Builds, NEW s \in Servers, BuildTypes(T, B),
         NEW m \in Sent(T, B)
  PROVE  /\ Negotiated(s, m) \in 2..3 /\ Negotiated(s, m) <= B[s]
         /\ m.from \in 1..(MaxFaults + 1)
         /\ Opening(s, m) \in Seq(Replies(B))
         /\ [known |-> TRUE, from |-> m.from, schema |-> Negotiated(s, m)] \in Known
<1>1. /\ m \in Messages /\ m.from \in 1..(MaxFaults + 1)
      /\ m.type = "Heartbeat" => m.val = SchemaNumber
  BY DEF Sent, Messages
<1>2. build[s] = B[s] /\ B[s] \in 2..3
  BY Numbers DEF BuildTypes
<1>3. Least(build[s], SchemaNumber) \in 2..3 /\ Least(build[s], SchemaNumber) <= B[s]
  BY <1>2 DEF Least, SchemaNumber
<1>4. Negotiated(s, m) \in 2..3 /\ Negotiated(s, m) <= B[s]
  BY <1>1, <1>2, <1>3 DEF Negotiated
<1>5. MaxFaults \in Nat
  BY LinkAssumption
<1> DEFINE reply(t) == [type |-> t, by |-> s, to |-> m.from, schema |-> Negotiated(s, m)]
<1>6. reply("Heartbeat") \in Replies(B) /\ reply("Replay") \in Replies(B)
  BY <1>1, <1>4 DEF Replies
<1>7. [known |-> TRUE, from |-> m.from, schema |-> Negotiated(s, m)] \in Known
  BY <1>1, <1>4, <1>5 DEF Known
<1>8. Opening(s, m) = (IF m.type = "Heartbeat" THEN <<reply("Heartbeat")>> ELSE <<>>)
                        \o <<reply("Replay")>>
  BY DEF Opening
<1> HIDE DEF reply
<1>9. <<reply("Heartbeat")>> \in Seq(Replies(B)) /\ <<reply("Replay")>> \in Seq(Replies(B))
  BY <1>6, One
<1>10. (IF m.type = "Heartbeat" THEN <<reply("Heartbeat")>> ELSE <<>>) \in Seq(Replies(B))
  BY <1>9, Nothing
<1>11. Opening(s, m) \in Seq(Replies(B))
  BY <1>8, <1>9, <1>10, ConcatProperties
<1> QED BY <1>1, <1>4, <1>7, <1>11

\* The parts of the state that most actions leave alone.
LEMMA SameClient ==
  ASSUME ClientTypes, UNCHANGED <<starts, alive, status, setVars, server_, returned, faults>>
  PROVE  ClientTypes'
BY DEF ClientTypes, setVars

LEMMA SameServers ==
  ASSUME NEW B, ServerTypes(B), UNCHANGED <<clients_, shown, beat>>
  PROVE  ServerTypes(B)'
<1>1. clients_' = clients_ /\ shown' = shown /\ beat' = beat
  OBVIOUS
<1> QED BY <1>1 DEF ServerTypes

LEMMA SameQueues ==
  ASSUME NEW T, NEW B, QueueTypes(T, B),
         UNCHANGED <<starts, schema_, pending_messages_, last_message_, told, dropped, missed,
                     toServer, toClient>>
  PROVE  QueueTypes(T, B)'
<1>1. /\ starts' = starts /\ schema_' = schema_ /\ pending_messages_' = pending_messages_
      /\ last_message_' = last_message_ /\ told' = told /\ dropped' = dropped /\ missed' = missed
      /\ toServer' = toServer /\ toClient' = toClient
  OBVIOUS
<1> QED BY <1>1 DEF QueueTypes

LEMMA SameBuild ==
  ASSUME NEW T, NEW B, BuildTypes(T, B), UNCHANGED <<build, taught>>
  PROVE  BuildTypes(T, B)'
<1>1. build' = build /\ taught' = taught
  OBVIOUS
<1> QED BY <1>1 DEF BuildTypes

LEMMA TypesAtStart ==
  ASSUME NEW T \in Teachers, NEW B \in Builds, Init, taught = T, build = B
  PROVE  Types(T, B)
<1>1. MaxStatus \in Nat /\ MaxFaults \in Nat
  BY LinkAssumption
<1>2. name \in Hosts /\ port \in Ports
  BY LinkAssumption DEF Init
<1>3. lookups \in Seq(Hosts)
  BY <1>2, One DEF Init
<1>4. ClientTypes
  <2>1. /\ starts = 1 /\ alive = TRUE /\ status = 0 /\ server_ = Null /\ asking = 0
        /\ faults = 0 /\ returned = FALSE
    BY DEF Init
  <2>2. /\ starts \in 1..(faults + 1) /\ status \in 0..MaxStatus /\ asking \in 0..faults
        /\ faults \in 0..MaxFaults
    BY <1>1, <2>1
  <2> QED BY <1>2, <1>3, <2>1, <2>2 DEF ClientTypes
<1>5. Unknown \in Known /\ ~Unknown.known /\ Unknown.schema = 2
  BY <1>1 DEF Unknown, Known
<1>6. ServerTypes(B)
  BY <1>5, Numbers DEF Init, ServerTypes
<1>7. Status(2) \in Sent(T, B)
  <2>1. 2 \in 2..3 /\ 0 \in 0..MaxStatus /\ 2 <= Offered(T, B, starts)
    <3>1. starts \in 1..(MaxFaults + 1)
      BY <1>1 DEF Init
    <3>2. Offered(T, B, starts) \in 2..3
      BY <3>1, Offers
    <3> QED BY <1>1, <3>2
  <2> QED BY <1>4, <2>1, Made
<1>8. told \in Sent(T, B) /\ pending_messages_ \in Seq(Sent(T, B))
  BY <1>7, One DEF Init
<1>9. toServer \in [Servers -> Seq(Sent(T, B))] /\ toClient \in Seq(Replies(B))
  BY Nothing DEF Init
<1>10. QueueTypes(T, B)
  <2>1. schema_ = 2 /\ last_message_ = NoMessage /\ dropped = FALSE /\ missed = FALSE
    BY DEF Init
  <2>2. 2 \in 2..3 /\ 2 <= Offered(T, B, starts)
    <3>1. starts \in 1..(MaxFaults + 1)
      BY <1>1 DEF Init
    <3>2. Offered(T, B, starts) \in 2..3
      BY <3>1, Offers
    <3> QED BY <3>2
  <2> QED BY <1>8, <1>9, <2>1, <2>2 DEF QueueTypes
<1> QED BY <1>4, <1>6, <1>10 DEF Init, Types, BuildTypes

LEMMA Typing ==
  ASSUME NEW T \in Teachers, NEW B \in Builds, Types(T, B), [Next]_vars
  PROVE  \E U \in Teachers : Types(U, B)'
<1>1. ClientTypes /\ ServerTypes(B) /\ BuildTypes(T, B) /\ QueueTypes(T, B)
  BY DEF Types
<1>2. MaxStatus \in Nat /\ MaxFaults \in Nat
  BY LinkAssumption
<1>3. /\ starts \in 1..(faults + 1) /\ asking \in 0..faults /\ faults \in 0..MaxFaults
      /\ status \in 0..MaxStatus
  BY <1>1 DEF ClientTypes
<1>4. ASSUME Fault PROVE faults' = faults + 1 /\ faults' \in 0..MaxFaults
  BY <1>2, <1>3, <1>4 DEF Fault
<1>5. /\ schema_ \in 2..3 /\ schema_ <= Offered(T, B, starts)
      /\ toServer \in [Servers -> Seq(Sent(T, B))] /\ toClient \in Seq(Replies(B))
  BY <1>1 DEF QueueTypes
<1>6. ASSUME UNCHANGED <<starts, alive, status, setVars, server_, returned, faults>>
      PROVE  ClientTypes'
  BY <1>1, <1>6, SameClient
<1>7. ASSUME UNCHANGED <<starts, alive, status, setVars, server_, returned>>, Fault
      PROVE  ClientTypes'
  <2>1. /\ starts' \in 1..(faults' + 1) /\ asking' \in 0..faults'
        /\ faults' \in 0..MaxFaults
    BY <1>3, <1>4, <1>7 DEF setVars
  <2> QED BY <1>1, <1>7, <2>1 DEF ClientTypes, setVars
<1>8. ASSUME UNCHANGED <<serverVars, taught>> PROVE ServerTypes(B)' /\ BuildTypes(T, B)'
  BY <1>1, <1>8, SameServers, SameBuild DEF serverVars
<1>9. ASSUME StatusChanged PROVE Types(T, B)'
  <2>1. status' \in 0..MaxStatus
    BY <1>3, <1>9 DEF StatusChanged
  <2>2. UNCHANGED <<starts, alive, setVars, server_, schema_, toClient, serverVars, returned,
                    taught, faults>>
    BY <1>9 DEF StatusChanged
  <2>3. ClientTypes'
    BY <1>1, <2>1, <2>2 DEF ClientTypes, setVars
  <2> DEFINE msgs == Told(<<[Status(schema_) EXCEPT !.val = status']>>)
  <2>4. msgs \in Seq(Sent(T, B)) /\ Send(last_message_, msgs)
    <3>1. [Status(schema_) EXCEPT !.val = status'] \in Sent(T, B)
      BY <1>1, <1>5, <2>1, Made
    <3>2. <<[Status(schema_) EXCEPT !.val = status']>> \in Seq(Sent(T, B))
      BY <3>1, One
    <3> QED BY <1>9, <3>2, Nothing DEF StatusChanged, Told
  <2> HIDE DEF msgs
  <2>5. QueueTypes(T, B)'
    <3>1. /\ toServer' \in [Servers -> Seq(Sent(T, B))] /\ pending_messages_' \in Seq(Sent(T, B))
          /\ last_message_' \in Sent(T, B) \cup {NoMessage} /\ told' \in Sent(T, B)
          /\ dropped' \in BOOLEAN /\ missed' \in BOOLEAN
      BY <1>1, <2>4, Sending DEF QueueTypes
    <3> QED BY <1>5, <2>2, <3>1 DEF QueueTypes
  <2> QED BY <1>8, <2>2, <2>3, <2>5 DEF Types
<1>10. ASSUME NEW h \in Hosts \cup {""}, set_server(h)
       PROVE  server_' = Null /\ name' \in Hosts \cup {""} /\ lookups' \in Seq(Hosts)
  <2>1. lookups \in Seq(Hosts)
    BY <1>1 DEF ClientTypes
  <2>2. h # "" => Append(lookups, h) \in Seq(Hosts)
    BY <2>1, Appended
  <2> QED BY <1>10, <2>1, <2>2 DEF set_server
<1>11. ASSUME ChangeSettings PROVE Types(T, B)'
  <2>1. Fault /\ UNCHANGED <<starts, alive, status, asking, schema_, pending_messages_,
                             last_message_, netVars, serverVars, told, dropped, missed, taught>>
    BY <1>11 DEF ChangeSettings
  <2>2. /\ starts' \in 1..(faults' + 1) /\ asking' \in 0..faults' /\ faults' \in 0..MaxFaults
    <3>1. starts' = starts /\ asking' = asking /\ faults' = faults + 1 /\ faults' \in 0..MaxFaults
      BY <1>4, <2>1
    <3> QED BY <1>3, <3>1
  <2>3. PICK h \in Hosts \cup {""}, p \in Ports :
          /\ port' = p
          /\ \/ set_server(h) /\ UNCHANGED returned
             \/ /\ UNCHANGED <<name, server_, lookups>>
                /\ returned' = (returned \/ (server_ # Null /\ Knows(<<server_, p>>)))
    BY <1>11 DEF ChangeSettings
  <2>4. /\ name' \in Hosts \cup {""} /\ lookups' \in Seq(Hosts) /\ server_' \in Hosts \cup {Null}
        /\ returned' \in BOOLEAN
    <3>1. CASE set_server(h) /\ UNCHANGED returned
      BY <1>1, <1>10, <3>1 DEF ClientTypes
    <3>2. CASE /\ UNCHANGED <<name, server_, lookups>>
               /\ returned' = (returned \/ (server_ # Null /\ Knows(<<server_, p>>)))
      BY <1>1, <3>2 DEF ClientTypes
    <3> QED BY <2>3, <3>1, <3>2
  <2>5. ClientTypes'
    BY <1>1, <2>1, <2>2, <2>3, <2>4 DEF ClientTypes
  <2> QED BY <1>1, <1>8, <2>1, <2>5, SameQueues DEF Types, netVars
<1>12. ASSUME NEW c \in BOOLEAN, Ends(c) PROVE Types(T, B)'
  <2>1. UNCHANGED <<starts, status, setVars, clientVars, toClient, serverVars, histVars, faults>>
        /\ alive' = FALSE
    BY <1>12 DEF Ends
  <2>2. ClientTypes'
    BY <1>1, <2>1 DEF ClientTypes, setVars, clientVars, histVars
  <2>3. <<Msg("Close", 0, schema_)>> \in Seq(Sent(T, B))
    BY <1>1, <1>3, <1>5, Made, One
  <2>4. toServer' \in [Servers -> Seq(Sent(T, B))]
    BY <1>5, <1>12, <2>3, Writing DEF Ends
  <2> QED BY <1>1, <1>8, <2>1, <2>2, <2>4 DEF Types, QueueTypes, clientVars, histVars
<1>13. ASSUME Restart PROVE Types(T, B)'
  <2>1. /\ Fault /\ name # "" /\ starts' = starts + 1 /\ alive' = TRUE /\ returned' = FALSE
        /\ server_' = Null /\ schema_' = 2 /\ last_message_' = NoMessage
        /\ lookups' = <<name>> /\ asking' = 0 /\ dropped' = FALSE /\ missed' = FALSE
        /\ told' = [type |-> "Status", val |-> status, schema |-> 2, from |-> starts + 1]
        /\ pending_messages_' = <<told'>>
        /\ UNCHANGED <<status, name, port, netVars, serverVars, taught>>
    BY <1>13 DEF Restart, Starts
  <2>2. /\ starts' \in 1..(faults' + 1) /\ asking' \in 0..faults' /\ faults' \in 0..MaxFaults
    <3>1. starts' = starts + 1 /\ asking' = 0 /\ faults' = faults + 1 /\ faults' \in 0..MaxFaults
      BY <1>4, <2>1
    <3> QED BY <1>3, <3>1
  <2>3. lookups' \in Seq(Hosts)
    BY <1>1, <2>1, One DEF ClientTypes
  <2>4. ClientTypes'
    BY <1>1, <2>1, <2>2, <2>3 DEF ClientTypes
  <2>5. told' \in Sent(T, B)
    <3>1. starts + 1 \in 1..(MaxFaults + 1) /\ status \in 0..(MaxStatus + 3)
      <4>1. faults' = faults + 1 /\ faults' \in 0..MaxFaults
        BY <1>4, <2>1
      <4> QED BY <1>2, <1>3, <4>1
    <3>2. told' = [type |-> "Status", val |-> status, schema |-> 2, from |-> starts + 1]
      BY <2>1
    <3>3. told' \in Messages
      BY <3>1, <3>2 DEF Messages
    <3>4. told'.val <= MaxStatus /\ told'.type = "Status" /\ told'.schema = 2
          /\ told'.from = starts + 1
      BY <1>3, <3>2
    <3>5. Offered(T, B, starts + 1) \in 2..3
      BY <3>1, Offers
    <3>6. told'.schema <= Offered(T, B, told'.from)
      BY <3>4, <3>5
    <3> QED BY <3>3, <3>4, <3>6 DEF Sent
  <2>6. pending_messages_' \in Seq(Sent(T, B))
    BY <2>1, <2>5, One
  <2>7. schema_' \in 2..3 /\ schema_' <= Offered(T, B, starts')
    <3>1. schema_' = 2 /\ starts' \in 1..(MaxFaults + 1)
      <4>1. faults' = faults + 1 /\ faults' \in 0..MaxFaults
        BY <1>4, <2>1
      <4>2. starts' = starts + 1 /\ schema_' = 2
        BY <2>1
      <4> QED BY <1>2, <1>3, <4>1, <4>2
    <3>2. Offered(T, B, starts') \in 2..3
      BY <3>1, Offers
    <3> QED BY <3>1, <3>2
  <2> QED BY <1>5, <1>8, <2>1, <2>4, <2>5, <2>6, <2>7 DEF Types, QueueTypes, netVars
<1>14. ASSUME host_info_results PROVE Types(T, B)'
  <2>1. PICK i \in 1..Len(lookups) :
          lookups' = Without(lookups, i) /\ (Found(lookups[i]) \/ NotFound)
    <3>1. lookups \in Seq(Hosts)
      BY <1>1 DEF ClientTypes
    <3>2. Len(lookups) \in Nat /\ (lookups # <<>> => Len(lookups) \in Nat \ {0})
      BY <3>1, LenProperties, EmptySeq
    <3>3. PICK i \in 1..(IF InOrder /\ lookups # <<>> THEN 1 ELSE Len(lookups)) :
            lookups' = Without(lookups, i) /\ (Found(lookups[i]) \/ NotFound)
      BY <1>14 DEF host_info_results
    <3>4. i \in 1..Len(lookups)
      BY <3>2, <3>3
    <3> QED BY <3>3, <3>4
  <2>2. UNCHANGED <<starts, alive, status, name, port, schema_, toClient, serverVars, told, dropped,
                  taught>>
    BY <1>14 DEF host_info_results
  <2>3. lookups' \in Seq(Hosts) /\ lookups[i] \in Hosts
    BY <1>1, <2>1, Removed DEF ClientTypes
  <2>4. CASE Found(lookups[i])
    <3>1. /\ server_' = lookups[i]
          /\ toServer' = Written(toServer, lookups[i], <<Heartbeat>> \o Backlog)
          /\ last_message_' = Last(Backlog, last_message_) /\ pending_messages_' = <<>>
          /\ returned' = (returned \/ Knows(<<lookups[i], port>>)) /\ UNCHANGED <<asking, faults>>
          /\ missed' = (missed /\ Backlog = <<>>)
      BY <2>4 DEF Found
    <3>2. ClientTypes'
      BY <1>1, <2>2, <2>3, <3>1 DEF ClientTypes
    <3>3. Backlog \in Seq(Sent(T, B))
      BY <1>1, FreshOnes DEF Backlog, QueueTypes
    <3>4. <<Heartbeat>> \in Seq(Sent(T, B))
      BY <1>1, <1>3, <1>5, Made, One DEF Heartbeat
    <3>5. toServer' \in [Servers -> Seq(Sent(T, B))]
      BY <1>5, <3>1, <3>3, <3>4, ConcatProperties, Writing
    <3>6. last_message_' \in Sent(T, B) \cup {NoMessage}
      BY <1>1, <3>1, <3>3, LastOf DEF QueueTypes
    <3>7. pending_messages_' \in Seq(Sent(T, B))
      BY <3>1, Nothing
    <3>8. missed' \in BOOLEAN
      BY <1>1, <3>1 DEF QueueTypes
    <3> QED BY <1>1, <1>8, <2>2, <3>2, <3>5, <3>6, <3>7, <3>8 DEF Types, QueueTypes
  <2>5. CASE NotFound
    <3>1. Fault /\ asking' = asking + 1
          /\ UNCHANGED <<server_, toServer, pending_messages_, last_message_, returned, missed>>
      BY <2>5 DEF NotFound
    <3>2. /\ starts' \in 1..(faults' + 1) /\ asking' \in 0..faults' /\ faults' \in 0..MaxFaults
      BY <1>3, <1>4, <2>2, <3>1
    <3>3. ClientTypes'
      BY <1>1, <2>2, <2>3, <3>1, <3>2 DEF ClientTypes
    <3> QED BY <1>1, <1>8, <2>2, <3>1, <3>3, SameQueues DEF Types
  <2> QED BY <2>1, <2>4, <2>5
<1>15. ASSUME networkError PROVE Types(T, B)'
  <2>1. /\ asking > 0 /\ asking' = asking - 1
        /\ set_server(name) \/ UNCHANGED <<server_, lookups, name>>
        /\ pending_messages_' = <<>> /\ dropped' = (dropped \/ pending_messages_ # <<>>)
        /\ UNCHANGED <<starts, alive, status, port, schema_, last_message_, netVars, serverVars,
                       told, returned, missed, taught, faults>>
    BY <1>15 DEF networkError, Discarded
  <2>2. asking' \in 0..faults'
    BY <1>3, <2>1
  <2>3. name' \in Hosts \cup {""} /\ lookups' \in Seq(Hosts) /\ server_' \in Hosts \cup {Null}
    <3>1. name \in Hosts \cup {""}
      BY <1>1 DEF ClientTypes
    <3>2. CASE set_server(name)
      BY <1>10, <3>1, <3>2
    <3>3. CASE UNCHANGED <<server_, lookups, name>>
      BY <1>1, <3>3 DEF ClientTypes
    <3> QED BY <2>1, <3>2, <3>3
  <2>4. ClientTypes'
    BY <1>1, <2>1, <2>2, <2>3 DEF ClientTypes
  <2>5. pending_messages_' \in Seq(Sent(T, B))
    BY <2>1, Nothing
  <2> QED BY <1>1, <1>8, <2>1, <2>4, <2>5 DEF Types, QueueTypes, netVars
<1>16. ASSUME HeartbeatTimer PROVE Types(T, B)'
  <2>1. /\ toServer' = Written(toServer, server_, <<Heartbeat>>)
        /\ UNCHANGED <<starts, alive, status, setVars, clientVars, toClient, serverVars,
                       histVars, faults>>
    BY <1>16 DEF HeartbeatTimer
  <2>2. ClientTypes'
    BY <1>6, <2>1 DEF clientVars, histVars
  <2>3. <<Heartbeat>> \in Seq(Sent(T, B))
    BY <1>1, <1>3, <1>5, Made, One DEF Heartbeat
  <2>4. toServer' \in [Servers -> Seq(Sent(T, B))]
    BY <1>5, <2>1, <2>3, Writing
  <2> QED BY <1>1, <1>8, <2>1, <2>2, <2>4 DEF Types, QueueTypes, clientVars, histVars
\* A message of a higher schema raises schema_ to 3: the sender is the teacher from now on, and
\* what was sent before may still be sent.
<1>17. ASSUME ClientReads PROVE \E U \in Teachers : Types(U, B)'
  <2> DEFINE m == Head(toClient)
  <2>1. toClient # <<>> /\ toClient' = Tail(toClient)
        /\ UNCHANGED <<starts, alive, status, setVars, server_, serverVars, returned, faults>>
    BY <1>17 DEF ClientReads
  <2>2. m \in Replies(B) /\ toClient' \in Seq(Replies(B))
    BY <1>5, <2>1, Taken
  <2>3. m.by \in Servers /\ m.schema \in 2..3 /\ m.schema <= B[m.by] /\ B[m.by] \in 2..3
    BY <2>2, Numbers DEF Replies
  <2>4. ClientTypes'
    BY <1>6, <2>1
  <2>5. starts \in 1..(MaxFaults + 1)
    BY <1>2, <1>3
  <2>6. taught = T /\ build = B /\ build' = B
    BY <1>1, <2>1 DEF BuildTypes, serverVars
  <2>7. CASE UNCHANGED <<schema_, pending_messages_, last_message_, toServer, told, dropped, missed,
                         taught>>
    <3>1. QueueTypes(T, B)'
      BY <1>1, <2>1, <2>2, <2>7 DEF QueueTypes
    <3> QED BY <1>8, <2>1, <2>4, <2>7, <3>1 DEF Types
  <2>8. CASE /\ schema_' = Raised(m.schema)
             /\ taught' = IF schema_' = schema_ THEN taught ELSE [taught EXCEPT ![starts] = m.by]
             /\ \/ Send(Cleared, Replayed(schema_'))
                \/ UNCHANGED <<pending_messages_, last_message_, toServer, told, dropped, missed>>
    <3>1. PICK U \in Teachers :
            U = IF schema_' = schema_ THEN T ELSE [T EXCEPT ![starts] = m.by]
      BY <2>3, <2>5 DEF Teachers
    <3>2. taught' = U
      BY <2>6, <2>8, <3>1
    <3>3. schema_' \in 2..3 /\ (schema_' = schema_ \/ (schema_' = 3 /\ B[m.by] = 3))
      BY <1>5, <2>3, <2>8 DEF Raised
    <3>4. \A i \in 1..(MaxFaults + 1) : Offered(T, B, i) <= Offered(U, B, i)
      <4>1. ASSUME NEW i \in 1..(MaxFaults + 1) PROVE Offered(T, B, i) <= Offered(U, B, i)
        <5>1. Offered(T, B, i) \in 2..3
          BY Offers
        <5>2. CASE schema_' = schema_ \/ i # starts
          <6>1. U[i] = T[i]
            BY <2>5, <3>1, <5>2 DEF Teachers
          <6> QED BY <5>1, <6>1 DEF Offered
        <5>3. CASE schema_' # schema_ /\ i = starts
          <6>1. U[i] = m.by /\ m.by # Null
            BY <2>3, <2>5, <3>1, <5>3, LinkAssumption DEF Teachers
          <6>2. Offered(U, B, i) = 3
            BY <3>3, <5>3, <6>1 DEF Offered
          <6> QED BY <5>1, <6>2
        <5> QED BY <5>2, <5>3
      <4> QED BY <4>1
    <3>5. schema_' <= Offered(U, B, starts')
      <4>1. starts' = starts /\ Offered(T, B, starts) \in 2..3 /\ Offered(U, B, starts) \in 2..3
        BY <2>1, <2>5, Offers
      <4>2. CASE schema_' = schema_
        BY <1>5, <2>5, <3>4, <4>1, <4>2
      <4>3. CASE schema_' # schema_
        <5>1. U[starts] = m.by /\ m.by # Null
          BY <2>3, <2>5, <3>1, <4>3, LinkAssumption DEF Teachers
        <5>2. Offered(U, B, starts) = 3
          BY <3>3, <4>3, <5>1 DEF Offered
        <5> QED BY <3>3, <4>1, <5>2
      <4> QED BY <4>2, <4>3
    <3>6. Sent(T, B) \subseteq Sent(U, B)
      <4>1. ASSUME NEW x \in Sent(T, B) PROVE x \in Sent(U, B)
        <5>1. x \in Messages /\ x.from \in 1..(MaxFaults + 1) /\ x.schema \in 2..3
              /\ x.schema <= Offered(T, B, x.from)
          BY DEF Sent, Messages
        <5>2. /\ Offered(T, B, x.from) \in 2..3 /\ Offered(U, B, x.from) \in 2..3
              /\ Offered(T, B, x.from) <= Offered(U, B, x.from)
          BY <3>4, <5>1, Offers
        <5>3. x.schema <= Offered(U, B, x.from)
          BY <5>1, <5>2
        <5> QED BY <5>1, <5>3 DEF Sent
      <4> QED BY <4>1
    <3>7. /\ pending_messages_ \in Seq(Sent(U, B)) /\ toServer \in [Servers -> Seq(Sent(U, B))]
          /\ last_message_ \in Sent(U, B) \cup {NoMessage} /\ told \in Sent(U, B)
          /\ dropped \in BOOLEAN /\ missed \in BOOLEAN
      <4>1. \A q \in Seq(Sent(T, B)) : q \in Seq(Sent(U, B))
        BY <3>6, SeqMonotonic
      <4> QED BY <1>1, <3>6, <4>1 DEF QueueTypes
    <3>8. Replayed(schema_') \in Seq(Sent(U, B))
      <4>1. Status(schema_') \in Sent(U, B)
        BY <1>1, <1>3, <2>1, <3>3, <3>5, Made
      <4>2. <<Status(schema_')>> \in Seq(Sent(U, B))
        BY <4>1, One
      <4> QED BY <4>2, Nothing DEF Replayed, Told
    <3>9. /\ toServer' \in [Servers -> Seq(Sent(U, B))] /\ pending_messages_' \in Seq(Sent(U, B))
          /\ last_message_' \in Sent(U, B) \cup {NoMessage} /\ told' \in Sent(U, B)
          /\ dropped' \in BOOLEAN /\ missed' \in BOOLEAN
      <4>1. CASE Send(Cleared, Replayed(schema_'))
        BY <3>7, <3>8, <4>1, Sending DEF Cleared
      <4>2. CASE UNCHANGED <<pending_messages_, last_message_, toServer, told, dropped, missed>>
        BY <3>7, <4>2
      <4> QED BY <2>8, <4>1, <4>2
    <3>10. QueueTypes(U, B)'
      BY <2>2, <3>3, <3>5, <3>9 DEF QueueTypes
    <3>11. ServerTypes(B)' /\ BuildTypes(U, B)'
      BY <1>1, <2>1, <2>6, <3>2, SameServers DEF BuildTypes, serverVars
    <3> QED BY <2>4, <3>10, <3>11 DEF Types
  <2> QED BY <1>17, <2>7, <2>8 DEF ClientReads
<1>18. ASSUME Lose PROVE Types(T, B)'
  <2>1. Fault /\ UNCHANGED <<starts, alive, status, setVars, clientVars, serverVars, told, dropped,
                            returned, taught>>
    BY <1>18 DEF Lose
  <2>2. ClientTypes'
    BY <1>7, <2>1 DEF clientVars
  <2>4. missed' \in BOOLEAN
    BY <1>1, <1>18 DEF Lose, QueueTypes
  <2>3. toServer' \in [Servers -> Seq(Sent(T, B))] /\ toClient' \in Seq(Replies(B))
    <3>1. CASE toClient # <<>> /\ toClient' = Tail(toClient) /\ toServer' = toServer
      BY <1>5, <3>1, Taken
    <3>2. ASSUME NEW s \in Servers, toServer[s] # <<>>,
                 toServer' = [toServer EXCEPT ![s] = Tail(@)], toClient' = toClient
          PROVE  toServer' \in [Servers -> Seq(Sent(T, B))] /\ toClient' \in Seq(Replies(B))
      <4>1. Tail(toServer[s]) \in Seq(Sent(T, B))
        BY <1>5, <3>2, Taken
      <4> QED BY <1>5, <3>2, <4>1
    <3> QED BY <1>18, <3>1, <3>2 DEF Lose
  <2> QED BY <1>1, <1>8, <2>1, <2>2, <2>3, <2>4 DEF Types, QueueTypes, clientVars
<1>19. ASSUME NEW s \in Servers, ServerReads(s) PROVE Types(T, B)'
  <2>1. toServer[s] # <<>> /\ toServer' = [toServer EXCEPT ![s] = Tail(@)]
        /\ UNCHANGED <<starts, alive, status, setVars, clientVars, build, histVars, faults>>
    BY <1>19 DEF ServerReads
  <2>2. Head(toServer[s]) \in Sent(T, B) /\ Tail(toServer[s]) \in Seq(Sent(T, B))
    BY <1>5, <2>1, Taken
  <2>3. toServer' \in [Servers -> Seq(Sent(T, B))]
    BY <1>5, <2>1, <2>2
  <2>4. ClientTypes'
    BY <1>6, <2>1 DEF clientVars, histVars
  <2>5. BuildTypes(T, B)'
    BY <1>1, <2>1, SameBuild DEF histVars
  <2>6. CASE UNCHANGED <<toClient, serverVars>>
    BY <1>1, <1>8, <2>1, <2>3, <2>4, <2>6 DEF Types, QueueTypes, clientVars, histVars
  <2> DEFINE m == Head(toServer[s])
             client == IF clients_[s].known THEN clients_[s]
                       ELSE [known |-> TRUE, from |-> m.from, schema |-> Negotiated(s, m)]
  <2>7. CASE /\ toClient' = IF clients_[s].known THEN toClient ELSE toClient \o Opening(s, m)
             /\ beat' = [beat EXCEPT ![s] = m.type # "Close"]
             /\ clients_' = [clients_ EXCEPT ![s] = IF m.type = "Close" THEN Unknown ELSE client]
             /\ shown' = [shown EXCEPT ![s] =
                  CASE m.type = "Status" -> m.val [] m.type = "Close" -> Null [] OTHER -> @]
    <3>1. /\ m.from \in 1..(MaxFaults + 1) /\ Opening(s, m) \in Seq(Replies(B))
          /\ [known |-> TRUE, from |-> m.from, schema |-> Negotiated(s, m)] \in Known
          /\ Negotiated(s, m) <= B[s]
      BY <1>1, <2>2, Answers
    <3>2. toClient' \in Seq(Replies(B))
      BY <1>5, <2>7, <3>1, ConcatProperties
    <3>3. Unknown \in Known /\ Unknown.known = FALSE /\ Unknown.schema <= B[s]
      BY <1>2, Numbers DEF Unknown, Known
    <3>4. client \in Known /\ (client.known => client.from >= 1) /\ client.schema <= B[s]
      BY <1>1, <3>1 DEF ServerTypes
    <3>5. m.type = "Status" => m.val \in 0..MaxStatus
      <4>1. m.val \in 0..(MaxStatus + 3) /\ (m.type = "Status" => m.val <= MaxStatus)
        BY <2>2 DEF Sent, Messages
      <4> QED BY <1>2, <4>1
    <3> HIDE DEF m, client
    <3>6. clients_' \in [Servers -> Known]
          /\ \A t \in Servers : /\ clients_'[t].known => clients_'[t].from >= 1
                                /\ clients_'[t].schema <= B[t]
      BY <1>1, <2>7, <3>3, <3>4 DEF ServerTypes
    <3>7. shown' \in [Servers -> (0..MaxStatus) \cup {Null}] /\ beat' \in [Servers -> BOOLEAN]
      BY <1>1, <2>7, <3>5 DEF ServerTypes
    <3>8. ServerTypes(B)'
      BY <3>6, <3>7 DEF ServerTypes
    <3>9. QueueTypes(T, B)'
      BY <1>1, <2>1, <2>3, <3>2 DEF QueueTypes, clientVars, histVars
    <3> QED BY <2>4, <2>5, <3>8, <3>9 DEF Types
  <2> QED BY <1>19, <2>6, <2>7 DEF ServerReads
<1>20. ASSUME NEW s \in Servers, ServerTick(s) PROVE Types(T, B)'
  <2>1. /\ clients_' = [clients_ EXCEPT ![s] = IF Silent(s) THEN Unknown ELSE @]
        /\ shown' = [shown EXCEPT ![s] = IF Silent(s) THEN Null ELSE @]
        /\ beat' = [beat EXCEPT ![s] = FALSE]
        /\ UNCHANGED <<starts, alive, status, setVars, clientVars, netVars, build, histVars,
                       faults>>
    BY <1>20 DEF ServerTick
  <2>2. Unknown \in Known /\ Unknown.known = FALSE /\ Unknown.schema <= B[s]
    BY <1>2, Numbers DEF Unknown, Known
  <2>3. clients_' \in [Servers -> Known]
        /\ \A t \in Servers : /\ clients_'[t].known => clients_'[t].from >= 1
                              /\ clients_'[t].schema <= B[t]
    BY <1>1, <2>1, <2>2 DEF ServerTypes
  <2>4. shown' \in [Servers -> (0..MaxStatus) \cup {Null}] /\ beat' \in [Servers -> BOOLEAN]
    BY <1>1, <2>1 DEF ServerTypes
  <2>5. ServerTypes(B)'
    BY <2>3, <2>4 DEF ServerTypes
  <2>6. ClientTypes'
    BY <1>6, <2>1 DEF clientVars, histVars
  <2> QED BY <1>1, <2>1, <2>5, <2>6, SameBuild, SameQueues
          DEF Types, clientVars, histVars, netVars
<1>21. ASSUME NEW s \in Servers, ServerRestarts(s) PROVE Types(T, B)'
  <2>1. /\ Fault /\ clients_' = [clients_ EXCEPT ![s] = Unknown]
        /\ shown' = [shown EXCEPT ![s] = Null] /\ beat' = [beat EXCEPT ![s] = FALSE]
        /\ toServer' = [toServer EXCEPT ![s] = <<>>]
        /\ UNCHANGED <<starts, alive, status, setVars, clientVars, toClient, build, histVars>>
    BY <1>21 DEF ServerRestarts
  <2>2. Unknown \in Known /\ Unknown.known = FALSE /\ Unknown.schema <= B[s]
    BY <1>2, Numbers DEF Unknown, Known
  <2>3. clients_' \in [Servers -> Known]
        /\ \A t \in Servers : /\ clients_'[t].known => clients_'[t].from >= 1
                              /\ clients_'[t].schema <= B[t]
    BY <1>1, <2>1, <2>2 DEF ServerTypes
  <2>4. shown' \in [Servers -> (0..MaxStatus) \cup {Null}] /\ beat' \in [Servers -> BOOLEAN]
    BY <1>1, <2>1 DEF ServerTypes
  <2>5. ServerTypes(B)'
    BY <2>3, <2>4 DEF ServerTypes
  <2>6. ClientTypes'
    BY <1>7, <2>1 DEF clientVars, histVars
  <2>7. toServer' \in [Servers -> Seq(Sent(T, B))]
    BY <1>5, <2>1, Nothing
  <2>8. QueueTypes(T, B)'
    BY <1>1, <2>1, <2>7 DEF QueueTypes, clientVars, histVars
  <2> QED BY <1>1, <2>1, <2>5, <2>6, <2>8, SameBuild DEF Types, histVars
<1>22. ASSUME NEW s \in Servers, Requests(s) PROVE Types(T, B)'
  <2>1. /\ Fault /\ clients_[s].known
        /\ UNCHANGED <<starts, alive, status, setVars, clientVars, toServer, serverVars, histVars>>
    BY <1>22 DEF Requests
  <2>2. PICK t \in {"Replay", "HaltTx"} :
          toClient' = Append(toClient, [type |-> t, by |-> s, to |-> clients_[s].from,
                                        schema |-> clients_[s].schema])
    BY <1>22 DEF Requests
  <2>3. clients_[s].from \in 1..(MaxFaults + 1) /\ clients_[s].schema \in 2..3
    <3>1. clients_[s] \in Known /\ clients_[s].from >= 1
      BY <1>1, <2>1 DEF ServerTypes
    <3>2. clients_[s].from \in 0..(MaxFaults + 1) /\ clients_[s].schema \in 2..3
      BY <3>1 DEF Known
    <3> QED BY <1>2, <3>1, <3>2
  <2>4. [type |-> t, by |-> s, to |-> clients_[s].from, schema |-> clients_[s].schema]
          \in Replies(B)
    <3>1. clients_[s].schema <= B[s]
      BY <1>1 DEF ServerTypes
    <3> QED BY <2>3, <3>1 DEF Replies
  <2>5. toClient' \in Seq(Replies(B))
    BY <1>5, <2>2, <2>4, Appended
  <2>6. ClientTypes'
    BY <1>7, <2>1 DEF clientVars, histVars
  <2>7. QueueTypes(T, B)'
    BY <1>1, <2>1, <2>5 DEF QueueTypes, clientVars, histVars
  <2> QED BY <1>8, <2>1, <2>6, <2>7 DEF Types, histVars
<1>23. ASSUME UNCHANGED vars PROVE Types(T, B)'
  <2>1. UNCHANGED <<starts, alive, status, setVars, clientVars, netVars, serverVars, histVars,
                    faults>>
    BY <1>23 DEF vars
  <2>2. ClientTypes'
    BY <1>6, <2>1 DEF clientVars, histVars
  <2> QED BY <1>1, <1>8, <2>1, <2>2, SameQueues DEF Types, clientVars, histVars, netVars
<1>24. ASSUME Types(T, B)' PROVE \E U \in Teachers : Types(U, B)'
  BY <1>24
<1> QED
  BY <1>24, <1>9, <1>11, <1>12, <1>13, <1>14, <1>15, <1>16, <1>17, <1>18, <1>19, <1>20, <1>21,
     <1>22, <1>23 DEF Next

-----------------------------------------------------------------------------
\* No message is lost sight of

LEMMA KeptKept ==
  ASSUME NEW T, NEW B, Types(T, B), Kept, NoBacklog, [Next]_vars
  PROVE  Kept' /\ NoBacklog'
<1>1. /\ lookups \in Seq(Hosts) /\ pending_messages_ \in Seq(Sent(T, B))
      /\ \A h \in Hosts : h # Null
  BY LinkAssumption DEF Types, ClientTypes, QueueTypes
<1>2. \A d : Last(<<>>, d) = d
  BY Nothing
<1>3. ASSUME UNCHANGED <<pending_messages_, last_message_, told, dropped>>,
             alive' => alive, server_' # Null => server_ # Null
      PROVE  Kept' /\ NoBacklog'
  BY <1>3 DEF Kept, NoBacklog
<1>4. CASE StatusChanged
  <2> DEFINE msgs == Told(<<[Status(schema_) EXCEPT !.val = status']>>)
  <2>1. alive /\ Send(last_message_, msgs) /\ UNCHANGED <<alive, server_>>
    BY <1>4 DEF StatusChanged
  <2>2. msgs \in Seq({[Status(schema_) EXCEPT !.val = status']} \cup Sent(T, B))
    <3>1. <<[Status(schema_) EXCEPT !.val = status']>>
            \in Seq({[Status(schema_) EXCEPT !.val = status']} \cup Sent(T, B))
      BY One
    <3> QED BY <3>1, Nothing DEF Told
  <2> HIDE DEF msgs
  <2>3. pending_messages_ \in Seq({[Status(schema_) EXCEPT !.val = status']} \cup Sent(T, B))
    BY <1>1, SeqMonotonic
  <2> QED BY <2>1, <2>2, <2>3, SendingKeeps
<1>5. CASE ChangeSettings
  <2>1. server_' \in {Null, server_}
        /\ UNCHANGED <<pending_messages_, last_message_, told, dropped, alive>>
    BY <1>5 DEF ChangeSettings, set_server
  <2> QED BY <1>3, <2>1
<1>6. ASSUME NEW c \in BOOLEAN, Ends(c) PROVE Kept' /\ NoBacklog'
  <2>1. alive' = FALSE /\ UNCHANGED <<pending_messages_, server_>>
    BY <1>6 DEF Ends, clientVars
  <2> QED BY <2>1 DEF Kept, NoBacklog
<1>7. CASE Restart
  <2>1. server_' = Null /\ pending_messages_' = <<told'>>
    BY <1>7 DEF Restart, Starts
  <2>2. Last(<<told'>>, last_message_') = told'
    BY One
  <2> QED BY <2>1, <2>2 DEF Kept, NoBacklog
<1>8. CASE host_info_results
  <2>1. PICK i : Found(lookups[i]) \/ NotFound
    BY <1>8 DEF host_info_results
  <2>2. UNCHANGED <<told, dropped, alive>>
    BY <1>8 DEF host_info_results
  <2>3. CASE Found(lookups[i])
    <3>1. pending_messages_' = <<>> /\ last_message_' = Last(Backlog, last_message_)
      BY <2>3 DEF Found
    <3>2. Last(Backlog, last_message_) = Last(pending_messages_, last_message_)
      BY <1>1, FreshOnes DEF Backlog
    <3> QED BY <1>2, <2>2, <3>1, <3>2 DEF Kept, NoBacklog
  <2>4. CASE NotFound
    BY <1>3, <2>2, <2>4 DEF NotFound
  <2> QED BY <2>1, <2>3, <2>4
<1>9. CASE networkError
  <2>1. /\ pending_messages_' = <<>> /\ dropped' = (dropped \/ pending_messages_ # <<>>)
        /\ UNCHANGED <<last_message_, told, alive>>
    BY <1>9 DEF networkError, Discarded
  <2> QED BY <2>1 DEF Kept, NoBacklog
<1>10. CASE ClientReads
  <2>1. UNCHANGED <<alive, server_>>
    BY <1>10 DEF ClientReads
  <2>2. CASE UNCHANGED <<pending_messages_, last_message_, told, dropped>>
    BY <1>3, <2>1, <2>2
  <2>3. CASE alive /\ Send(Cleared, Replayed(schema_'))
    <3>1. Replayed(schema_') \in Seq({Status(schema_')} \cup Sent(T, B))
      <4>1. <<Status(schema_')>> \in Seq({Status(schema_')} \cup Sent(T, B))
        BY One
      <4> QED BY <4>1, Nothing DEF Replayed, Told
    <3>2. pending_messages_ \in Seq({Status(schema_')} \cup Sent(T, B))
      BY <1>1, SeqMonotonic
    <3> QED BY <2>1, <2>3, <3>1, <3>2, SendingKeeps
  <2> QED BY <1>10, <2>2, <2>3 DEF ClientReads
<1>11. CASE HeartbeatTimer \/ Lose
  BY <1>3, <1>11 DEF HeartbeatTimer, Lose, clientVars, histVars
<1>12. ASSUME NEW s \in Servers, ServerReads(s) \/ ServerTick(s) \/ ServerRestarts(s) \/ Requests(s)
       PROVE  Kept' /\ NoBacklog'
  <2>1. UNCHANGED <<alive, clientVars, histVars>>
    BY <1>12 DEF ServerReads, ServerTick, ServerRestarts, Requests
  <2> QED BY <1>3, <2>1 DEF clientVars, histVars
<1>13. CASE UNCHANGED vars
  BY <1>3, <1>13 DEF vars, clientVars, histVars
<1> QED
  BY <1>4, <1>5, <1>6, <1>7, <1>8, <1>9, <1>10, <1>11, <1>12, <1>13 DEF Next

LEMMA KeptAtStart == Init => Kept /\ NoBacklog
<1> SUFFICES ASSUME Init PROVE Kept /\ NoBacklog
  OBVIOUS
<1>1. server_ = Null /\ pending_messages_ = <<told>>
  BY DEF Init
<1>2. Last(<<told>>, last_message_) = told
  BY One
<1> QED BY <1>1, <1>2 DEF Kept, NoBacklog

-----------------------------------------------------------------------------
\* The theorems

\* Each incarnation has a teacher, or none, and everything is of its type.
Typed == \E T \in Teachers, B \in Builds : Types(T, B)

LEMMA TypedAtStart == Init => Typed
<1> SUFFICES ASSUME Init PROVE Typed
  OBVIOUS
<1>1. taught \in Teachers /\ build \in Builds
  BY DEF Init, Teachers
<1>2. PICK T \in Teachers, B \in Builds : taught = T /\ build = B
  BY <1>1
<1>3. Types(T, B)
  BY <1>2, TypesAtStart
<1> QED BY <1>3 DEF Typed

LEMMA TypedKept == Typed /\ [Next]_vars => Typed'
<1> SUFFICES ASSUME Typed, [Next]_vars PROVE Typed'
  OBVIOUS
<1>1. PICK T \in Teachers, B \in Builds : Types(T, B)
  BY DEF Typed
<1>2. \E U \in Teachers : Types(U, B)'
  BY <1>1, Typing
<1> QED BY <1>2 DEF Typed

\* The variables of the client and of the servers keep to the sets they range over, and
\* so do the datagrams between them.
THEOREM TypeCorrect == Spec => []TypeOK
<1>1. Typed => TypeOK
  <2> SUFFICES ASSUME NEW T \in Teachers, NEW B \in Builds, Types(T, B) PROVE TypeOK
    BY DEF Typed
  <2>1. ClientTypes /\ ServerTypes(B) /\ BuildTypes(T, B) /\ QueueTypes(T, B)
    BY DEF Types
  <2>2. starts \in 1..(MaxFaults + 1) /\ asking \in 0..MaxFaults
    <3>1. MaxFaults \in Nat
      BY LinkAssumption
    <3>2. starts \in 1..(faults + 1) /\ asking \in 0..faults /\ faults \in 0..MaxFaults
      BY <2>1 DEF ClientTypes
    <3> QED BY <3>1, <3>2
  <2>3. Sent(T, B) \subseteq Messages
    BY DEF Sent
  <2>4. \A q \in Seq(Sent(T, B)) : q \in Seq(Messages)
    BY <2>3, SeqMonotonic
  <2>5. pending_messages_ \in Seq(Messages) /\ toServer \in [Servers -> Seq(Messages)]
    BY <2>1, <2>4 DEF QueueTypes
  <2>6. last_message_ \in Messages \cup {NoMessage} /\ told \in Messages
    BY <2>1, <2>3 DEF QueueTypes
  <2>7. toClient \in Seq([type : {"Heartbeat", "Replay", "HaltTx"}, by : Servers,
                          to : 1..(MaxFaults + 1), schema : 2..3])
    <3>1. Replies(B) \subseteq [type : {"Heartbeat", "Replay", "HaltTx"}, by : Servers,
                                to : 1..(MaxFaults + 1), schema : 2..3]
      BY DEF Replies
    <3> QED BY <2>1, <3>1, SeqMonotonic DEF QueueTypes
  <2>8. build \in Builds /\ taught \in [1..(MaxFaults + 1) -> Servers \cup {Null}]
    BY <2>1 DEF BuildTypes, Teachers
  <2>9. {dropped, returned, missed} \subseteq BOOLEAN
    BY <2>1 DEF ClientTypes, QueueTypes
  <2> QED
    BY <2>1, <2>2, <2>5, <2>6, <2>7, <2>8, <2>9
    DEF TypeOK, ClientTypes, ServerTypes, QueueTypes, Known
<1> QED BY TypedAtStart, TypedKept, <1>1, PTL DEF Spec

\* The last message that the program handed to MessageClient is the last it sent or holds
\* back, unless it is one that networkError or a Replay without a server's name has
\* dropped: however look-ups, replays, duplicates and new settings follow each other.
THEOREM LastMessageKept == Spec => []LastKept
<1>1. Init => Typed /\ Kept /\ NoBacklog
  BY TypedAtStart, KeptAtStart
<1>2. Typed /\ Kept /\ NoBacklog /\ [Next]_vars => (Typed /\ Kept /\ NoBacklog)'
  <2> SUFFICES ASSUME Typed, Kept, NoBacklog, [Next]_vars PROVE Typed' /\ Kept' /\ NoBacklog'
    OBVIOUS
  <2>1. PICK T \in Teachers, B \in Builds : Types(T, B)
    BY DEF Typed
  <2> QED BY <2>1, TypedKept, KeptKept
<1>3. Typed /\ Kept /\ NoBacklog => LastKept
  BY DEF Kept, LastKept
<1> QED BY <1>1, <1>2, <1>3, PTL DEF Spec

\* What is negotiated is the smaller of the two schema numbers, so a server gets what it
\* can read, whatever the builds of the servers are and however restarts, new settings and
\* losses follow each other, but from a client that was taught its schema by another server.
THEOREM SchemaRespected == Spec => []SchemaKept
<1>1. Typed => SchemaKept
  <2> SUFFICES ASSUME NEW T \in Teachers, NEW B \in Builds, Types(T, B),
                      NEW s \in Servers, NEW i \in 1..Len(toServer[s])
               PROVE  toServer[s][i].schema <= build[s]
                        \/ taught[toServer[s][i].from] \notin {Null, s}
    BY DEF SchemaKept, Typed
  <2> DEFINE m == toServer[s][i]
  <2>1. toServer \in [Servers -> Seq(Sent(T, B))] /\ build = B /\ taught = T
    BY DEF Types, QueueTypes, BuildTypes
  <2>2. toServer[s] \in Seq(Sent(T, B))
    BY <2>1
  <2>3. m \in Sent(T, B)
    BY <2>2, ElementOfSeq
  <2>4. m.schema \in 2..3 /\ m.schema <= Offered(T, B, m.from)
    BY <2>3 DEF Sent, Messages
  <2>5. B[s] \in 2..3
    BY Numbers
  <2> HIDE DEF m
  <2>6. CASE T[m.from] = Null
    <3>1. m.schema <= 2
      BY <2>4, <2>6 DEF Offered
    <3>2. m.schema <= B[s]
      BY <2>4, <2>5, <3>1
    <3> QED BY <2>1, <3>2 DEF m
  <2>7. CASE T[m.from] = s /\ T[m.from] # Null
    <3>1. m.schema <= B[s]
      BY <2>4, <2>7 DEF Offered
    <3> QED BY <2>1, <3>1 DEF m
  <2>8. CASE T[m.from] # s /\ T[m.from] # Null
    BY <2>1, <2>8 DEF m
  <2> QED BY <2>6, <2>7, <2>8
<1> QED BY TypedAtStart, TypedKept, <1>1, PTL DEF Spec
=============================================================================
