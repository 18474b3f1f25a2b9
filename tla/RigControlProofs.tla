-------------------------- MODULE RigControlProofs --------------------------
(***************************************************************************)
(* Proofs about RigControl, for all numbers of connections, commands and    *)
(* failures: no connection is forgotten, the rig is shared as RigLink       *)
(* promises, an update with the last number tells of the last command, and  *)
(* a rig that no connection has is not left keyed.                          *)
(***************************************************************************)
EXTENDS RigControl, SequenceTheorems, TLAPS

Commands == {"start", "set", "stop"}
Kinds == {"update", "failure", "retry"}
Doings == {"idle", "polling", "failing", "closing", "ended"}
Phases == {"no", "closed", "quit"}

\* Calls, reports and instances with any number; Known and Told bound the numbers.
AnyCall == [to : Instances, call : Commands, s : States, n : Nat]
AnyReport == [kind : Kinds, from : 0..MaxOpens, s : States, n : Nat]
AnyInstance == [actual : States, ptt : BOOLEAN, n : Nat, said : States, finished : BOOLEAN]

ConfTypes ==
  /\ rig_active \in BOOLEAN /\ current \in 0..MaxOpens /\ cached \in States
  /\ commands \in 0..MaxCommands /\ transceiver_command_number = current + commands
MainTypes ==
  /\ m_freqNominal \in Freqs /\ m_rigState \in States /\ first_error \in BOOLEAN
  /\ box \in BOOLEAN /\ closing \in Phases
ThreadTypes ==
  /\ pc \in [at : Doings, i : 0..MaxOpens, timer : BOOLEAN]
  /\ inst \in [Instances -> AnyInstance]
RigTypes == rig \in [freq : Freqs, ptt : BOOLEAN] /\ unkeyFailed \in BOOLEAN
CountTypes == reports \in 0..MaxReports /\ turns \in 0..MaxTurns /\ faults \in 0..MaxFaults

Types ==
  /\ ConfTypes /\ MainTypes /\ ThreadTypes /\ RigTypes /\ CountTypes
  /\ guiQ \in Seq(AnyReport) /\ thrQ \in Seq(AnyCall)

-----------------------------------------------------------------------------
Members(q) == {q[k] : k \in 1..Len(q)}

\* No command is on the way any more.
Served(q) == \A c \in Members(q) : c.call = "stop"

\* The stop of instance i is on the way.
Stopping(q, i) == \E c \in Members(q) : c.to = i /\ c.call = "stop"

\* What the last number of a report m, or of an instance x, tells when the last
\* number given out is n and the calls on the way are q.
Truthful(m, n, q) ==
  /\ m.n <= n
  /\ m.kind = "update" =>
       n # 0 /\ (m.s.freq = NoFreq => m.n = 0) /\ (m.n = n => Served(q))
Told == \A m \in Members(guiQ) : Truthful(m, transceiver_command_number, thrQ)

Sound(x, n, q) ==
  /\ x.n <= n
  /\ x.actual.online => x.actual.freq # NoFreq
  /\ x.actual.freq = NoFreq => x.n = 0
  /\ x.n = n => Served(q)
Known == \A i \in Instances : Sound(inst[i], transceiver_command_number, thrQ)

\* The order of the calls in the rig thread's queue: those of an instance after
\* those of older ones, its start first, its stop last, commands by number.
Before(c, d) ==
  /\ c.to <= d.to
  /\ c.call = "stop" \/ d.call = "start" => c.to < d.to
  /\ c.call # "stop" /\ d.call # "stop" => c.n < d.n

Ordered(q) == \A j, k \in 1..Len(q) : j < k => Before(q[j], q[k])

\* A call that may be on the way when c is the last instance opened.
Sendable(call, c, n, in) ==
  /\ call.to <= c /\ call.n <= n /\ ~in[call.to].finished
  /\ call.call = "start" => ~in[call.to].actual.online
Addressed ==
  \A call \in Members(thrQ) : Sendable(call, current, transceiver_command_number, inst)

\* The instances Configuration has let go of, and the one it has.
Released ==
  /\ \A i \in Instances :
       i <= current /\ ~(rig_active /\ i = current) => inst[i].finished \/ Stopping(thrQ, i)
  /\ rig_active =>
       current # 0 /\ ~inst[current].finished /\ ~Stopping(thrQ, current)

\* Only opened instances do anything; those that have the rig come after finished
\* ones only.
Owning ==
  /\ \A i \in Instances : inst[i].actual.online \/ inst[i].finished => i <= current
  /\ \A i \in Instances : inst[i].actual.online =>
       ~inst[i].finished /\ \A j \in Instances : j < i => inst[j].finished

Doing ==
  /\ pc.at \in {"polling", "failing", "closing"} =>
       pc.i \in Instances /\ pc.i <= current /\ ~inst[pc.i].finished
  /\ pc.at = "polling" => inst[pc.i].actual.online

\* NoStuckKey, without the set.
Unkeyed == rig.ptt /\ (\A i \in Instances : ~inst[i].actual.online) => unkeyFailed

Control ==
  Known /\ Ordered(thrQ) /\ Addressed /\ Released /\ Owning /\ Doing /\ Unkeyed

IInv == Types /\ Told /\ Control

-----------------------------------------------------------------------------
\* Queues: what appending at the end and taking from the front do.

LEMMA Appended ==
  ASSUME NEW S, NEW q \in Seq(S), NEW x \in S
  PROVE  /\ Append(q, x) \in Seq(S)
         /\ Members(Append(q, x)) = Members(q) \cup {x}
  <1>1. Append(q, x) \in Seq(S) /\ Len(Append(q, x)) = Len(q) + 1 /\ Len(q) \in Nat
    BY AppendProperties, LenProperties
  <1>2. /\ \A k \in 1..Len(q) : Append(q, x)[k] = q[k]
        /\ Append(q, x)[Len(q) + 1] = x
    BY AppendProperties
  <1>3. 1..(Len(q) + 1) = (1..Len(q)) \cup {Len(q) + 1}
    BY <1>1
  <1>4. Members(Append(q, x)) = Members(q) \cup {x}
    BY <1>1, <1>2, <1>3 DEF Members
  <1> QED
    BY <1>1, <1>4

LEMMA Taken ==
  ASSUME NEW S, NEW q \in Seq(S), q # <<>>
  PROVE  /\ Head(q) \in S /\ Tail(q) \in Seq(S)
         /\ Members(q) = {Head(q)} \cup Members(Tail(q))
  <1>1. Head(q) \in S /\ Tail(q) \in Seq(S) /\ Len(q) \in Nat \ {0} /\ q[1] = Head(q)
    BY HeadTailProperties, LenProperties, EmptySeq
  <1>2. Len(Tail(q)) = Len(q) - 1 /\ \A k \in 1..Len(Tail(q)) : Tail(q)[k] = q[k + 1]
    BY HeadTailProperties
  <1>3. ASSUME NEW k \in 1..Len(q) PROVE q[k] = Head(q) \/ q[k] \in Members(Tail(q))
    <2>1. CASE k = 1
      BY <1>1, <2>1
    <2>2. CASE k # 1
      <3>1. k - 1 \in 1..Len(Tail(q)) /\ (k - 1) + 1 = k
        BY <1>1, <1>2, <2>2
      <3> QED
        BY <1>2, <3>1 DEF Members
    <2> QED
      BY <2>1, <2>2
  <1>4. ASSUME NEW k \in 1..Len(Tail(q)) PROVE Tail(q)[k] \in Members(q)
    <2>1. k + 1 \in 1..Len(q)
      BY <1>1, <1>2
    <2> QED
      BY <1>2, <2>1 DEF Members
  <1>5. Head(q) \in Members(q)
    <2>1. 1 \in 1..Len(q)
      BY <1>1
    <2> QED
      BY <1>1, <2>1 DEF Members
  <1> QED
    BY <1>1, <1>3, <1>4, <1>5 DEF Members

LEMMA MembersTyped ==
  ASSUME NEW S, NEW q \in Seq(S)
  PROVE  Members(q) \subseteq S
  BY ElementOfSeq DEF Members

LEMMA NoMembers == Members(<<>>) = {}
  BY DEF Members

LEMMA AppendOrdered ==
  ASSUME NEW q \in Seq(AnyCall), NEW x \in AnyCall, Ordered(q),
         \A c \in Members(q) : Before(c, x)
  PROVE  Ordered(Append(q, x))
  <1>1. /\ Len(Append(q, x)) = Len(q) + 1 /\ Len(q) \in Nat
        /\ \A k \in 1..Len(q) : Append(q, x)[k] = q[k]
        /\ Append(q, x)[Len(q) + 1] = x
    BY AppendProperties, LenProperties
  <1>2. SUFFICES ASSUME NEW j \in 1..(Len(q) + 1), NEW k \in 1..(Len(q) + 1), j < k
                 PROVE  Before(Append(q, x)[j], Append(q, x)[k])
    BY <1>1 DEF Ordered
  <1>3. j \in 1..Len(q) /\ q[j] \in Members(q)
    <2>1. j \in 1..Len(q)
      BY <1>1, <1>2
    <2> QED
      BY <2>1 DEF Members
  <1>4. CASE k \in 1..Len(q)
    BY <1>1, <1>2, <1>3, <1>4 DEF Ordered
  <1>5. CASE k = Len(q) + 1
    BY <1>1, <1>3, <1>5
  <1> QED
    BY <1>1, <1>4, <1>5

LEMMA TailOrdered ==
  ASSUME NEW q \in Seq(AnyCall), q # <<>>, Ordered(q)
  PROVE  Ordered(Tail(q)) /\ \A c \in Members(Tail(q)) : Before(Head(q), c)
  <1>1. Tail(q) \in Seq(AnyCall) /\ Len(q) \in Nat \ {0} /\ q[1] = Head(q)
    BY HeadTailProperties, LenProperties, EmptySeq
  <1>2. Len(Tail(q)) = Len(q) - 1 /\ \A k \in 1..Len(Tail(q)) : Tail(q)[k] = q[k + 1]
    BY HeadTailProperties
  <1>3. Ordered(Tail(q))
    <2>1. SUFFICES ASSUME NEW j \in 1..Len(Tail(q)), NEW k \in 1..Len(Tail(q)), j < k
                   PROVE  Before(Tail(q)[j], Tail(q)[k])
      BY DEF Ordered
    <2>2. j + 1 \in 1..Len(q) /\ k + 1 \in 1..Len(q) /\ j + 1 < k + 1
      BY <1>1, <1>2, <2>1
    <2> QED
      BY <1>2, <2>2 DEF Ordered
  <1>4. ASSUME NEW k \in 1..Len(Tail(q)) PROVE Before(Head(q), Tail(q)[k])
    <2>1. 1 \in 1..Len(q) /\ k + 1 \in 1..Len(q) /\ 1 < k + 1
      BY <1>1, <1>2
    <2> QED
      BY <1>1, <1>2, <2>1 DEF Ordered
  <1> QED
    BY <1>3, <1>4 DEF Members

-----------------------------------------------------------------------------
\* The constants, and the initial states.

LEMMA Given ==
  /\ MaxOpens \in Nat /\ MaxCommands \in Nat /\ Instances \subseteq Nat \ {0}
  /\ \A i : i \in Instances <=> i \in Nat /\ 1 <= i /\ i <= MaxOpens
  /\ Blank \in States /\ New \in AnyInstance
  <1>1. MaxOpens \in Nat /\ MaxCommands \in Nat /\ Instances \subseteq Nat \ {0}
        /\ \A i : i \in Instances <=> i \in Nat /\ 1 <= i /\ i <= MaxOpens
    BY ControlAssumption DEF Instances
  <1>2. Blank \in States
    BY DEF Blank, States
  <1>3. New \in AnyInstance
    BY <1>2 DEF New, AnyInstance
  <1> QED
    BY <1>1, <1>2, <1>3

LEMMA Summed == \A a \in 0..MaxOpens, b \in 0..MaxCommands : a + b \in Nat
  BY ControlAssumption

LEMMA InitInv == Init => IInv
  <1> SUFFICES ASSUME Init PROVE IInv
    OBVIOUS
  <1> USE DEF Init
  <1>1. Types
    <2>1. 0 \in 0..MaxOpens /\ 0 \in 0..MaxCommands /\ 0 \in 0..MaxReports
          /\ 0 \in 0..MaxTurns /\ 0 \in 0..MaxFaults /\ 0 + 0 = 0
      BY ControlAssumption
    <2>2. ConfTypes
      BY <2>1, Given DEF ConfTypes
    <2>3. MainTypes
      BY Given DEF MainTypes, Phases
    <2>4. ThreadTypes
      BY <2>1, Given DEF ThreadTypes, Rest, Doings
    <2>5. RigTypes /\ CountTypes
      BY <2>1 DEF RigTypes, CountTypes
    <2> QED
      BY <2>2, <2>3, <2>4, <2>5 DEF Types
  <1>2. Told
    BY NoMembers DEF Told
  <1>3. Control
    <2>1. Known
      BY NoMembers DEF Known, Sound, New, Blank, Served
    <2>2. Ordered(thrQ)
      BY DEF Ordered
    <2>3. Addressed
      BY NoMembers DEF Addressed
    <2>4. \A i \in Instances : ~(i <= current)
      BY Given
    <2>5. Released /\ Owning
      BY <2>4 DEF Released, Owning, New, Blank
    <2>6. Doing /\ Unkeyed
      BY DEF Doing, Unkeyed, Rest
    <2> QED
      BY <2>1, <2>2, <2>3, <2>5, <2>6 DEF Control
  <1> QED
    BY <1>1, <1>2, <1>3 DEF IInv

-----------------------------------------------------------------------------
\* Calls posted by the GUI thread.

LEMMA Placed ==
  ASSUME IInv
  PROVE  /\ transceiver_command_number \in Nat /\ current \in Nat /\ current <= MaxOpens
         /\ current <= transceiver_command_number
         /\ thrQ \in Seq(AnyCall) /\ Members(thrQ) \subseteq AnyCall
         /\ guiQ \in Seq(AnyReport) /\ Members(guiQ) \subseteq AnyReport
         /\ \A i \in Instances : inst[i] \in AnyInstance
         /\ rig_active => current \in Instances
  <1>1. Types /\ Released
    BY DEF IInv, Control
  <1>2. transceiver_command_number \in Nat /\ current \in Nat /\ current <= MaxOpens
        /\ current <= transceiver_command_number
    BY <1>1, Given DEF Types, ConfTypes
  <1>3. rig_active => current \in Instances
    <2>1. rig_active => current # 0
      BY <1>1 DEF Released
    <2>2. current # 0 => current \in Instances
      BY <1>2, Given
    <2> QED
      BY <2>1, <2>2, Zenon
  <1>4. thrQ \in Seq(AnyCall) /\ guiQ \in Seq(AnyReport)
        /\ \A i \in Instances : inst[i] \in AnyInstance
    BY <1>1 DEF Types, ThreadTypes
  <1> QED
    BY <1>2, <1>3, <1>4, MembersTyped

\* After the stop of the connection there is, if any, every instance is stopped or
\* stopping.
LEMMA ClosingKeeps ==
  ASSUME IInv, NEW q, q = thrQ \o Closing
  PROVE  /\ q \in Seq(AnyCall) /\ Ordered(q)
         /\ Members(thrQ) \subseteq Members(q)
         /\ \A c \in Members(q) : Sendable(c, current, transceiver_command_number, inst)
         /\ \A i \in Instances : i <= current => inst[i].finished \/ Stopping(q, i)
         /\ Served(thrQ) => Served(q)
  <1>1. Ordered(thrQ) /\ Addressed /\ Released
    BY DEF IInv, Control
  <1> DEFINE c == Call(current, "stop", Blank, 0)
  <1>2. CASE rig_active
    <2>1. c \in AnyCall /\ c.to = current /\ c.call = "stop" /\ c.n = 0
      BY <1>2, Placed, Given DEF Call, AnyCall, Commands
    <2> HIDE DEF c
    <2>2. q = Append(thrQ, c) /\ q \in Seq(AnyCall) /\ Members(q) = Members(thrQ) \cup {c}
      <3>1. q = thrQ \o <<c>>
        BY <1>2 DEF Closing, c
      <3> QED
        <4>1. thrQ \in Seq(AnyCall)
          BY Placed
        <4>2. q = Append(thrQ, c)
          BY <2>1, <3>1, <4>1, AppendIsConcat
        <4> QED
          BY <2>1, <4>1, <4>2, Appended
    <2>3. ASSUME NEW d \in Members(thrQ) PROVE Before(d, c)
      <3>1. d \in AnyCall /\ d.to <= current /\ current \in Nat
        BY Placed, <1>1 DEF Addressed, Sendable
      <3>2. d.call = "stop" => d.to # current
        BY <1>1, <1>2 DEF Released, Stopping
      <3>3. d.to \in Nat
        BY <3>1, Given DEF AnyCall
      <3>4. d.call = "stop" => d.to < current
        BY <3>1, <3>2, <3>3
      <3> QED
        BY <2>1, <3>1, <3>4 DEF Before
    <2>4. Ordered(q)
      BY <1>1, <2>1, <2>2, <2>3, Placed, AppendOrdered
    <2>5. Sendable(c, current, transceiver_command_number, inst)
      <3>1. c.to <= current /\ c.n <= transceiver_command_number
        BY <2>1, Placed
      <3>2. ~inst[c.to].finished /\ c.call # "start"
        BY <1>1, <1>2, <2>1 DEF Released
      <3> QED
        BY <3>1, <3>2 DEF Sendable
    <2>6. ASSUME NEW i \in Instances, i <= current PROVE inst[i].finished \/ Stopping(q, i)
      <3>1. CASE i = current
        BY <2>1, <2>2, <3>1 DEF Stopping
      <3>2. CASE i # current
        BY <1>1, <2>2, <2>6, <3>2 DEF Released, Stopping
      <3> QED
        BY <3>1, <3>2
    <2> QED
      BY <1>1, <2>1, <2>2, <2>4, <2>5, <2>6 DEF Addressed, Served
  <1>3. CASE ~rig_active
    <2>1. q = thrQ
      BY <1>3, Placed DEF Closing
    <2> QED
      BY <1>1, <1>3, <2>1, Placed DEF Released, Addressed
  <1> QED
    BY <1>2, <1>3

\* What is left to show of a step that posts calls and changes no instance.
LEMMA PostingKeeps ==
  ASSUME IInv, UNCHANGED <<pc, inst, rig, unkeyFailed>>, current' \in Nat, current <= current',
         \/ transceiver_command_number' = transceiver_command_number
            /\ (Served(thrQ) => Served(thrQ'))
         \/ transceiver_command_number' = transceiver_command_number + 1,
         Ordered(thrQ'), Addressed', Released'
  PROVE  /\ Control'
         /\ \A m \in AnyReport :
              Truthful(m, transceiver_command_number, thrQ)
                => Truthful(m, transceiver_command_number', thrQ')
  <1>1. pc' = pc /\ inst' = inst /\ rig' = rig /\ unkeyFailed' = unkeyFailed
    OBVIOUS
  <1>2. Known /\ Owning /\ Doing /\ Unkeyed
    BY DEF IInv, Control
  <1>3. /\ transceiver_command_number' \in Nat
        /\ transceiver_command_number <= transceiver_command_number'
    BY Placed
  <1>4. ASSUME NEW n \in Nat, n <= transceiver_command_number
        PROVE  /\ n <= transceiver_command_number'
               /\ (n = transceiver_command_number => Served(thrQ))
                  => (n = transceiver_command_number' => Served(thrQ'))
    <2>1. n <= transceiver_command_number'
      BY Placed, <1>3, <1>4
    <2>2. CASE transceiver_command_number' = transceiver_command_number
      <3>1. transceiver_command_number # transceiver_command_number + 1
        BY Placed
      <3>2. Served(thrQ) => Served(thrQ')
        BY <2>2, <3>1, Zenon
      <3> QED
        BY <2>1, <2>2, <3>2, Zenon
    <2>3. CASE transceiver_command_number' = transceiver_command_number + 1
      <3>1. n # transceiver_command_number'
        BY Placed, <1>4, <2>3
      <3> QED
        BY <2>1, <3>1, Zenon
    <2> QED
      BY <2>2, <2>3, Zenon
  <1>5. Known'
    <2>1. SUFFICES ASSUME NEW i \in Instances
                   PROVE  Sound(inst[i], transceiver_command_number', thrQ')
      BY <1>1 DEF Known
    <2>2. Sound(inst[i], transceiver_command_number, thrQ)
      BY <1>2 DEF Known
    <2>3. inst[i].n \in Nat
      BY Placed DEF AnyInstance
    <2> QED
      BY <1>4, <2>2, <2>3, Zenon DEF Sound
  <1>6. ASSUME NEW m \in AnyReport, Truthful(m, transceiver_command_number, thrQ)
        PROVE  Truthful(m, transceiver_command_number', thrQ')
    <2>1. m.n \in Nat
      BY DEF AnyReport
    <2>2. transceiver_command_number # 0 => transceiver_command_number' # 0
      BY Placed, <1>3
    <2> QED
      BY <1>4, <1>6, <2>1, <2>2, Zenon DEF Truthful
  <1>7. \A i \in Instances : i <= current => i <= current'
    BY Placed, Given
  <1>8. Owning' /\ Unkeyed'
    <2>1. Owning'
      BY <1>1, <1>2, <1>7 DEF Owning
    <2>2. Unkeyed'
      BY <1>1, <1>2 DEF Unkeyed
    <2> QED
      BY <2>1, <2>2
  <1>9. Doing'
    BY <1>1, <1>2, <1>7, Zenon DEF Doing
  <1> QED
    BY <1>5, <1>6, <1>8, <1>9, Zenon DEF Control

Carried ==
  /\ Control' /\ ConfTypes' /\ thrQ' \in Seq(AnyCall)
  /\ \A m \in AnyReport :
       Truthful(m, transceiver_command_number, thrQ)
         => Truthful(m, transceiver_command_number', thrQ')

LEMMA CloseKeeps ==
  ASSUME IInv, UNCHANGED <<pc, inst, rig, unkeyFailed>>, close_rig, cached' \in States,
         UNCHANGED <<current, transceiver_command_number, commands>>
  PROVE  Carried
  <1>1. Ordered(thrQ) /\ Addressed /\ Released /\ ConfTypes
    BY DEF IInv, Control, Types
  <1>2. rig_active' = FALSE /\ thrQ' = thrQ \o Closing /\ inst' = inst
        /\ current' = current /\ transceiver_command_number' = transceiver_command_number
        /\ commands' = commands
    BY DEF close_rig
  <1>3. /\ thrQ' \in Seq(AnyCall) /\ Ordered(thrQ')
        /\ \A c \in Members(thrQ') : Sendable(c, current, transceiver_command_number, inst)
        /\ \A i \in Instances : i <= current => inst[i].finished \/ Stopping(thrQ', i)
        /\ Served(thrQ) => Served(thrQ')
    BY <1>2, ClosingKeeps
  <1>4. Addressed' /\ Released'
    BY <1>2, <1>3, Zenon DEF Addressed, Released, Stopping
  <1>5. current' \in Nat /\ current <= current'
    BY <1>2, Placed
  <1>6. ConfTypes'
    BY <1>1, <1>2, Zenon DEF ConfTypes
  <1> QED
    BY <1>2, <1>3, <1>4, <1>5, <1>6, PostingKeeps DEF Carried

LEMMA OpeningKeeps ==
  ASSUME IInv, UNCHANGED <<pc, inst, rig, unkeyFailed>>, Opening, UNCHANGED commands
  PROVE  Carried
  <1>1. Ordered(thrQ) /\ Addressed /\ Released /\ Owning /\ ConfTypes
    BY DEF IInv, Control, Types
  <1> DEFINE q == thrQ \o Closing
             new == current + 1
             c == Call(new, "start", Blank, transceiver_command_number + 1)
  <1>2. /\ rig_active' = TRUE /\ current' = new /\ inst' = inst /\ commands' = commands
        /\ transceiver_command_number' = transceiver_command_number + 1
        /\ thrQ' = q \o <<c>> /\ cached' = Blank /\ current < MaxOpens
    BY DEF Opening, SentNumber, NextNumber
  <1>3. /\ q \in Seq(AnyCall) /\ Ordered(q) /\ Members(q) \subseteq AnyCall
        /\ \A d \in Members(q) : Sendable(d, current, transceiver_command_number, inst)
        /\ \A i \in Instances : i <= current => inst[i].finished \/ Stopping(q, i)
    BY ClosingKeeps, MembersTyped
  <1>4. /\ c \in AnyCall /\ c.to = new /\ c.call = "start"
        /\ c.n = transceiver_command_number + 1
    <2>1. new \in Instances /\ transceiver_command_number + 1 \in Nat
      BY <1>2, Placed, Given
    <2> QED
      BY <2>1, Given DEF Call, AnyCall, Commands
  <1>5. new \in Instances /\ new \in Nat /\ current < new
    BY <1>2, Placed, Given
  <1> HIDE DEF q, c
  <1>6. thrQ' = Append(q, c) /\ thrQ' \in Seq(AnyCall) /\ Members(thrQ') = Members(q) \cup {c}
    <2>1. thrQ' = Append(q, c)
      BY <1>2, <1>3, <1>4, AppendIsConcat
    <2> QED
      BY <1>3, <1>4, <2>1, Appended
  <1>7. ASSUME NEW d \in Members(q)
        PROVE  Before(d, c) /\ d.to # new /\ d.to <= new /\ d.n <= transceiver_command_number + 1
    <2>1. d \in AnyCall /\ d.to <= current /\ d.n <= transceiver_command_number
      BY <1>3 DEF Sendable
    <2>2. d.to \in Nat /\ d.n \in Nat
      BY <2>1, Given DEF AnyCall
    <2>3. d.to < new /\ d.n < transceiver_command_number + 1
      BY <2>1, <2>2, Placed
    <2>4. d.to <= new /\ d.to # new /\ d.n <= transceiver_command_number + 1
      BY <2>2, <2>3, <1>5, Placed
    <2> QED
      BY <1>4, <2>3, <2>4, Zenon DEF Before
  <1>8. Ordered(thrQ')
    BY <1>3, <1>4, <1>6, <1>7, AppendOrdered
  <1>9. ~inst[new].finished /\ ~inst[new].actual.online
    <2>1. ~(new <= current)
      BY <1>5, Placed
    <2> QED
      BY <1>1, <1>5, <2>1 DEF Owning
  <1>10. Addressed'
    <2>1. ASSUME NEW d \in Members(q)
          PROVE  Sendable(d, new, transceiver_command_number + 1, inst)
      BY <1>3, <1>7 DEF Sendable
    <2>2. Sendable(c, new, transceiver_command_number + 1, inst)
      <3>1. new <= new /\ transceiver_command_number + 1 <= transceiver_command_number + 1
        BY <1>5, Placed
      <3> QED
        BY <1>4, <1>9, <3>1 DEF Sendable
    <2> QED
      BY <1>2, <1>6, <2>1, <2>2, Zenon DEF Addressed
  <1>11. Released'
    <2>1. \A i \in Instances : i <= new /\ i # new => i <= current
      BY <1>5, Given, Placed
    <2>2. new # 0
      BY <1>5, Given
    <2>3. ~Stopping(thrQ', new)
      BY <1>4, <1>6, <1>7, Zenon DEF Stopping
    <2>4. \A i \in Instances : Stopping(q, i) => Stopping(thrQ', i)
      BY <1>6 DEF Stopping
    <2>5. \A i \in Instances : i <= new /\ i # new => inst[i].finished \/ Stopping(thrQ', i)
      BY <1>3, <2>1, <2>4, Zenon
    <2> QED
      BY <1>2, <1>9, <2>2, <2>3, <2>5, Zenon DEF Released, Stopping
  <1>12. ConfTypes'
    <2>1. new \in 0..MaxOpens /\ transceiver_command_number' = new + commands
      BY <1>1, <1>2, <1>5, Given DEF ConfTypes
    <2> QED
      BY <1>1, <1>2, <2>1, Given, Zenon DEF ConfTypes
  <1>13. current' \in Nat /\ current <= current'
    BY <1>2, <1>5, Placed
  <1> QED
    BY <1>2, <1>6, <1>8, <1>10, <1>11, <1>12, <1>13, PostingKeeps DEF Carried

LEMMA CommandKeeps ==
  ASSUME IInv, UNCHANGED <<pc, inst, rig, unkeyFailed>>, NEW s \in States, Command(s),
         commands < MaxCommands, commands' = commands + 1
  PROVE  Carried
  <1>1. Ordered(thrQ) /\ Addressed /\ Released /\ ConfTypes
    BY DEF IInv, Control, Types
  <1> DEFINE n == transceiver_command_number + 1
             c == Call(current, "set", cached', n)
  <1>2. /\ cached' = [s EXCEPT !.online = TRUE] /\ transceiver_command_number' = n
        /\ thrQ' = IF rig_active THEN Append(thrQ, c) ELSE thrQ
        /\ rig_active' = rig_active /\ current' = current /\ inst' = inst
    BY DEF Command, SentNumber, NextNumber
  <1>3. cached' \in States
    BY <1>2 DEF States
  <1>4. n \in Nat /\ transceiver_command_number < n
    BY Placed
  <1>5. ConfTypes'
    <2>1. n = current + commands' /\ commands' \in 0..MaxCommands
      BY <1>1, Given DEF ConfTypes
    <2> QED
      BY <1>1, <1>2, <1>3, <2>1, Zenon DEF ConfTypes
  <1>6. current' \in Nat /\ current <= current'
    BY <1>2, Placed
  <1>7. ASSUME NEW d \in Members(thrQ) PROVE d.n < n /\ Sendable(d, current, n, inst)
    <2>1. Sendable(d, current, transceiver_command_number, inst) /\ d.n \in Nat
      BY <1>1, Placed DEF Addressed, AnyCall
    <2>2. d.n < n /\ d.n <= n
      BY <2>1, <1>4, Placed DEF Sendable
    <2> QED
      BY <2>1, <2>2 DEF Sendable
  <1>8. CASE ~rig_active
    <2>1. thrQ' = thrQ
      BY <1>2, <1>8
    <2>2. Addressed' /\ Released'
      BY <1>1, <1>2, <1>7, <2>1, Zenon DEF Addressed, Released
    <2> QED
      BY <1>1, <1>2, <1>5, <1>6, <2>1, <2>2, Placed, PostingKeeps DEF Carried
  <1>9. CASE rig_active
    <2>1. c \in AnyCall /\ c.to = current /\ c.call = "set" /\ c.n = n
      BY <1>3, <1>4, <1>9, Placed DEF Call, AnyCall, Commands
    <2> HIDE DEF c, n
    <2>2. thrQ \in Seq(AnyCall)
      BY Placed
    <2>3. /\ thrQ' = Append(thrQ, c) /\ thrQ' \in Seq(AnyCall)
          /\ Members(thrQ') = Members(thrQ) \cup {c}
      BY <1>2, <1>9, <2>1, <2>2, Appended
    <2>4. ASSUME NEW d \in Members(thrQ) PROVE Before(d, c)
      <3>1. d \in AnyCall /\ d.to <= current /\ d.to \in Nat
        BY <1>1, Placed, Given DEF Addressed, Sendable, AnyCall
      <3>2. d.call = "stop" => d.to # current
        BY <1>1, <1>9 DEF Released, Stopping
      <3>3. d.call = "stop" => d.to < current
        BY <3>1, <3>2, Placed
      <3> QED
        BY <1>7, <2>1, <3>1, <3>3 DEF Before
    <2>5. Ordered(thrQ')
      BY <1>1, <2>1, <2>2, <2>3, <2>4, AppendOrdered
    <2>6. Sendable(c, current, n, inst)
      <3>1. c.to <= current /\ c.n <= n
        BY <1>4, <2>1, Placed
      <3> QED
        BY <1>1, <1>9, <2>1, <3>1 DEF Sendable, Released
    <2>7. Addressed'
      BY <1>2, <1>7, <2>3, <2>6, Zenon DEF Addressed
    <2>8. \A i \in Instances \cup {current} : Stopping(thrQ', i) <=> Stopping(thrQ, i)
      BY <2>1, <2>3 DEF Stopping
    <2>9. Released'
      BY <1>1, <1>2, <2>8 DEF Released
    <2> QED
      BY <1>2, <1>5, <1>6, <2>3, <2>5, <2>7, <2>9, PostingKeeps DEF Carried, n
  <1> QED
    BY <1>8, <1>9

LEMMA QuietKeeps ==
  ASSUME IInv, UNCHANGED <<pc, inst, rig, unkeyFailed>>, cached' \in States,
         UNCHANGED <<rig_active, current, transceiver_command_number, commands, thrQ>>
  PROVE  Carried
  <1>1. Types /\ Control
    BY DEF IInv
  <1>2. rig_active' = rig_active /\ current' = current /\ thrQ' = thrQ /\ pc' = pc
        /\ transceiver_command_number' = transceiver_command_number /\ inst' = inst
        /\ commands' = commands /\ rig' = rig /\ unkeyFailed' = unkeyFailed
    OBVIOUS
  <1>3. ConfTypes'
    BY <1>1, <1>2, Zenon DEF Types, ConfTypes
  <1>4. Control'
    <2>1. Known' /\ Ordered(thrQ') /\ Addressed' /\ Released'
      BY <1>1, <1>2 DEF Control, Known, Addressed, Released
    <2>2. Owning' /\ Doing' /\ Unkeyed'
      BY <1>1, <1>2 DEF Control, Owning, Doing, Unkeyed
    <2> QED
      BY <2>1, <2>2 DEF Control
  <1> QED
    BY <1>2, <1>3, <1>4, Placed DEF Carried

-----------------------------------------------------------------------------
\* The steps of the GUI thread.

LEMMA RetryTyped == Retry \in AnyReport /\ Retry.kind = "retry" /\ Retry.n = 0
  <1>1. 0 \in 0..MaxOpens /\ 0 \in Nat /\ "retry" \in Kinds
    BY Given DEF Kinds
  <1> QED
    BY <1>1, Given DEF Retry, Report, AnyReport

LEMMA GuiKeeps ==
  ASSUME IInv, Carried, UNCHANGED <<threadVars, rigVars, reports, turns, faults>>, MainTypes',
         guiQ' \in Seq(AnyReport), Members(guiQ') \subseteq Members(guiQ) \cup {Retry}
  PROVE  IInv'
  <1>1. Types /\ Told
    BY DEF IInv
  <1>2. pc' = pc /\ inst' = inst /\ rig' = rig /\ unkeyFailed' = unkeyFailed
        /\ reports' = reports /\ turns' = turns /\ faults' = faults
    BY DEF threadVars, rigVars
  <1>3. Types'
    BY <1>1, <1>2, Zenon DEF Carried, Types, ThreadTypes, RigTypes, CountTypes
  <1>4. Told'
    <2>1. SUFFICES ASSUME NEW m \in Members(guiQ')
                   PROVE  Truthful(m, transceiver_command_number', thrQ')
      BY DEF Told
    <2>2. CASE m \in Members(guiQ)
      BY <1>1, <2>2, Placed DEF Told, Carried
    <2>3. CASE m = Retry
      <3>1. Retry.n <= transceiver_command_number'
        <4>1. transceiver_command_number' \in Nat
          <5>1. /\ current' \in 0..MaxOpens /\ commands' \in 0..MaxCommands
                /\ transceiver_command_number' = current' + commands'
            BY Zenon DEF Carried, ConfTypes
          <5> QED
            BY <5>1, Summed, Zenon
        <4> QED
          BY <4>1, RetryTyped
      <3>2. Retry.kind # "update"
        BY RetryTyped
      <3> QED
        BY <2>3, <3>1, <3>2, Zenon DEF Truthful
    <2> QED
      BY <2>1, <2>2, <2>3
  <1> QED
    BY <1>3, <1>4 DEF IInv, Carried

LEMMA OperatorKeeps ==
  ASSUME IInv, GoOnline \/ Reconfigure \/ SetFrequency \/ SetPtt \/ CloseWindow \/ Quit \/ AnswerBox
  PROVE  IInv'
  <1>1. Types /\ MainTypes /\ guiQ \in Seq(AnyReport) /\ cached \in States
    BY DEF IInv, Types, ConfTypes
  <1>2. CASE GoOnline \/ Reconfigure
    <2>1. Opening /\ UNCHANGED <<mainVars, guiQ, threadVars, rigVars, counts>>
      BY <1>2 DEF GoOnline, Reconfigure
    <2>2. Carried
      BY <2>1, OpeningKeeps DEF threadVars, rigVars, counts
    <2>3. MainTypes' /\ guiQ' = guiQ
      BY <1>1, <2>1 DEF MainTypes, mainVars
    <2> QED
      BY <1>1, <2>1, <2>2, <2>3, GuiKeeps DEF counts
  <1>3. CASE SetFrequency
    <2>1. PICK f \in Freqs : m_freqNominal' = f /\ Command([cached EXCEPT !.freq = f])
      BY <1>3 DEF SetFrequency
    <2>2. commands < MaxCommands /\ commands' = commands + 1 /\
          UNCHANGED <<m_rigState, first_error, box, closing, guiQ, threadVars, rigVars,
                      reports, turns, faults>>
      BY <1>3 DEF SetFrequency
    <2>3. [cached EXCEPT !.freq = f] \in States
      BY <1>1 DEF States
    <2>4. Carried
      BY <2>1, <2>2, <2>3, CommandKeeps DEF threadVars, rigVars
    <2>5. MainTypes' /\ guiQ' = guiQ
      BY <1>1, <2>1, <2>2 DEF MainTypes
    <2> QED
      BY <1>1, <2>2, <2>4, <2>5, GuiKeeps
  <1>4. CASE SetPtt
    <2>1. PICK on \in BOOLEAN : Command([cached EXCEPT !.ptt = on])
      BY <1>4 DEF SetPtt
    <2>2. commands < MaxCommands /\ commands' = commands + 1 /\
          UNCHANGED <<mainVars, guiQ, threadVars, rigVars, reports, turns, faults>>
      BY <1>4 DEF SetPtt
    <2>3. [cached EXCEPT !.ptt = on] \in States
      BY <1>1 DEF States
    <2>4. Carried
      BY <2>1, <2>2, <2>3, CommandKeeps DEF threadVars, rigVars
    <2>5. MainTypes' /\ guiQ' = guiQ
      BY <1>1, <2>2 DEF MainTypes, mainVars
    <2> QED
      BY <1>1, <2>2, <2>4, <2>5, GuiKeeps
  <1>5. CASE CloseWindow
    <2>1. closing' = "closed" /\ close_rig /\
          UNCHANGED <<current, cached, transceiver_command_number, m_freqNominal, m_rigState,
                      first_error, box, guiQ, threadVars, rigVars, counts>>
      BY <1>5 DEF CloseWindow
    <2>2. Carried
      BY <1>1, <2>1, CloseKeeps DEF threadVars, rigVars, counts
    <2>3. MainTypes' /\ guiQ' = guiQ
      BY <1>1, <2>1 DEF MainTypes, Phases
    <2> QED
      BY <1>1, <2>1, <2>2, <2>3, GuiKeeps DEF counts
  <1>6. CASE Quit
    <2>1. closing' = "quit" /\
          UNCHANGED <<confVars, m_freqNominal, m_rigState, first_error, box, guiQ, thrQ,
                      threadVars, rigVars, counts>>
      BY <1>6 DEF Quit
    <2>2. Carried
      BY <1>1, <2>1, QuietKeeps DEF confVars, threadVars, rigVars, counts
    <2>3. MainTypes' /\ guiQ' = guiQ
      BY <1>1, <2>1 DEF MainTypes, Phases
    <2> QED
      BY <1>1, <2>1, <2>2, <2>3, GuiKeeps DEF counts
  <1>7. CASE AnswerBox
    <2>1. box' = FALSE /\ first_error' = TRUE /\ guiQ' \in {guiQ, Append(guiQ, Retry)} /\
          UNCHANGED <<confVars, m_freqNominal, m_rigState, closing, thrQ, threadVars, rigVars,
                      counts>>
      BY <1>7 DEF AnswerBox
    <2>2. Carried
      BY <1>1, <2>1, QuietKeeps DEF confVars, threadVars, rigVars, counts
    <2>3. MainTypes'
      BY <1>1, <2>1 DEF MainTypes
    <2>4. /\ Append(guiQ, Retry) \in Seq(AnyReport)
          /\ Members(Append(guiQ, Retry)) = Members(guiQ) \cup {Retry}
      BY <1>1, RetryTyped, Appended
    <2>5. guiQ' \in Seq(AnyReport) /\ Members(guiQ') \subseteq Members(guiQ) \cup {Retry}
      BY <1>1, <2>1, <2>4
    <2> QED
      BY <2>1, <2>2, <2>3, <2>5, GuiKeeps DEF counts
  <1> QED
    BY <1>2, <1>3, <1>4, <1>5, <1>6, <1>7

LEMMA EventKeeps ==
  ASSUME IInv, HandleEvent
  PROVE  IInv'
  <1>1. Types /\ MainTypes /\ guiQ \in Seq(AnyReport) /\ cached \in States /\ Told
    BY DEF IInv, Types, ConfTypes
  <1>2. guiQ # <<>>
    BY DEF HandleEvent, HandleUpdate, HandleFailure, rigOpen, Event
  <1>3. /\ Head(guiQ) \in AnyReport /\ Tail(guiQ) \in Seq(AnyReport)
        /\ Head(guiQ) \in Members(guiQ) /\ Members(Tail(guiQ)) \subseteq Members(guiQ)
    BY <1>1, <1>2, Taken
  <1>4. CASE HandleUpdate
    <2> DEFINE m == Head(guiQ)
    <2>1. /\ guiQ' = Tail(guiQ) /\ m.kind = "update"
          /\ cached' = [cached EXCEPT !.online = m.s.online, !.freq = m.s.freq]
          /\ IF m.s.online THEN UNCHANGED <<rig_active, thrQ>> ELSE close_rig
          /\ m_rigState' = IF m.n = transceiver_command_number THEN m.s ELSE m_rigState
          /\ m_freqNominal' = IF m_rigState'.freq # m_rigState.freq /\ ~m_rigState'.ptt
                              THEN m_rigState'.freq ELSE m_freqNominal
          /\ UNCHANGED <<current, transceiver_command_number, first_error, box, closing,
                         threadVars, rigVars, counts>>
      BY <1>4 DEF HandleUpdate, Event, Forwarded
    <2>2. cached' \in States /\ m.s \in States
      BY <1>1, <1>3, <2>1 DEF States, AnyReport
    <2>3. Carried
      <3>1. CASE m.s.online
        BY <2>1, <2>2, <3>1, QuietKeeps DEF threadVars, rigVars, counts
      <3>2. CASE ~m.s.online
        BY <2>1, <2>2, <3>2, CloseKeeps DEF threadVars, rigVars, counts
      <3> QED
        BY <3>1, <3>2
    <2>4. m.n = transceiver_command_number => m.s.freq \in Freqs
      <3>1. Truthful(m, transceiver_command_number, thrQ)
        BY <1>1, <1>3 DEF Told
      <3>2. m.n = transceiver_command_number => m.s.freq # NoFreq
        BY <2>1, <3>1, Zenon DEF Truthful
      <3>3. m.s.freq \in Freqs \cup {NoFreq}
        BY <2>2 DEF States
      <3> QED
        BY <3>2, <3>3
    <2> HIDE DEF m
    <2>5. m_rigState' \in States
      BY <1>1, <2>1, <2>2 DEF MainTypes
    <2>6. m_freqNominal' \in Freqs
      BY <1>1, <2>1, <2>4 DEF MainTypes
    <2>7. MainTypes'
      BY <1>1, <2>1, <2>5, <2>6 DEF MainTypes
    <2> QED
      BY <1>3, <2>1, <2>3, <2>7, GuiKeeps DEF counts
  <1>5. CASE HandleFailure
    <2>1. /\ close_rig /\ first_error' = FALSE
          /\ \/ guiQ' = Append(Tail(guiQ), Retry) /\ box' = box
             \/ guiQ' = Tail(guiQ) /\ box' = TRUE
          /\ UNCHANGED <<current, cached, transceiver_command_number, m_freqNominal,
                         m_rigState, closing, threadVars, rigVars, counts>>
      BY <1>5 DEF HandleFailure
    <2>2. Carried
      BY <1>1, <2>1, CloseKeeps DEF threadVars, rigVars, counts
    <2>3. MainTypes'
      BY <1>1, <2>1 DEF MainTypes
    <2>4. /\ Append(Tail(guiQ), Retry) \in Seq(AnyReport)
          /\ Members(Append(Tail(guiQ), Retry)) = Members(Tail(guiQ)) \cup {Retry}
      <3>1. \A q \in Seq(AnyReport) :
              /\ Append(q, Retry) \in Seq(AnyReport)
              /\ Members(Append(q, Retry)) = Members(q) \cup {Retry}
        BY RetryTyped, Appended
      <3> QED
        BY <1>3, <3>1, Zenon
    <2>5. guiQ' \in Seq(AnyReport) /\ Members(guiQ') \subseteq Members(guiQ) \cup {Retry}
      BY <1>3, <2>1, <2>4
    <2> QED
      BY <2>1, <2>2, <2>3, <2>5, GuiKeeps DEF counts
  <1>6. CASE rigOpen
    <2>1. /\ guiQ' = Tail(guiQ) /\ UNCHANGED <<mainVars, threadVars, rigVars, counts>>
          /\ UNCHANGED <<confVars, thrQ>> \/ Opening
      BY <1>6 DEF rigOpen
    <2>2. CASE UNCHANGED <<confVars, thrQ>>
      <3>1. Carried
        BY <1>1, <2>1, <2>2, QuietKeeps DEF confVars, threadVars, rigVars, counts
      <3>2. MainTypes'
        BY <1>1, <2>1 DEF MainTypes, mainVars
      <3> QED
        BY <1>3, <2>1, <3>1, <3>2, GuiKeeps DEF counts
    <2>3. CASE Opening
      <3>1. Carried
        BY <2>1, <2>3, OpeningKeeps DEF threadVars, rigVars, counts
      <3>2. MainTypes'
        BY <1>1, <2>1 DEF MainTypes, mainVars
      <3> QED
        BY <1>3, <2>1, <3>1, <3>2, GuiKeeps DEF counts
    <2> QED
      BY <2>1, <2>2, <2>3
  <1> QED
    BY <1>4, <1>5, <1>6 DEF HandleEvent

-----------------------------------------------------------------------------
\* The rig thread: what an instance emits, and the call it serves.

LEMMA UpdateTold ==
  ASSUME IInv, NEW i \in Instances, NEW x \in AnyInstance,
         transceiver_command_number' = transceiver_command_number,
         Served(thrQ) => Served(thrQ'), Sound(x, transceiver_command_number, thrQ'),
         guiQ' = guiQ \/ guiQ' = Updates(i, x.actual, x.n)
  PROVE  Told' /\ guiQ' \in Seq(AnyReport)
  <1> DEFINE m == Report("update", i, x.actual, x.n)
  <1>1. m \in AnyReport
    <2>1. i \in 0..MaxOpens /\ x.actual \in States /\ x.n \in Nat /\ "update" \in Kinds
      BY Given DEF AnyInstance, Kinds
    <2> QED
      BY <2>1 DEF Report, AnyReport
  <1>2. m.kind = "update" /\ m.s = x.actual /\ m.n = x.n
    BY DEF Report
  <1>3. Told /\ guiQ \in Seq(AnyReport)
    BY DEF IInv, Types
  <1>4. \A r \in Members(guiQ) : Truthful(r, transceiver_command_number, thrQ')
    BY <1>3, Zenon DEF Told, Truthful
  <1>5. guiQ' = guiQ \/ (rig_active /\ i = current /\ guiQ' = guiQ \o <<m>>)
    BY DEF Updates, Emitted
  <1> HIDE DEF m
  <1>6. CASE guiQ' = guiQ
    BY <1>3, <1>4, <1>6, Zenon DEF Told
  <1>7. CASE rig_active /\ i = current /\ guiQ' = guiQ \o <<m>>
    <2>1. guiQ' = Append(guiQ, m)
      BY <1>1, <1>3, <1>7, AppendIsConcat
    <2>2. guiQ' \in Seq(AnyReport) /\ Members(guiQ') = Members(guiQ) \cup {m}
      BY <1>1, <1>3, <2>1, Appended
    <2>3. transceiver_command_number # 0
      BY <1>7, Placed, Given
    <2>4. Truthful(m, transceiver_command_number, thrQ')
      BY <1>2, <2>3, Zenon DEF Truthful, Sound
    <2> QED
      BY <1>4, <2>2, <2>4, Zenon DEF Told
  <1> QED
    BY <1>5, <1>6, <1>7

\* The call at the head of the queue: older instances are finished, later calls go
\* to the same or to younger ones.
LEMMA HeadFacts ==
  ASSUME IInv, thrQ # <<>>, NEW c, c = Head(thrQ), NEW q, q = Tail(thrQ)
  PROVE  /\ c \in AnyCall /\ c.to <= current /\ c.n <= transceiver_command_number
         /\ ~inst[c.to].finished /\ q \in Seq(AnyCall) /\ Ordered(q)
         /\ Members(thrQ) = {c} \cup Members(q)
         /\ \A d \in Members(q) :
              /\ d \in AnyCall /\ Before(c, d)
              /\ Sendable(d, current, transceiver_command_number, inst)
         /\ \A j \in Instances : j < c.to => inst[j].finished
         /\ Served(thrQ) => Served(q)
         /\ c.call # "stop" /\ c.n = transceiver_command_number => Served(q)
  <1>1. Ordered(thrQ) /\ Addressed /\ Released
    BY DEF IInv, Control
  <1>2. /\ c \in AnyCall /\ q \in Seq(AnyCall) /\ Members(thrQ) = {c} \cup Members(q)
    BY Placed, Taken
  <1>3. Ordered(q) /\ \A d \in Members(q) : Before(c, d)
    BY <1>1, Placed, TailOrdered
  <1>4. \A d \in Members(q) : d \in AnyCall
    BY <1>2, MembersTyped
  <1>5. \A d \in Members(q) \cup {c} : Sendable(d, current, transceiver_command_number, inst)
    BY <1>1, <1>2 DEF Addressed
  <1>6. c.to <= current /\ c.n <= transceiver_command_number /\ ~inst[c.to].finished
    BY <1>5 DEF Sendable
  <1>7. ASSUME NEW j \in Instances, j < c.to PROVE inst[j].finished
    <2>1. c.to \in Nat /\ j \in Nat /\ current \in Nat
      BY <1>2, Placed, Given DEF AnyCall
    <2>2. j <= current /\ j # current /\ j # c.to
      BY <1>6, <1>7, <2>1
    <2>3. ~Stopping(thrQ, j)
      <3>1. ASSUME NEW d \in Members(q) PROVE d.to # j
        <4>1. d.to \in Nat /\ c.to <= d.to
          BY <1>3, <1>4, Given DEF AnyCall, Before
        <4> QED
          BY <1>7, <2>1, <4>1
      <3> QED
        BY <1>2, <2>2, <3>1, Zenon DEF Stopping
    <2> QED
      BY <1>1, <2>2, <2>3, Zenon DEF Released
  <1>8. Served(thrQ) => Served(q)
    BY <1>2 DEF Served
  <1>9. ASSUME c.call # "stop", c.n = transceiver_command_number PROVE Served(q)
    <2>1. SUFFICES ASSUME NEW d \in Members(q), d.call # "stop" PROVE FALSE
      BY DEF Served
    <2>2. c.n < d.n /\ d.n <= transceiver_command_number /\ d.n \in Nat
      BY <1>3, <1>4, <1>5, <1>9, <2>1 DEF Before, Sendable, AnyCall
    <2> QED
      BY <1>9, <2>2, Placed
  <1> QED
    BY <1>2, <1>3, <1>4, <1>5, <1>6, <1>7, <1>8, <1>9

LEMMA PcTyped ==
  /\ Rest \in [at : Doings, i : 0..MaxOpens, timer : BOOLEAN]
  /\ [Rest EXCEPT !.at = "ended"] \in [at : Doings, i : 0..MaxOpens, timer : BOOLEAN]
  /\ [Rest EXCEPT !.at = "ended"].at = "ended" /\ Rest.at = "idle"
  <1>1. 0 \in 0..MaxOpens
    BY Given
  <1> QED
    BY <1>1 DEF Rest, Doings

\* An instance serves a start or a set, well or not.
LEMMA ServingKeeps ==
  ASSUME IInv, UNCHANGED <<confVars, mainVars, commands, reports, turns>>,
         NEW c, c = Head(thrQ), thrQ # <<>>, c.call # "stop", thrQ' = Tail(thrQ),
         NEW x \in AnyInstance, inst' = [inst EXCEPT ![c.to] = x], ~x.finished,
         Sound(x, transceiver_command_number, thrQ'),
         pc' = Rest \/ pc' = [at |-> "failing", i |-> c.to, timer |-> FALSE],
         guiQ' = guiQ \/ guiQ' = Updates(c.to, x.actual, x.n),
         RigTypes', faults' \in 0..MaxFaults, Unkeyed'
  PROVE  IInv'
  <1>1. Types /\ Control
    BY DEF IInv
  <1>2. /\ c \in AnyCall /\ c.to <= current
        /\ thrQ' \in Seq(AnyCall) /\ Ordered(thrQ') /\ Members(thrQ) = {c} \cup Members(thrQ')
        /\ \A d \in Members(thrQ') :
             /\ d \in AnyCall /\ Before(c, d)
             /\ Sendable(d, current, transceiver_command_number, inst)
        /\ \A j \in Instances : j < c.to => inst[j].finished
        /\ ~inst[c.to].finished
        /\ Served(thrQ) => Served(thrQ')
    BY HeadFacts
  <1>3. c.to \in Instances /\ c.to \in Nat /\ c.to \in 0..MaxOpens
    BY <1>2, Given DEF AnyCall
  <1>4. /\ rig_active' = rig_active /\ current' = current /\ cached' = cached
        /\ transceiver_command_number' = transceiver_command_number /\ commands' = commands
        /\ m_freqNominal' = m_freqNominal /\ m_rigState' = m_rigState
        /\ first_error' = first_error /\ box' = box /\ closing' = closing
        /\ reports' = reports /\ turns' = turns
    BY DEF confVars, mainVars
  <1>5. /\ inst' \in [Instances -> AnyInstance] /\ inst'[c.to] = x
        /\ \A j \in Instances : j # c.to => inst'[j] = inst[j]
    BY <1>1, <1>3 DEF Types, ThreadTypes
  <1>6. ThreadTypes'
    <2>1. pc' \in [at : Doings, i : 0..MaxOpens, timer : BOOLEAN]
      <3>1. CASE pc' = Rest
        BY <3>1, PcTyped
      <3>2. CASE pc' = [at |-> "failing", i |-> c.to, timer |-> FALSE]
        BY <1>3, <3>2 DEF Doings
      <3> QED
        BY <3>1, <3>2
    <2> QED
      BY <1>5, <2>1 DEF ThreadTypes
  <1>7. Told' /\ guiQ' \in Seq(AnyReport)
    BY <1>2, <1>3, <1>4, UpdateTold
  <1>8. Types'
    <2>1. ConfTypes' /\ MainTypes' /\ CountTypes'
      BY <1>1, <1>4, Zenon DEF Types, ConfTypes, MainTypes, CountTypes
    <2> QED
      BY <1>2, <1>6, <1>7, <2>1 DEF Types
  <1>9. Known'
    <2>1. \A j \in Instances : Sound(inst[j], transceiver_command_number, thrQ')
      BY <1>1, <1>2, Zenon DEF Control, Known, Sound
    <2> QED
      BY <1>4, <1>5, <2>1, Zenon DEF Known
  <1>10. Addressed'
    <2>1. SUFFICES ASSUME NEW d \in Members(thrQ')
                   PROVE  Sendable(d, current, transceiver_command_number, inst')
      BY <1>4 DEF Addressed
    <2>2. /\ d \in AnyCall /\ Before(c, d)
          /\ Sendable(d, current, transceiver_command_number, inst)
      BY <1>2
    <2>3. d.to \in Instances /\ d.to \in Nat /\ (d.call = "start" => c.to < d.to)
      BY <2>2, Given DEF AnyCall, Before
    <2>4. d.call = "start" => d.to # c.to
      BY <1>3, <2>3
    <2> QED
      BY <1>5, <2>2, <2>3, <2>4, Zenon DEF Sendable
  <1>11. Released'
    <2>1. \A j : Stopping(thrQ', j) <=> Stopping(thrQ, j)
      BY <1>2 DEF Stopping
    <2>2. \A j \in Instances : inst'[j].finished <=> inst[j].finished
      BY <1>2, <1>5
    <2>3. rig_active => current \in Instances
      BY Placed
    <2> QED
      BY <1>1, <1>4, <2>1, <2>2, <2>3, Zenon DEF Control, Released
  <1>12. Owning'
    <2>1. \A j \in Instances : inst'[j].finished <=> inst[j].finished
      BY <1>2, <1>5
    <2>2. SUFFICES ASSUME NEW j \in Instances
                   PROVE  /\ inst'[j].actual.online \/ inst'[j].finished => j <= current
                          /\ inst'[j].actual.online =>
                               ~inst'[j].finished /\ \A k \in Instances : k < j => inst'[k].finished
      BY <1>4 DEF Owning
    <2>3. CASE j = c.to
      BY <1>2, <1>5, <2>1, <2>3, Zenon
    <2>4. CASE j # c.to
      BY <1>1, <1>5, <2>1, <2>4, Zenon DEF Control, Owning
    <2> QED
      BY <2>3, <2>4
  <1>13. Doing'
    <2>1. CASE pc' = Rest
      BY <2>1 DEF Doing, Rest
    <2>2. CASE pc' = [at |-> "failing", i |-> c.to, timer |-> FALSE]
      <3>1. pc'.at = "failing" /\ pc'.i = c.to
        BY <2>2
      <3> QED
        BY <1>2, <1>3, <1>4, <1>5, <3>1 DEF Doing
    <2> QED
      BY <2>1, <2>2
  <1> QED
    BY <1>2, <1>7, <1>8, <1>9, <1>10, <1>11, <1>12, <1>13 DEF IInv, Control

\* What the success or the failure of call c leaves behind, with r the instance
\* before it is noted.
Outcome(c, r) ==
  /\ faults' \in 0..MaxFaults
  /\ pc' = Rest \/ pc' = [at |-> "failing", i |-> c.to, timer |-> FALSE]
  /\ \E x \in AnyInstance :
       /\ inst' = [inst EXCEPT ![c.to] = x] /\ x.actual = r.actual /\ ~x.finished
       /\ Sound(x, transceiver_command_number, thrQ')
       /\ guiQ' = Updates(c.to, x.actual, x.n)

LEMMA Succeeding ==
  ASSUME IInv, NEW c, c = Head(thrQ), thrQ # <<>>, c.call # "stop", thrQ' = Tail(thrQ),
         NEW r \in AnyInstance, ~r.finished, r.actual.freq # NoFreq, Succeeds(c.to, r, c.n)
  PROVE  Outcome(c, r)
  <1>1. /\ c \in AnyCall /\ c.n <= transceiver_command_number
        /\ c.n = transceiver_command_number => Served(thrQ')
    BY HeadFacts
  <1>2. c.n \in Nat
    BY <1>1 DEF AnyCall
  <1> DEFINE x == [r EXCEPT !.n = c.n, !.said = r.actual, !.ptt =
                     IF Head(thrQ).call = "set" THEN r.actual.ptt ELSE @]
  <1>3. inst' = [inst EXCEPT ![c.to] = x] /\ guiQ' = Updates(c.to, r.actual, c.n)
        /\ pc' = Rest /\ faults' = faults
    BY DEF Succeeds
  <1>4. x \in AnyInstance /\ x.actual = r.actual /\ x.n = c.n /\ x.finished = r.finished
    BY <1>2 DEF AnyInstance, States
  <1> HIDE DEF x
  <1>5. Sound(x, transceiver_command_number, thrQ')
    BY <1>1, <1>4 DEF Sound
  <1>6. faults \in 0..MaxFaults
    BY DEF IInv, Types, CountTypes
  <1> QED
    BY <1>3, <1>4, <1>5, <1>6 DEF Outcome

LEMMA Failing ==
  ASSUME IInv, NEW c, c = Head(thrQ), thrQ # <<>>, c.call # "stop", thrQ' = Tail(thrQ),
         NEW r \in AnyInstance, ~r.finished, Sound(r, transceiver_command_number, thrQ),
         Fails(c.to, r)
  PROVE  Outcome(c, r)
  <1>1. Served(thrQ) => Served(thrQ')
    BY HeadFacts
  <1> DEFINE x == [r EXCEPT !.said = r.actual]
  <1>2. inst' = [inst EXCEPT ![c.to] = x] /\ guiQ' = Updates(c.to, r.actual, r.n)
        /\ pc' = [at |-> "failing", i |-> c.to, timer |-> FALSE]
        /\ faults < MaxFaults /\ faults' = faults + 1
    BY DEF Fails, Fault
  <1>3. x \in AnyInstance /\ x.actual = r.actual /\ x.n = r.n /\ x.finished = r.finished
    BY DEF AnyInstance, States
  <1> HIDE DEF x
  <1>4. Sound(x, transceiver_command_number, thrQ')
    BY <1>1, <1>3, Zenon DEF Sound
  <1>5. faults' \in 0..MaxFaults
    BY <1>2, ControlAssumption DEF IInv, Types, CountTypes
  <1> QED
    BY <1>2, <1>3, <1>4, <1>5 DEF Outcome

\* A call that is no stop comes to its end.
CallEnds(c) ==
  /\ thrQ # <<>> /\ c.call # "stop" /\ thrQ' = Tail(thrQ) /\ RigTypes'
  /\ UNCHANGED <<confVars, mainVars, commands, reports, turns>>
  /\ \E r :
       /\ Outcome(c, r)
       /\ \/ r.actual.online
          \/ /\ r.actual = inst[c.to].actual /\ rig' = rig
             /\ rig.ptt => unkeyFailed' = unkeyFailed

LEMMA CallKeeps ==
  ASSUME IInv, NEW c, c = Head(thrQ), CallEnds(c)
  PROVE  IInv'
  <1>0. /\ thrQ # <<>> /\ c.call # "stop" /\ thrQ' = Tail(thrQ) /\ RigTypes'
        /\ UNCHANGED <<confVars, mainVars, commands, reports, turns>>
    BY DEF CallEnds
  <1>1. PICK r :
          /\ Outcome(c, r)
          /\ \/ r.actual.online
             \/ /\ r.actual = inst[c.to].actual /\ rig' = rig
                /\ rig.ptt => unkeyFailed' = unkeyFailed
    BY DEF CallEnds
  <1>2. PICK x \in AnyInstance :
          /\ inst' = [inst EXCEPT ![c.to] = x] /\ x.actual = r.actual /\ ~x.finished
          /\ Sound(x, transceiver_command_number, thrQ')
          /\ guiQ' = Updates(c.to, x.actual, x.n)
    BY <1>1 DEF Outcome
  <1>3. c.to \in Instances /\ inst \in [Instances -> AnyInstance] /\ Unkeyed
    <2>1. c \in AnyCall
      BY <1>0, HeadFacts
    <2>2. inst \in [Instances -> AnyInstance] /\ Unkeyed
      BY DEF IInv, Types, ThreadTypes, Control
    <2> QED
      BY <2>1, <2>2 DEF AnyCall
  <1>4. inst'[c.to].actual = r.actual /\ \A j \in Instances : j # c.to => inst'[j] = inst[j]
    BY <1>2, <1>3
  <1>5. Unkeyed'
    <2>1. CASE r.actual.online
      BY <1>3, <1>4, <2>1 DEF Unkeyed
    <2>2. CASE /\ r.actual = inst[c.to].actual /\ rig' = rig
               /\ rig.ptt => unkeyFailed' = unkeyFailed
      <3>1. \A j \in Instances : inst'[j].actual = inst[j].actual
        BY <1>4, <2>2
      <3> QED
        BY <1>3, <2>2, <3>1 DEF Unkeyed
    <2> QED
      BY <1>1, <2>1, <2>2
  <1>6. /\ faults' \in 0..MaxFaults
        /\ pc' = Rest \/ pc' = [at |-> "failing", i |-> c.to, timer |-> FALSE]
    BY <1>1 DEF Outcome
  <1> QED
    BY <1>0, <1>2, <1>5, <1>6, ServingKeeps

-----------------------------------------------------------------------------
\* The calls start and set.

\* What the rig says is a state with a frequency.
LEMMA StartedTyped ==
  ASSUME IInv, NEW r \in AnyInstance
  PROVE  /\ Started(r) \in AnyInstance /\ Started(r).actual.online
         /\ Started(r).actual.freq # NoFreq /\ Started(r).n = r.n
         /\ Started(r).finished = r.finished
  <1>1. rig \in [freq : Freqs, ptt : BOOLEAN]
    BY DEF IInv, Types, RigTypes
  <1>2. [online |-> TRUE, freq |-> rig.freq, ptt |-> rig.ptt] \in States
    BY <1>1 DEF States
  <1>3. rig.freq # NoFreq
    BY <1>1, ControlAssumption DEF NoFreq
  <1> QED
    BY <1>2, <1>3 DEF Started, AnyInstance

LEMMA StartEnds ==
  ASSUME IInv, ServeStart
  PROVE  CallEnds(Head(thrQ))
  <1> DEFINE c == Head(thrQ)
             r == inst[c.to]
  <1>1. /\ thrQ # <<>> /\ c.call = "start" /\ thrQ' = Tail(thrQ)
        /\ Succeeds(c.to, Started(r), c.n) \/ Fails(c.to, r)
        /\ UNCHANGED <<confVars, mainVars, rigVars, commands, reports, turns>>
    BY DEF ServeStart, Serving
  <1>2. c \in AnyCall /\ ~r.finished /\ c.to \in Instances
    BY <1>1, HeadFacts DEF AnyCall
  <1>3. r \in AnyInstance /\ RigTypes /\ Sound(r, transceiver_command_number, thrQ)
    BY <1>2, Placed DEF IInv, Types, Control, Known
  <1> HIDE DEF c, r
  <1>4. rig' = rig /\ unkeyFailed' = unkeyFailed
    BY <1>1 DEF rigVars
  <1>5. RigTypes'
    BY <1>3, <1>4 DEF RigTypes
  <1>6. CASE Succeeds(c.to, Started(r), c.n)
    <2>1. /\ Started(r) \in AnyInstance /\ Started(r).actual.online
          /\ Started(r).actual.freq # NoFreq /\ ~Started(r).finished
      BY <1>2, <1>3, StartedTyped
    <2>2. Outcome(c, Started(r))
      BY <1>1, <1>6, <2>1, Succeeding DEF c
    <2> QED
      BY <1>1, <1>5, <2>1, <2>2, Zenon DEF CallEnds, c
  <1>7. CASE Fails(c.to, r)
    <2>1. Outcome(c, r)
      BY <1>1, <1>2, <1>3, <1>7, Failing DEF c
    <2>2. r.actual = inst[c.to].actual
      BY DEF r
    <2> QED
      BY <1>1, <1>4, <1>5, <2>1, <2>2, Zenon DEF CallEnds, c
  <1> QED
    BY <1>1, <1>6, <1>7

\* Commands obeyed change states to states, and leave none without a frequency.
LEMMA ObeyedTyped ==
  ASSUME NEW r, NEW s \in States, NEW k \in 0..3
  PROVE  /\ \A x \in States :
              /\ Obeyed(x, r, s, k) \in States /\ (x.online => Obeyed(x, r, s, k).online)
              /\ x.freq # NoFreq => Obeyed(x, r, s, k).freq # NoFreq
         /\ \A x \in [freq : Freqs, ptt : BOOLEAN] :
              Obeyed(x, r, s, k) \in [freq : Freqs, ptt : BOOLEAN]
  <1>1. Needed(r, s, 2) => s.freq \in Freqs
    BY DEF Needed, States
  <1>2. \A n \in Freqs : n # NoFreq
    BY ControlAssumption DEF NoFreq
  <1>3. ASSUME NEW x \in States
        PROVE  /\ Obeyed(x, r, s, k) \in States /\ (x.online => Obeyed(x, r, s, k).online)
               /\ x.freq # NoFreq => Obeyed(x, r, s, k).freq # NoFreq
    <2> DEFINE f == IF k >= 2 /\ Needed(r, s, 2) THEN s.freq ELSE x.freq
               p == IF k >= 3 /\ Needed(r, s, 3) THEN TRUE
                    ELSE IF k >= 1 /\ Needed(r, s, 1) THEN FALSE ELSE x.ptt
    <2>1. Obeyed(x, r, s, k) = [x EXCEPT !.freq = f, !.ptt = p]
      BY DEF Obeyed
    <2>2. f \in Freqs \cup {NoFreq} /\ (x.freq # NoFreq => f # NoFreq) /\ p \in BOOLEAN
      BY <1>1, <1>2, Zenon DEF States
    <2> HIDE DEF f, p
    <2> QED
      BY <2>1, <2>2 DEF States
  <1>4. ASSUME NEW x \in [freq : Freqs, ptt : BOOLEAN]
        PROVE  Obeyed(x, r, s, k) \in [freq : Freqs, ptt : BOOLEAN]
    <2> DEFINE f == IF k >= 2 /\ Needed(r, s, 2) THEN s.freq ELSE x.freq
               p == IF k >= 3 /\ Needed(r, s, 3) THEN TRUE
                    ELSE IF k >= 1 /\ Needed(r, s, 1) THEN FALSE ELSE x.ptt
    <2>1. Obeyed(x, r, s, k) = [x EXCEPT !.freq = f, !.ptt = p]
      BY DEF Obeyed
    <2>2. f \in Freqs /\ p \in BOOLEAN
      BY <1>1
    <2> HIDE DEF f, p
    <2> QED
      BY <2>1, <2>2
  <1> QED
    BY <1>3, <1>4

LEMMA SetEnds ==
  ASSUME IInv, ServeSet
  PROVE  CallEnds(Head(thrQ))
  <1> DEFINE c == Head(thrQ)
             s == c.s
             b == inst[c.to]
             r == IF b.actual.online THEN b ELSE Started(b)
             after(k) == [r EXCEPT !.actual = Obeyed(@, r, s, k)]
  <1>1. /\ thrQ # <<>> /\ c.call = "set" /\ thrQ' = Tail(thrQ)
        /\ \/ Succeeds(c.to, after(3), c.n) /\ rig' = Obeyed(rig, r, s, 3)
           \/ \E k \in 0..2 :
                /\ Fails(c.to, after(k))
                /\ rig' \in {Obeyed(rig, r, s, k), Obeyed(rig, r, s, k + 1)}
           \/ Fails(c.to, b) /\ UNCHANGED rig
        /\ unkeyFailed' = (unkeyFailed /\ rig'.ptt)
        /\ UNCHANGED <<confVars, mainVars, commands, reports, turns>>
    BY DEF ServeSet, Serving
  <1>2. c \in AnyCall /\ ~b.finished /\ c.to \in Instances /\ s \in States
    <2>1. c \in AnyCall /\ ~inst[c.to].finished
      BY <1>1, HeadFacts
    <2> QED
      BY <2>1 DEF AnyCall
  <1>3. b \in AnyInstance /\ RigTypes /\ Sound(b, transceiver_command_number, thrQ)
    BY <1>2, Placed DEF IInv, Types, Control, Known
  <1>4. /\ r \in AnyInstance /\ r.actual.online /\ r.actual.freq # NoFreq
        /\ r.n = b.n /\ ~r.finished
    BY <1>2, <1>3, StartedTyped DEF Sound
  <1> HIDE DEF c, s, b, r
  <1>5. ASSUME NEW k \in 0..3
        PROVE  /\ after(k) \in AnyInstance /\ after(k).actual.online
               /\ after(k).actual.freq # NoFreq /\ after(k).n = b.n /\ ~after(k).finished
    <2>1. r.actual \in States
      BY <1>4 DEF AnyInstance
    <2>2. /\ Obeyed(r.actual, r, s, k) \in States /\ Obeyed(r.actual, r, s, k).online
          /\ Obeyed(r.actual, r, s, k).freq # NoFreq
      <3>1. \A x \in States :
              /\ Obeyed(x, r, s, k) \in States /\ (x.online => Obeyed(x, r, s, k).online)
              /\ x.freq # NoFreq => Obeyed(x, r, s, k).freq # NoFreq
        BY <1>2, ObeyedTyped
      <3> QED
        BY <1>4, <2>1, <3>1, Zenon
    <2> QED
      BY <1>4, <2>2 DEF AnyInstance
  <1>6. ASSUME NEW k \in 0..3 PROVE Obeyed(rig, r, s, k) \in [freq : Freqs, ptt : BOOLEAN]
    BY <1>2, <1>3, ObeyedTyped DEF RigTypes
  <1>7. rig' \in [freq : Freqs, ptt : BOOLEAN] => RigTypes'
    BY <1>1, <1>3 DEF RigTypes
  <1> HIDE DEF after
  <1>8. CASE Succeeds(c.to, after(3), c.n) /\ rig' = Obeyed(rig, r, s, 3)
    <2>1. /\ after(3) \in AnyInstance /\ after(3).actual.online
          /\ after(3).actual.freq # NoFreq /\ ~after(3).finished /\ RigTypes'
      BY <1>5, <1>6, <1>7, <1>8
    <2>2. Outcome(c, after(3))
      BY <1>1, <1>8, <2>1, Succeeding DEF c
    <2> QED
      BY <1>1, <2>1, <2>2, Zenon DEF CallEnds, c
  <1>9. CASE \E k \in 0..2 :
               /\ Fails(c.to, after(k))
               /\ rig' \in {Obeyed(rig, r, s, k), Obeyed(rig, r, s, k + 1)}
    <2>1. PICK k \in 0..2 :
            /\ Fails(c.to, after(k))
            /\ rig' \in {Obeyed(rig, r, s, k), Obeyed(rig, r, s, k + 1)}
      BY <1>9
    <2>2. k \in 0..3 /\ k + 1 \in 0..3
      OBVIOUS
    <2>3. RigTypes'
      BY <1>6, <1>7, <2>1, <2>2
    <2>4. /\ after(k) \in AnyInstance /\ after(k).actual.online /\ after(k).n = b.n
          /\ after(k).actual.freq # NoFreq /\ ~after(k).finished
      BY <1>5, <2>2
    <2>5. Sound(after(k), transceiver_command_number, thrQ)
      BY <1>3, <2>4, Zenon DEF Sound
    <2>6. Outcome(c, after(k))
      BY <1>1, <2>1, <2>4, <2>5, Failing DEF c
    <2> QED
      BY <1>1, <2>3, <2>4, <2>6, Zenon DEF CallEnds, c
  <1>10. CASE Fails(c.to, b) /\ UNCHANGED rig
    <2>1. RigTypes'
      BY <1>3, <1>7, <1>10 DEF RigTypes
    <2>2. Outcome(c, b)
      BY <1>1, <1>2, <1>3, <1>10, Failing DEF c
    <2>3. rig.ptt => unkeyFailed' = unkeyFailed
      BY <1>1, <1>3, <1>10 DEF RigTypes
    <2>4. b.actual = inst[c.to].actual
      BY DEF b
    <2> QED
      BY <1>1, <1>10, <2>1, <2>2, <2>3, <2>4, Zenon DEF CallEnds, c
  <1> QED
    BY <1>1, <1>8, <1>9, <1>10

-----------------------------------------------------------------------------
\* The call stop, and the closing of an instance that failed.

\* What shutdown leaves behind.
LEMMA ShutdownFacts ==
  ASSUME IInv, NEW i \in Instances, Shutdown(i)
  PROVE  /\ faults' \in 0..MaxFaults /\ RigTypes' /\ Unkeyed'
         /\ \E x \in AnyInstance :
              /\ inst' = [inst EXCEPT ![i] = x] /\ ~x.actual.online /\ x.n = inst[i].n
              /\ x.actual.freq = inst[i].actual.freq /\ (x.finished <=> pc.at = "idle")
              /\ guiQ' = guiQ \/ guiQ' = Updates(i, x.actual, x.n)
  <1> DEFINE tries == inst[i].actual.online
             off == [inst[i].actual EXCEPT !.online = FALSE,
                                           !.ptt = @ /\ (rig'.ptt \/ ~tries)]
             x == [inst[i] EXCEPT !.actual = off, !.said = off, !.finished = (pc.at = "idle")]
  <1>1. /\ \/ tries /\ rig' = [rig EXCEPT !.ptt = FALSE] /\ UNCHANGED faults
           \/ tries /\ rig.ptt /\ faults < MaxFaults /\ faults' = faults + 1 /\ UNCHANGED rig
           \/ ~tries /\ UNCHANGED <<rig, faults>>
        /\ unkeyFailed' = (rig'.ptt /\ (unkeyFailed \/ tries))
        /\ guiQ' \in {guiQ, IF off = inst[i].said THEN guiQ ELSE Updates(i, off, inst[i].n)}
        /\ inst' = [inst EXCEPT ![i].actual = off, ![i].said = off,
                                ![i].finished = (pc.at = "idle")]
    BY DEF Shutdown, TriesUnkey, Fault
  <1>2. /\ Unkeyed /\ rig \in [freq : Freqs, ptt : BOOLEAN] /\ faults \in 0..MaxFaults
        /\ inst \in [Instances -> AnyInstance] /\ inst[i] \in AnyInstance
    BY DEF IInv, Control, Types, RigTypes, CountTypes, ThreadTypes
  <1>3. faults' \in 0..MaxFaults
    BY <1>1, <1>2, ControlAssumption
  <1>4. rig' \in [freq : Freqs, ptt : BOOLEAN] /\ unkeyFailed' \in BOOLEAN
    BY <1>1, <1>2
  <1>5. off \in States /\ ~off.online /\ off.freq = inst[i].actual.freq
    BY <1>2 DEF AnyInstance, States
  <1> HIDE DEF off
  <1>6. /\ x \in AnyInstance /\ x.actual = off /\ x.n = inst[i].n
        /\ (x.finished <=> pc.at = "idle")
    BY <1>2, <1>5 DEF AnyInstance
  <1>7. inst' = [inst EXCEPT ![i] = x]
    BY <1>1, <1>2
  <1> HIDE DEF x
  <1>8. \A j \in Instances : j # i => inst'[j] = inst[j]
    BY <1>2, <1>7
  <1>9. Unkeyed'
    <2>1. SUFFICES ASSUME rig'.ptt, \A j \in Instances : ~inst'[j].actual.online, ~tries
                   PROVE  unkeyFailed
      BY <1>1 DEF Unkeyed
    <2>2. rig.ptt
      BY <1>1, <2>1
    <2>3. \A j \in Instances : ~inst[j].actual.online
      BY <1>8, <2>1
    <2> QED
      BY <1>2, <2>2, <2>3 DEF Unkeyed
  <1>10. guiQ' = guiQ \/ guiQ' = Updates(i, x.actual, x.n)
    BY <1>1, <1>6
  <1> QED
    BY <1>3, <1>4, <1>5, <1>6, <1>7, <1>9, <1>10 DEF RigTypes

LEMMA StopKeeps ==
  ASSUME IInv, ServeStop
  PROVE  IInv'
  <1> DEFINE c == Head(thrQ)
             i == c.to
  <1>1. /\ thrQ # <<>> /\ c.call = "stop" /\ thrQ' = Tail(thrQ) /\ Shutdown(i) /\ pc.at = "idle"
        /\ UNCHANGED <<confVars, mainVars, pc, commands, reports, turns>>
    BY DEF ServeStop, Serving
  <1>2. /\ c \in AnyCall /\ i <= current
        /\ thrQ' \in Seq(AnyCall) /\ Ordered(thrQ') /\ Members(thrQ) = {c} \cup Members(thrQ')
        /\ \A d \in Members(thrQ') :
             /\ d \in AnyCall /\ Before(c, d)
             /\ Sendable(d, current, transceiver_command_number, inst)
        /\ Served(thrQ) => Served(thrQ')
    BY <1>1, HeadFacts
  <1>3. i \in Instances /\ i \in Nat
    BY <1>2, Given DEF AnyCall
  <1>4. Types /\ Control
    BY DEF IInv
  <1> HIDE DEF c, i
  <1>5. /\ faults' \in 0..MaxFaults /\ RigTypes' /\ Unkeyed'
        /\ \E x \in AnyInstance :
             /\ inst' = [inst EXCEPT ![i] = x] /\ ~x.actual.online /\ x.n = inst[i].n
             /\ x.actual.freq = inst[i].actual.freq /\ (x.finished <=> pc.at = "idle")
             /\ guiQ' = guiQ \/ guiQ' = Updates(i, x.actual, x.n)
    BY <1>1, <1>3, ShutdownFacts
  <1>6. PICK x \in AnyInstance :
          /\ inst' = [inst EXCEPT ![i] = x] /\ ~x.actual.online /\ x.n = inst[i].n
          /\ x.actual.freq = inst[i].actual.freq /\ x.finished
          /\ guiQ' = guiQ \/ guiQ' = Updates(i, x.actual, x.n)
    BY <1>1, <1>5
  <1>7. /\ rig_active' = rig_active /\ current' = current /\ cached' = cached
        /\ transceiver_command_number' = transceiver_command_number /\ commands' = commands
        /\ m_freqNominal' = m_freqNominal /\ m_rigState' = m_rigState
        /\ first_error' = first_error /\ box' = box /\ closing' = closing
        /\ reports' = reports /\ turns' = turns /\ pc' = pc
    BY <1>1 DEF confVars, mainVars
  <1>8. /\ inst' \in [Instances -> AnyInstance] /\ inst'[i] = x
        /\ \A j \in Instances : j # i => inst'[j] = inst[j]
    BY <1>3, <1>4, <1>6 DEF Types, ThreadTypes
  <1>9. Sound(x, transceiver_command_number, thrQ')
    <2>1. Sound(inst[i], transceiver_command_number, thrQ)
      BY <1>3, <1>4 DEF Control, Known
    <2> QED
      BY <1>2, <1>6, <2>1, Zenon DEF Sound
  <1>10. Told' /\ guiQ' \in Seq(AnyReport)
    BY <1>2, <1>3, <1>6, <1>7, <1>9, UpdateTold
  <1>11. Types'
    <2>1. ConfTypes' /\ MainTypes' /\ CountTypes'
      BY <1>4, <1>5, <1>7, Zenon DEF Types, ConfTypes, MainTypes, CountTypes
    <2>2. ThreadTypes'
      BY <1>4, <1>7, <1>8, Zenon DEF Types, ThreadTypes
    <2> QED
      BY <1>2, <1>5, <1>10, <2>1, <2>2 DEF Types
  <1>12. Known'
    <2>1. \A j \in Instances : Sound(inst[j], transceiver_command_number, thrQ')
      BY <1>2, <1>4, Zenon DEF Control, Known, Sound
    <2> QED
      BY <1>7, <1>8, <1>9, <2>1, Zenon DEF Known
  <1>13. \A d \in Members(thrQ') : d.to \in Instances /\ d.to # i
    <2>1. SUFFICES ASSUME NEW d \in Members(thrQ') PROVE d.to \in Instances /\ d.to # i
      OBVIOUS
    <2>2. d \in AnyCall /\ i < d.to
      BY <1>1, <1>2 DEF Before, i
    <2> QED
      BY <1>3, <2>2, Given DEF AnyCall
  <1>14. Addressed'
    BY <1>2, <1>7, <1>8, <1>13, Zenon DEF Addressed, Sendable
  <1>15. Stopping(thrQ, i) /\ \A j : j # i => (Stopping(thrQ', j) <=> Stopping(thrQ, j))
    BY <1>1, <1>2 DEF Stopping, i
  <1>16. Released'
    <2>1. rig_active => current \in Instances /\ current # i /\ ~inst'[current].finished
                        /\ ~Stopping(thrQ', current)
      <3>1. rig_active => current \in Instances
        BY Placed
      <3> QED
        BY <1>4, <1>8, <1>15, <3>1, Zenon DEF Control, Released
    <2>2. SUFFICES ASSUME NEW j \in Instances, j <= current, ~(rig_active /\ j = current)
                   PROVE  inst'[j].finished \/ Stopping(thrQ', j)
      BY <1>4, <1>7, <2>1, Zenon DEF Control, Released
    <2>3. CASE j = i
      BY <1>6, <1>8, <2>3
    <2>4. CASE j # i
      BY <1>4, <1>8, <1>15, <2>2, <2>4, Zenon DEF Control, Released
    <2> QED
      BY <2>3, <2>4
  <1>17. Owning'
    <2>1. \A j \in Instances : inst[j].finished => inst'[j].finished
      BY <1>6, <1>8
    <2>2. SUFFICES ASSUME NEW j \in Instances
                   PROVE  /\ inst'[j].actual.online \/ inst'[j].finished => j <= current
                          /\ inst'[j].actual.online =>
                               ~inst'[j].finished /\ \A k \in Instances : k < j => inst'[k].finished
      BY <1>7 DEF Owning
    <2>3. CASE j = i
      BY <1>2, <1>6, <1>8, <2>3 DEF i
    <2>4. CASE j # i
      BY <1>4, <1>8, <2>1, <2>4, Zenon DEF Control, Owning
    <2> QED
      BY <2>3, <2>4
  <1>18. Doing'
    BY <1>1, <1>7 DEF Doing
  <1> QED
    BY <1>2, <1>5, <1>10, <1>11, <1>12, <1>14, <1>16, <1>17, <1>18 DEF IInv, Control

-----------------------------------------------------------------------------
\* Steps of the rig thread that serve no call.

\* An instance that is not finished learns the state of the rig, or goes off line.
LEMMA ChangeKeeps ==
  ASSUME IInv, UNCHANGED <<confVars, mainVars, thrQ, commands, turns>>,
         NEW i \in Instances, NEW x \in AnyInstance, inst' = [inst EXCEPT ![i] = x],
         ~inst[i].finished, ~x.finished, x.actual.online => inst[i].actual.online,
         Sound(x, transceiver_command_number, thrQ),
         guiQ' = guiQ \/ guiQ' = Updates(i, x.actual, x.n),
         pc' \in [at : Doings, i : 0..MaxOpens, timer : BOOLEAN],
         pc'.at \in {"idle", "ended"}, RigTypes', CountTypes', Unkeyed'
  PROVE  IInv'
  <1>1. Types /\ Control
    BY DEF IInv
  <1>2. /\ rig_active' = rig_active /\ current' = current /\ cached' = cached
        /\ transceiver_command_number' = transceiver_command_number /\ commands' = commands
        /\ m_freqNominal' = m_freqNominal /\ m_rigState' = m_rigState
        /\ first_error' = first_error /\ box' = box /\ closing' = closing /\ thrQ' = thrQ
    BY DEF confVars, mainVars
  <1>3. /\ inst' \in [Instances -> AnyInstance] /\ inst'[i] = x
        /\ \A j \in Instances : j # i => inst'[j] = inst[j]
    BY <1>1 DEF Types, ThreadTypes
  <1>4. /\ \A j \in Instances : inst'[j].finished <=> inst[j].finished
        /\ \A j \in Instances : inst'[j].actual.online => inst[j].actual.online
    BY <1>3
  <1>5. Told' /\ guiQ' \in Seq(AnyReport)
    BY <1>2, UpdateTold
  <1>6. Types'
    <2>1. ConfTypes' /\ MainTypes'
      BY <1>1, <1>2, Zenon DEF Types, ConfTypes, MainTypes
    <2>2. ThreadTypes'
      BY <1>3 DEF ThreadTypes
    <2> QED
      BY <1>1, <1>2, <1>5, <2>1, <2>2, Zenon DEF Types
  <1>7. Known'
    BY <1>1, <1>2, <1>3, Zenon DEF Control, Known
  <1>8. Addressed'
    <2>1. SUFFICES ASSUME NEW d \in Members(thrQ)
                   PROVE  Sendable(d, current, transceiver_command_number, inst')
      BY <1>2 DEF Addressed
    <2>2. d \in AnyCall /\ Sendable(d, current, transceiver_command_number, inst)
      BY <1>1, Placed DEF Control, Addressed
    <2>3. d.to \in Instances
      BY <2>2 DEF AnyCall
    <2> QED
      BY <1>4, <2>2, <2>3, Zenon DEF Sendable
  <1>9. Released'
    <2>1. rig_active => current \in Instances
      BY Placed
    <2> QED
      BY <1>1, <1>2, <1>4, <2>1, Zenon DEF Control, Released
  <1>10. Owning'
    <2>1. SUFFICES ASSUME NEW j \in Instances
                   PROVE  /\ inst'[j].actual.online \/ inst'[j].finished => j <= current
                          /\ inst'[j].actual.online =>
                               ~inst'[j].finished /\ \A k \in Instances : k < j => inst'[k].finished
      BY <1>2 DEF Owning
    <2> QED
      BY <1>1, <1>4, Zenon DEF Control, Owning
  <1>11. Doing' /\ Ordered(thrQ')
    BY <1>1, <1>2 DEF Control, Doing
  <1> QED
    BY <1>5, <1>6, <1>7, <1>8, <1>9, <1>10, <1>11 DEF IInv, Control

LEMMA AfterSlotTyped ==
  ASSUME NEW timer
  PROVE  /\ AfterSlot(timer) \in [at : Doings, i : 0..MaxOpens, timer : BOOLEAN]
         /\ AfterSlot(timer).at \in {"idle", "ended"}
  BY PcTyped, Zenon DEF AfterSlot

LEMMA CloseFailedKeeps ==
  ASSUME IInv, CloseFailed
  PROVE  IInv'
  <1> DEFINE i == pc.i
  <1>1. /\ pc.at = "closing" /\ Shutdown(i) /\ pc' = AfterSlot(pc.timer)
        /\ UNCHANGED <<confVars, mainVars, thrQ, commands, reports, turns>>
    BY DEF CloseFailed
  <1>2. i \in Instances /\ ~inst[i].finished
    BY <1>1 DEF IInv, Control, Doing
  <1> HIDE DEF i
  <1>3. /\ faults' \in 0..MaxFaults /\ RigTypes' /\ Unkeyed'
        /\ \E x \in AnyInstance :
             /\ inst' = [inst EXCEPT ![i] = x] /\ ~x.actual.online /\ x.n = inst[i].n
             /\ x.actual.freq = inst[i].actual.freq /\ (x.finished <=> pc.at = "idle")
             /\ guiQ' = guiQ \/ guiQ' = Updates(i, x.actual, x.n)
    BY <1>1, <1>2, ShutdownFacts
  <1>4. PICK x \in AnyInstance :
          /\ inst' = [inst EXCEPT ![i] = x] /\ ~x.actual.online /\ x.n = inst[i].n
          /\ x.actual.freq = inst[i].actual.freq /\ ~x.finished
          /\ guiQ' = guiQ \/ guiQ' = Updates(i, x.actual, x.n)
    BY <1>1, <1>3
  <1>5. Sound(x, transceiver_command_number, thrQ)
    <2>1. Sound(inst[i], transceiver_command_number, thrQ)
      BY <1>2 DEF IInv, Control, Known
    <2> QED
      BY <1>4, <2>1, Zenon DEF Sound
  <1>6. CountTypes'
    <2>1. CountTypes
      BY DEF IInv, Types
    <2> QED
      BY <1>1, <1>3, <2>1 DEF CountTypes
  <1> QED
    BY <1>1, <1>2, <1>3, <1>4, <1>5, <1>6, AfterSlotTyped, ChangeKeeps

LEMMA PolledKeeps ==
  ASSUME IInv, PollChanged \/ PollConfirmed \/ PollSilent
  PROVE  IInv'
  <1> DEFINE i == pc.i
  <1>1. PICK emits \in BOOLEAN :
          /\ pc.at = "polling" /\ pc' = AfterSlot(TRUE)
          /\ inst' = [inst EXCEPT ![i].actual = Polled(i),
                                  ![i].said = IF emits THEN Polled(i) ELSE @]
          /\ guiQ' = IF emits THEN Updates(i, Polled(i), inst[i].n) ELSE guiQ
          /\ UNCHANGED <<confVars, mainVars, thrQ, rigVars, commands, turns, faults>>
    BY DEF PollChanged, PollConfirmed, PollSilent, PollEnds
  <1>2. reports' \in 0..MaxReports
    <2>1. reports \in 0..MaxReports
      BY DEF IInv, Types, CountTypes
    <2>2. reports' = reports \/ (reports < MaxReports /\ reports' = reports + 1)
      BY DEF PollChanged, PollConfirmed, PollSilent
    <2> QED
      BY <2>1, <2>2, ControlAssumption
  <1>3. /\ i \in Instances /\ ~inst[i].finished /\ inst[i].actual.online
        /\ inst \in [Instances -> AnyInstance] /\ inst[i] \in AnyInstance
        /\ rig \in [freq : Freqs, ptt : BOOLEAN] /\ RigTypes /\ CountTypes
        /\ Sound(inst[i], transceiver_command_number, thrQ)
    BY <1>1 DEF IInv, Control, Doing, Types, ThreadTypes, RigTypes, Known
  <1>4. Polled(i) \in States /\ Polled(i).online /\ Polled(i).freq # NoFreq
    BY <1>3, ControlAssumption DEF Polled, States, NoFreq
  <1> DEFINE x == [inst[i] EXCEPT !.actual = Polled(i), !.said = IF emits THEN Polled(i) ELSE @]
  <1> HIDE DEF i
  <1>5. /\ x \in AnyInstance /\ x.actual = Polled(i) /\ x.n = inst[i].n
        /\ x.finished = inst[i].finished
    BY <1>3, <1>4 DEF AnyInstance
  <1>6. inst' = [inst EXCEPT ![i] = x]
    BY <1>1, <1>3
  <1> HIDE DEF x
  <1>7. Sound(x, transceiver_command_number, thrQ)
    BY <1>3, <1>4, <1>5, Zenon DEF Sound
  <1>8. RigTypes' /\ CountTypes'
    BY <1>1, <1>2, <1>3 DEF RigTypes, CountTypes, rigVars
  <1>9. Unkeyed'
    <2>1. inst'[i].actual.online
      BY <1>3, <1>4, <1>5, <1>6
    <2> QED
      BY <1>3, <2>1 DEF Unkeyed
  <1>10. guiQ' = guiQ \/ guiQ' = Updates(i, x.actual, x.n)
    BY <1>1, <1>5
  <1> QED
    BY <1>1, <1>3, <1>5, <1>6, <1>7, <1>8, <1>9, <1>10, AfterSlotTyped, ChangeKeeps

\* The other steps change no instance and post no call.
LEMMA OtherKeeps ==
  ASSUME IInv, UNCHANGED <<confVars, mainVars, thrQ, inst, unkeyFailed, commands>>,
         pc' \in [at : Doings, i : 0..MaxOpens, timer : BOOLEAN],
         Doing', RigTypes', rig'.ptt = rig.ptt, CountTypes',
         guiQ' \in Seq(AnyReport), \A m \in Members(guiQ') \ Members(guiQ) : m.kind # "update" /\ m.n = 0
  PROVE  IInv'
  <1>1. Types /\ Control /\ Told
    BY DEF IInv
  <1>2. /\ rig_active' = rig_active /\ current' = current /\ cached' = cached
        /\ transceiver_command_number' = transceiver_command_number /\ commands' = commands
        /\ m_freqNominal' = m_freqNominal /\ m_rigState' = m_rigState
        /\ first_error' = first_error /\ box' = box /\ closing' = closing /\ thrQ' = thrQ
        /\ inst' = inst /\ unkeyFailed' = unkeyFailed
    BY DEF confVars, mainVars
  <1>3. Types'
    <2>1. ConfTypes' /\ MainTypes'
      BY <1>1, <1>2, Zenon DEF Types, ConfTypes, MainTypes
    <2>2. ThreadTypes'
      BY <1>1, <1>2, Zenon DEF Types, ThreadTypes
    <2> QED
      BY <1>1, <1>2, <2>1, <2>2, Zenon DEF Types
  <1>4. Told'
    <2>1. SUFFICES ASSUME NEW m \in Members(guiQ')
                   PROVE  Truthful(m, transceiver_command_number, thrQ)
      BY <1>2, Zenon DEF Told
    <2>2. CASE m \in Members(guiQ)
      BY <1>1, <2>2 DEF Told
    <2>3. CASE m \notin Members(guiQ)
      <3>1. m.kind # "update" /\ m.n = 0
        BY <2>3
      <3>2. 0 <= transceiver_command_number
        BY Placed
      <3> QED
        BY <3>1, <3>2, Zenon DEF Truthful
    <2> QED
      BY <2>2, <2>3
  <1>5. Known' /\ Ordered(thrQ') /\ Addressed' /\ Released'
    BY <1>1, <1>2 DEF Control, Known, Addressed, Released
  <1>6. Owning'
    BY <1>1, <1>2 DEF Control, Owning
  <1>7. Unkeyed'
    BY <1>1, <1>2 DEF Control, Unkeyed
  <1> QED
    BY <1>3, <1>4, <1>5, <1>6, <1>7 DEF IInv, Control

LEMMA RestKeeps ==
  ASSUME IInv, StartPoll \/ SignalFailure \/ PollFails \/ ThreadQuits \/ Turn
  PROVE  IInv'
  <1>1. /\ Types /\ Doing /\ Owning /\ RigTypes /\ CountTypes /\ guiQ \in Seq(AnyReport)
        /\ pc \in [at : Doings, i : 0..MaxOpens, timer : BOOLEAN]
        /\ rig \in [freq : Freqs, ptt : BOOLEAN] /\ faults \in 0..MaxFaults
        /\ turns \in 0..MaxTurns
    BY DEF IInv, Types, Control, RigTypes, CountTypes, ThreadTypes
  <1>2. ASSUME UNCHANGED <<guiQ, rigVars>> PROVE /\ RigTypes' /\ rig'.ptt = rig.ptt
                                                 /\ guiQ' \in Seq(AnyReport) /\ guiQ' = guiQ
    BY <1>1, <1>2 DEF RigTypes, rigVars
  <1>3. CASE StartPoll
    <2>1. PICK i \in Instances :
            /\ inst[i].actual.online /\ pc' = [at |-> "polling", i |-> i, timer |-> TRUE]
            /\ UNCHANGED <<confVars, mainVars, guiQ, thrQ, inst, rigVars, counts>>
      BY <1>3 DEF StartPoll
    <2>2. i \in 0..MaxOpens /\ i <= current /\ ~inst[i].finished
      BY <1>1, <2>1, Given DEF Owning
    <2>3. pc' \in [at : Doings, i : 0..MaxOpens, timer : BOOLEAN]
      BY <2>1, <2>2 DEF Doings
    <2>4. Doing'
      <3>1. pc'.at = "polling" /\ pc'.i = i
        BY <2>1
      <3>2. current' = current /\ inst' = inst
        BY <2>1 DEF confVars
      <3> QED
        BY <2>1, <2>2, <3>1, <3>2, Zenon DEF Doing
    <2>5. CountTypes'
      BY <1>1, <2>1 DEF CountTypes, counts
    <2> QED
      BY <1>2, <2>1, <2>3, <2>4, <2>5, OtherKeeps DEF rigVars, counts
  <1>4. CASE SignalFailure
    <2> DEFINE m == Report("failure", pc.i, Blank, 0)
    <2>1. /\ pc.at = "failing" /\ pc' = [pc EXCEPT !.at = "closing"]
          /\ guiQ' = guiQ \/ guiQ' = guiQ \o <<m>>
          /\ UNCHANGED <<confVars, mainVars, thrQ, inst, rigVars, counts>>
      BY <1>4 DEF SignalFailure, Emitted
    <2>2. pc' \in [at : Doings, i : 0..MaxOpens, timer : BOOLEAN] /\ pc'.at = "closing"
          /\ pc'.i = pc.i
      BY <1>1, <2>1 DEF Doings
    <2>3. Doing'
      <3>1. current' = current /\ inst' = inst
        BY <2>1 DEF confVars
      <3> QED
        BY <1>1, <2>1, <2>2, <3>1 DEF Doing
    <2>4. m \in AnyReport /\ m.kind # "update" /\ m.n = 0
      <3>1. pc.i \in 0..MaxOpens /\ 0 \in Nat
        BY <1>1
      <3> QED
        BY <3>1, Given DEF Report, AnyReport, Kinds
    <2> HIDE DEF m
    <2>5. guiQ' \in Seq(AnyReport)
          /\ \A r \in Members(guiQ') \ Members(guiQ) : r.kind # "update" /\ r.n = 0
      <3>1. CASE guiQ' = guiQ
        BY <1>1, <3>1
      <3>2. CASE guiQ' = guiQ \o <<m>>
        <4>1. guiQ' = Append(guiQ, m)
          BY <1>1, <2>4, <3>2, AppendIsConcat
        <4>2. guiQ' \in Seq(AnyReport) /\ Members(guiQ') = Members(guiQ) \cup {m}
          BY <1>1, <2>4, <4>1, Appended
        <4> QED
          BY <2>4, <4>2
      <3> QED
        BY <2>1, <3>1, <3>2
    <2>6. CountTypes' /\ RigTypes'
      BY <1>1, <2>1 DEF CountTypes, counts, RigTypes, rigVars
    <2> QED
      BY <2>1, <2>2, <2>3, <2>5, <2>6, OtherKeeps DEF rigVars, counts
  <1>5. CASE PollFails
    <2>1. /\ pc.at = "polling" /\ pc' = [pc EXCEPT !.at = "failing"]
          /\ faults < MaxFaults /\ faults' = faults + 1
          /\ UNCHANGED <<confVars, mainVars, guiQ, thrQ, inst, rigVars, commands, reports, turns>>
      BY <1>5 DEF PollFails, Fault
    <2>2. pc' \in [at : Doings, i : 0..MaxOpens, timer : BOOLEAN] /\ pc'.at = "failing"
          /\ pc'.i = pc.i
      BY <1>1, <2>1 DEF Doings
    <2>3. Doing'
      <3>1. current' = current /\ inst' = inst
        BY <2>1 DEF confVars
      <3> QED
        BY <1>1, <2>1, <2>2, <3>1 DEF Doing
    <2>4. faults' \in 0..MaxFaults
      BY <1>1, <2>1, ControlAssumption
    <2>5. CountTypes'
      BY <1>1, <2>1, <2>4 DEF CountTypes
    <2> QED
      BY <1>2, <2>1, <2>2, <2>3, <2>5, OtherKeeps DEF rigVars
  <1>6. CASE ThreadQuits
    <2>1. /\ pc' = [Rest EXCEPT !.at = "ended"]
          /\ UNCHANGED <<confVars, mainVars, guiQ, thrQ, inst, rigVars, counts>>
      BY <1>6 DEF ThreadQuits
    <2>2. pc' \in [at : Doings, i : 0..MaxOpens, timer : BOOLEAN] /\ pc'.at = "ended"
      BY <2>1, PcTyped
    <2>3. Doing'
      BY <2>2 DEF Doing
    <2>4. CountTypes'
      BY <1>1, <2>1 DEF CountTypes, counts
    <2> QED
      BY <1>2, <2>1, <2>2, <2>3, <2>4, OtherKeeps DEF rigVars, counts
  <1>7. CASE Turn
    <2>1. PICK f \in Freqs :
            /\ rig' = [rig EXCEPT !.freq = f] /\ turns < MaxTurns /\ turns' = turns + 1
            /\ UNCHANGED <<confVars, mainVars, guiQ, thrQ, threadVars, unkeyFailed, commands,
                           reports, faults>>
      BY <1>7 DEF Turn
    <2>2. rig' \in [freq : Freqs, ptt : BOOLEAN] /\ rig'.ptt = rig.ptt
      BY <1>1, <2>1
    <2>3. RigTypes'
      BY <1>1, <2>1, <2>2 DEF RigTypes
    <2>4. turns' \in 0..MaxTurns
      BY <1>1, <2>1, ControlAssumption
    <2>5. CountTypes'
      BY <1>1, <2>1, <2>4 DEF CountTypes
    <2>6. pc' = pc /\ inst' = inst /\ current' = current /\ guiQ' = guiQ
      BY <2>1 DEF threadVars, confVars
    <2>7. Doing'
      BY <1>1, <2>6 DEF Doing
    <2> QED
      BY <1>1, <2>1, <2>2, <2>3, <2>5, <2>6, <2>7, OtherKeeps
  <1> QED
    BY <1>3, <1>4, <1>5, <1>6, <1>7

-----------------------------------------------------------------------------
\* The invariant.

LEMMA NextKeeps == IInv /\ [Next]_vars => IInv'
  <1> SUFFICES ASSUME IInv, [Next]_vars PROVE IInv'
    OBVIOUS
  <1>1. CASE UNCHANGED vars
    <2>1. /\ UNCHANGED <<confVars, mainVars, thrQ, inst, unkeyFailed, commands>>
          /\ pc' = pc /\ rig' = rig /\ guiQ' = guiQ /\ reports' = reports
          /\ turns' = turns /\ faults' = faults /\ current' = current /\ inst' = inst
      BY <1>1 DEF vars, confVars, mainVars, threadVars, rigVars, counts
    <2>2. /\ pc \in [at : Doings, i : 0..MaxOpens, timer : BOOLEAN]
          /\ Doing /\ RigTypes /\ CountTypes /\ guiQ \in Seq(AnyReport)
      BY DEF IInv, Types, Control, ThreadTypes
    <2>3. Doing' /\ CountTypes'
      BY <2>1, <2>2 DEF Doing, CountTypes
    <2>4. RigTypes'
      BY <2>1, <2>2 DEF RigTypes
    <2> QED
      BY <2>1, <2>2, <2>3, <2>4, OtherKeeps
  <1>2. CASE GoOnline \/ Reconfigure \/ SetFrequency \/ SetPtt \/ CloseWindow \/ Quit \/ AnswerBox
    BY <1>2, OperatorKeeps
  <1>3. CASE HandleEvent
    BY <1>3, EventKeeps
  <1>4. CASE Serve
    BY <1>4, StartEnds, SetEnds, CallKeeps, StopKeeps, CloseFailedKeeps, RestKeeps DEF Serve
  <1>5. CASE Poll
    BY <1>5, PolledKeeps, RestKeeps DEF Poll
  <1>6. CASE StartPoll \/ ThreadQuits \/ Turn
    BY <1>6, RestKeeps
  <1> QED
    BY <1>1, <1>2, <1>3, <1>4, <1>5, <1>6 DEF Next

\* The strengthened invariant: connections are opened, served, failed and stopped
\* in an order in which none is forgotten.
THEOREM Inductive == Spec => []IInv
  BY InitInv, NextKeeps, PTL DEF Spec

\* Every variable keeps its type; in particular MainWindow never takes over the
\* frequency of a connection that does not know one.
THEOREM TypeCorrect == Spec => []TypeOK
  <1>1. IInv => TypeOK
    <2> SUFFICES ASSUME IInv PROVE TypeOK
      OBVIOUS
    <2>1. Types /\ ConfTypes /\ MainTypes /\ ThreadTypes /\ RigTypes /\ CountTypes
          /\ Told /\ Known /\ Addressed
      BY DEF IInv, Types, Control
    <2>2. transceiver_command_number \in 0..(MaxOpens + MaxCommands)
      <3>1. /\ current \in 0..MaxOpens /\ commands \in 0..MaxCommands
            /\ transceiver_command_number = current + commands
        BY <2>1 DEF ConfTypes
      <3> QED
        BY <3>1, ControlAssumption
    <2> DEFINE N == transceiver_command_number
    <2>3. N \in Nat /\ \A n \in Nat : n <= N => n \in 0..N
      BY Placed
    <2> HIDE DEF N
    <2>4. guiQ \in Seq(Reports)
      <3>1. \A m \in AnyReport : m.n \in 0..N => m \in Reports
        BY DEF AnyReport, Reports, Kinds, N
      <3>2. ASSUME NEW k \in 1..Len(guiQ) PROVE guiQ[k] \in Reports
        <4>1. guiQ[k] \in AnyReport /\ guiQ[k] \in Members(guiQ)
          BY Placed DEF Members
        <4>2. guiQ[k].n \in Nat /\ guiQ[k].n <= N
          BY <2>1, <4>1 DEF Told, Truthful, AnyReport, N
        <4> QED
          BY <2>3, <3>1, <4>1, <4>2
      <3>3. guiQ \in Seq(AnyReport)
        BY Placed
      <3> QED
        BY <3>2, <3>3
    <2>5. thrQ \in Seq(Calls)
      <3>1. \A c \in AnyCall : c.n \in 0..N => c \in Calls
        BY DEF AnyCall, Calls, Commands, N
      <3>2. ASSUME NEW k \in 1..Len(thrQ) PROVE thrQ[k] \in Calls
        <4>1. thrQ[k] \in AnyCall /\ thrQ[k] \in Members(thrQ)
          BY Placed DEF Members
        <4>2. thrQ[k].n \in Nat /\ thrQ[k].n <= N
          BY <2>1, <4>1 DEF Addressed, Sendable, AnyCall, N
        <4> QED
          BY <2>3, <3>1, <4>1, <4>2
      <3>3. thrQ \in Seq(AnyCall)
        BY Placed
      <3> QED
        BY <3>2, <3>3
    <2>6. inst \in [Instances -> [actual : States, ptt : BOOLEAN, n : 0..N, said : States,
                                  finished : BOOLEAN]]
      <3>1. ASSUME NEW i \in Instances
            PROVE  inst[i] \in [actual : States, ptt : BOOLEAN, n : 0..N, said : States,
                                finished : BOOLEAN]
        <4>1. inst[i] \in AnyInstance /\ inst[i].n <= N
          BY <2>1, Placed DEF Known, Sound, N
        <4>2. inst[i].n \in 0..N
          BY <2>3, <4>1 DEF AnyInstance
        <4> QED
          BY <4>1, <4>2 DEF AnyInstance
      <3> QED
        BY <2>1, <3>1 DEF ThreadTypes
    <2> QED
      BY <2>1, <2>2, <2>4, <2>5, <2>6, Zenon
        DEF TypeOK, ConfTypes, MainTypes, ThreadTypes, RigTypes, CountTypes, Phases, Doings, N
  <1> QED
    BY Inductive, <1>1, PTL

\* A connection that Configuration has let go of has its stop on the way.
THEOREM NobodyForgotten == Spec => []NoOrphan
  <1>1. IInv => NoOrphan
    <2> SUFFICES ASSUME IInv, NEW i \in Online
                 PROVE  \/ rig_active /\ i = current
                        \/ \E k \in 1..Len(thrQ) : thrQ[k].to = i /\ thrQ[k].call = "stop"
      BY DEF NoOrphan
    <2>1. Released /\ Owning /\ i \in Instances /\ inst[i].actual.online
      BY DEF IInv, Control, Online
    <2>2. i <= current /\ ~inst[i].finished
      BY <2>1 DEF Owning
    <2>3. (rig_active /\ i = current) \/ Stopping(thrQ, i)
      BY <2>1, <2>2, Zenon DEF Released
    <2> QED
      BY <2>3 DEF Stopping, Members
  <1> QED
    BY Inductive, <1>1, PTL

\* An update that bears the last number tells the result of the last command.
THEOREM UpdatesFresh == Spec => []FreshUpdate
  <1>1. IInv => FreshUpdate
    <2> SUFFICES ASSUME IInv, NEW k \in 1..Len(guiQ), guiQ[k].kind = "update",
                        guiQ[k].n = transceiver_command_number, NEW q \in 1..Len(thrQ)
                 PROVE  thrQ[q].call = "stop"
      BY DEF FreshUpdate
    <2>1. Told /\ guiQ[k] \in Members(guiQ) /\ thrQ[q] \in Members(thrQ)
      BY DEF IInv, Members
    <2>2. Served(thrQ)
      BY <2>1, Zenon DEF Told, Truthful
    <2> QED
      BY <2>1, <2>2 DEF Served
  <1> QED
    BY Inductive, <1>1, PTL

\* A rig that no connection has is keyed only when a command to unkey it failed.
THEOREM KeyLetGo == Spec => []NoStuckKey
  <1>1. IInv => NoStuckKey
    BY DEF IInv, Control, Unkeyed, NoStuckKey, Online
  <1> QED
    BY Inductive, <1>1, PTL

-----------------------------------------------------------------------------
\* The connections share the rig as RigLink promises.

Retired == {i \in Instances : inst[i].finished}

\* Who has the rig keeps all others from it.
LEMMA SoleOwner ==
  ASSUME IInv, NEW i \in Instances, ~inst[i].finished, NEW j \in Online,
         \/ inst[i].actual.online
         \/ \A k \in Instances : k < i => inst[k].finished
  PROVE  j = i
  <1>1. Owning /\ j \in Instances /\ inst[j].actual.online
    BY DEF IInv, Control, Online
  <1>2. ~inst[j].finished /\ \A k \in Instances : k < j => inst[k].finished
    BY <1>1 DEF Owning
  <1>3. ~(i < j)
    BY <1>2
  <1>4. ~(j < i)
    BY <1>1, <1>2 DEF Owning
  <1> QED
    BY <1>1, <1>3, <1>4, Given

\* A call served: the instance takes the rig, uses it, or leaves it alone.
LEMMA CallLinks ==
  ASSUME IInv, NEW c, c = Head(thrQ), CallEnds(c)
  PROVE  Link!Next \/ UNCHANGED Link!linkVars
  <1>1. /\ thrQ # <<>> /\ rig'.ptt \in BOOLEAN
        /\ \E r : /\ Outcome(c, r)
                  /\ r.actual.online \/ (r.actual = inst[c.to].actual /\ rig' = rig)
    BY DEF CallEnds, RigTypes
  <1>2. PICK r : /\ Outcome(c, r)
                 /\ r.actual.online \/ (r.actual = inst[c.to].actual /\ rig' = rig)
    BY <1>1
  <1>3. PICK x \in AnyInstance :
          inst' = [inst EXCEPT ![c.to] = x] /\ x.actual = r.actual /\ ~x.finished
    BY <1>2 DEF Outcome
  <1>4. /\ c.to \in Instances /\ ~inst[c.to].finished
        /\ \A k \in Instances : k < c.to => inst[k].finished
        /\ inst \in [Instances -> AnyInstance]
    BY <1>1, HeadFacts DEF AnyCall, IInv, Types, ThreadTypes
  <1>5. inst'[c.to] = x /\ \A j \in Instances : j # c.to => inst'[j] = inst[j]
    BY <1>3, <1>4
  <1>6. Retired' = Retired
    BY <1>3, <1>4, <1>5 DEF Retired
  <1>7. CASE r.actual.online
    <2>1. Online' = Online \cup {c.to}
      BY <1>3, <1>4, <1>5, <1>7 DEF Online
    <2>2. CASE c.to \in Online
      BY <1>1, <1>6, <2>1, <2>2 DEF Link!Next, Link!Use, Retired
    <2>3. CASE c.to \notin Online
      <3>1. Online = {}
        BY <1>4, <2>3, SoleOwner
      <3>2. Link!Older(c.to) \subseteq Retired /\ c.to \notin Retired
        BY <1>4 DEF Link!Older, Retired
      <3>3. Link!Acquire(c.to)
        BY <1>1, <1>6, <2>1, <3>1, <3>2 DEF Link!Acquire, Retired
      <3> QED
        BY <1>4, <3>3 DEF Link!Next
    <2> QED
      BY <2>2, <2>3
  <1>8. CASE r.actual = inst[c.to].actual /\ rig' = rig
    <2>1. Online' = Online
      BY <1>3, <1>4, <1>5, <1>8 DEF Online
    <2> QED
      BY <1>6, <1>8, <2>1 DEF Link!linkVars, Retired
  <1> QED
    BY <1>2, <1>7, <1>8

\* A shutdown: the instance retires, lets go of the rig, or had nothing to let go of.
LEMMA ShutdownLinks ==
  ASSUME IInv, NEW i \in Instances, Shutdown(i), ~inst[i].finished
  PROVE  Link!Next \/ UNCHANGED Link!linkVars
  <1>1. PICK x \in AnyInstance :
          /\ inst' = [inst EXCEPT ![i] = x] /\ ~x.actual.online
          /\ (x.finished <=> pc.at = "idle")
    BY ShutdownFacts
  <1>2. inst \in [Instances -> AnyInstance] /\ rig \in [freq : Freqs, ptt : BOOLEAN]
    BY DEF IInv, Types, ThreadTypes, RigTypes
  <1>3. inst'[i] = x /\ \A j \in Instances : j # i => inst'[j] = inst[j]
    BY <1>1, <1>2
  <1>4. Online' = Online \ {i}
    BY <1>1, <1>3 DEF Online
  <1>5. rig'.ptt \in {FALSE, rig.ptt} /\ (~inst[i].actual.online => rig' = rig)
    BY <1>2 DEF Shutdown, TriesUnkey
  <1>6. CASE pc.at = "idle"
    <2>1. Retired' = Retired \cup {i} /\ i \notin Retired
      BY <1>1, <1>3, <1>6 DEF Retired
    <2>2. Link!Retire(i)
      BY <1>4, <1>5, <2>1 DEF Link!Retire, Retired
    <2> QED
      BY <2>2 DEF Link!Next
  <1>7. CASE pc.at # "idle"
    <2>1. Retired' = Retired
      BY <1>1, <1>3, <1>7 DEF Retired
    <2>2. CASE i \in Online
      <3>1. Online' = {}
        BY <1>4, <2>2, SoleOwner DEF Online
      <3>2. Link!Release(i)
        BY <1>5, <2>1, <2>2, <3>1 DEF Link!Release, Retired
      <3> QED
        BY <3>2 DEF Link!Next
    <2>3. CASE i \notin Online
      BY <1>4, <1>5, <2>1, <2>3 DEF Link!linkVars, Online, Retired
    <2> QED
      BY <2>2, <2>3
  <1> QED
    BY <1>6, <1>7

LEMMA NextLinks ==
  IInv /\ [Next]_vars => Link!Next \/ UNCHANGED Link!linkVars
  <1> SUFFICES ASSUME IInv, [Next]_vars PROVE Link!Next \/ UNCHANGED Link!linkVars
    OBVIOUS
  <1>1. ASSUME inst' = inst, rig'.ptt = rig.ptt PROVE UNCHANGED Link!linkVars
    BY <1>1 DEF Link!linkVars, Online
  <1>2. CASE UNCHANGED vars
    BY <1>1, <1>2 DEF vars, threadVars, rigVars
  <1>3. CASE GoOnline \/ Reconfigure \/ SetFrequency \/ SetPtt \/ CloseWindow \/ Quit \/ AnswerBox
    <2>1. UNCHANGED <<threadVars, rigVars>>
      BY <1>3 DEF GoOnline, Reconfigure, SetFrequency, SetPtt, CloseWindow, Quit, AnswerBox
    <2> QED
      BY <1>1, <2>1 DEF threadVars, rigVars
  <1>4. CASE HandleEvent
    <2>1. UNCHANGED <<threadVars, rigVars>>
      BY <1>4 DEF HandleEvent, HandleUpdate, HandleFailure, rigOpen
    <2> QED
      BY <1>1, <2>1 DEF threadVars, rigVars
  <1>5. CASE ServeStart \/ ServeSet
    BY <1>5, StartEnds, SetEnds, CallLinks
  <1>6. CASE ServeStop
    <2>1. thrQ # <<>> /\ Shutdown(Head(thrQ).to)
      BY <1>6 DEF ServeStop, Serving
    <2>2. Head(thrQ) \in AnyCall /\ ~inst[Head(thrQ).to].finished
      BY <2>1, HeadFacts
    <2>3. Head(thrQ).to \in Instances
      BY <2>2 DEF AnyCall
    <2> QED
      BY <2>1, <2>2, <2>3, ShutdownLinks
  <1>7. CASE CloseFailed
    <2>1. Shutdown(pc.i) /\ pc.at = "closing"
      BY <1>7 DEF CloseFailed
    <2>2. pc.i \in Instances /\ ~inst[pc.i].finished
      BY <2>1 DEF IInv, Control, Doing
    <2> QED
      BY <2>1, <2>2, ShutdownLinks
  <1>8. CASE PollChanged \/ PollConfirmed \/ PollSilent
    <2>1. PICK emits \in BOOLEAN :
            /\ pc.at = "polling"
            /\ inst' = [inst EXCEPT ![pc.i].actual = Polled(pc.i),
                                    ![pc.i].said = IF emits THEN Polled(pc.i) ELSE @]
            /\ UNCHANGED rigVars
      BY <1>8 DEF PollChanged, PollConfirmed, PollSilent, PollEnds
    <2>2. /\ pc.i \in Instances /\ inst[pc.i].actual.online
          /\ inst \in [Instances -> AnyInstance]
      BY <2>1 DEF IInv, Control, Doing, Types, ThreadTypes
    <2>3. \A j \in Instances : inst'[j].finished = inst[j].finished
      BY <2>1, <2>2 DEF AnyInstance
    <2>4. \A j \in Instances : inst'[j].actual.online <=> inst[j].actual.online
      BY <2>1, <2>2 DEF AnyInstance, Polled
    <2>5. Online' = Online /\ Retired' = Retired /\ rig' = rig
      BY <2>1, <2>3, <2>4 DEF Online, Retired, rigVars
    <2> QED
      BY <2>5 DEF Link!linkVars, Retired
  <1>9. CASE SignalFailure \/ PollFails \/ StartPoll \/ ThreadQuits \/ Turn
    <2>1. inst' = inst
      BY <1>9 DEF SignalFailure, PollFails, StartPoll, ThreadQuits, Turn, threadVars
    <2>2. rig'.ptt = rig.ptt
      <3>1. rig \in [freq : Freqs, ptt : BOOLEAN]
        BY DEF IInv, Types, RigTypes
      <3> QED
        BY <1>9, <3>1 DEF SignalFailure, PollFails, StartPoll, ThreadQuits, Turn, rigVars
    <2> QED
      BY <1>1, <2>1, <2>2
  <1> QED
    BY <1>2, <1>3, <1>4, <1>5, <1>6, <1>7, <1>8, <1>9 DEF Next, Serve, Poll

\* However opening, failing, stopping and quitting cross in transit, one connection
\* at a time has the rig, in the order in which they were opened, and only its
\* owner keys it.
THEOREM LinkRefined == Spec => LinkKept
  <1>1. Init => Link!Init
    <2> SUFFICES ASSUME Init PROVE Link!Init
      OBVIOUS
    <2>1. Online = {} /\ Retired = {} /\ rig.ptt = FALSE
      BY DEF Init, New, Blank, Online, Retired
    <2> QED
      BY <2>1 DEF Link!Init, Retired
  <1>2. IInv /\ [Next]_vars => [Link!Next]_(Link!linkVars)
    BY NextLinks
  <1> QED
    BY Inductive, <1>1, <1>2, PTL DEF Spec, LinkKept, Link!Spec
=============================================================================
