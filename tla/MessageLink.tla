---------------------------- MODULE MessageLink ----------------------------
(***************************************************************************)
(* The UDP link: MessageClient in the program, MessageServer in the two     *)
(* reference applications (UDPDaemon, MessageAggregator), and a network     *)
(* that keeps the order of what it does not lose.                           *)
(*                                                                          *)
(* One client, which may crash or close and start again, talks to the       *)
(* server that its settings name, after a look-up of the host.  The status  *)
(* is a number; decodes, cleared lists and logged contacts stand in the     *)
(* same queues and are left out.  Of what a server sends, Heartbeat and     *)
(* Replay are modelled: Reply, HaltTx and FreeText act on other parts of    *)
(* the program.                                                             *)
(***************************************************************************)
EXTENDS Integers, Sequences, FiniteSets

CONSTANTS
  Hosts, Ports,  \* what the settings may name
  FirstHost,     \* and the host they name at first
  ServerPort,    \* the port at which each host runs a server
  Schemas,       \* Builder::schema_number of the servers' builds
  Null,          \* no address
  NoMessage,     \* last_message_ when empty
  InOrder,       \* look-ups are answered in the order of the requests
  MaxStatus,     \* bound: status changes
  MaxFaults,     \* bound: new settings, failed look-ups, restarts, requests, losses in all
  MaxNet,        \* bound: datagrams on the way to a server
  LookupFails    \* a look-up may fail

SchemaNumber == 3   \* Builder::schema_number of the client

Servers == Hosts \X {ServerPort}
\* server |-> the schema number of its build, all to consider
Builds == [Servers -> Schemas]

\* The settings box allows no port 0, at which the client would be silent.
ASSUME LinkAssumption ==
  /\ FirstHost \in Hosts /\ Null \notin Hosts /\ "" \notin Hosts
  /\ ServerPort \in Ports /\ 0 \notin Ports
  /\ Null \notin Servers /\ Schemas \subseteq {2, 3}
  /\ MaxStatus \in Nat /\ MaxFaults \in Nat /\ MaxNet \in Nat \ {0}
  /\ InOrder \in BOOLEAN /\ LookupFails \in BOOLEAN

VARIABLES
  starts, alive,    \* incarnation of the client (its ephemeral port)
  status,           \* what the program has to tell
  name, port,       \* server_string_, server_port_
  server_, schema_, pending_messages_, last_message_,
  lookups,          \* look-ups on the way
  asking,           \* boxes of networkError that are open
  build,            \* server |-> Builder::schema_number of its build
  toServer,         \* server |-> datagrams on the way to it
  toClient,         \* datagrams on the way to a client
  clients_,         \* server |-> what it knows of the client
  shown,            \* server |-> the status its application shows
  beat,             \* server |-> a datagram came since its last tick but one
  told,             \* history: the last message handed to the client
  dropped,          \* history: it went with a failed look-up, or was forgotten
  returned,         \* history: moved to a server that knew the client already
  missed,           \* history: the last status, or the last request for one, was lost on the way
  taught,           \* history: incarnation |-> the server that raised its schema_
  faults

setVars == <<name, port, lookups, asking>>
clientVars == <<server_, schema_, pending_messages_, last_message_>>
netVars == <<toServer, toClient>>
serverVars == <<build, clients_, shown, beat>>
histVars == <<told, dropped, returned, missed, taught>>
vars == <<starts, alive, status, setVars, clientVars, netVars, serverVars, histVars,
          faults>>

Unknown == [known |-> FALSE, from |-> 0, schema |-> 2]
Msg(t, v, s) == [type |-> t, val |-> v, schema |-> s, from |-> starts]
Status(s) == Msg("Status", status, s)

\* MessageClient is constructed with the server's name, which starts a look-up, and
\* the first status is handed to it before any answer can come.
Starts(n) ==
  /\ starts' = n /\ alive' = TRUE
  /\ server_' = Null /\ schema_' = 2 /\ last_message_' = NoMessage
  /\ lookups' = <<name>> /\ asking' = 0
  /\ told' = [type |-> "Status", val |-> status, schema |-> 2, from |-> n]
  /\ pending_messages_' = <<told'>> /\ dropped' = FALSE /\ missed' = FALSE

Init ==
  /\ name = FirstHost /\ port = ServerPort
  /\ starts = 1 /\ alive = TRUE /\ status = 0
  /\ server_ = Null /\ schema_ = 2 /\ last_message_ = NoMessage
  /\ lookups = <<name>> /\ asking = 0 /\ told = Status(2) /\ pending_messages_ = <<told>>
  /\ build \in Builds
  /\ toServer = [s \in Servers |-> <<>>] /\ toClient = <<>>
  /\ clients_ = [s \in Servers |-> Unknown] /\ shown = [s \in Servers |-> Null]
  /\ beat = [s \in Servers |-> FALSE]
  /\ dropped = FALSE /\ returned = FALSE /\ missed = FALSE
  /\ taught = [n \in 1..(MaxFaults + 1) |-> Null]
  /\ faults = 0

-----------------------------------------------------------------------------
\* Datagrams

\* What is written to an address at which no server runs is gone.
Written(net, host, msgs) ==
  IF <<host, port>> \in Servers THEN [net EXCEPT ![<<host, port>>] = @ \o msgs] ELSE net

Heartbeat == Msg("Heartbeat", SchemaNumber, schema_)

\* The members of a finite set of numbers, in order.
InSequence(K) ==
  CHOOSE q \in [1..Cardinality(K) -> K] : \A a, b \in 1..Cardinality(K) : a < b => q[a] < q[b]

\* send_message for one message after the other: one that equals the last is
\* suppressed, and without an address they are kept.
News(last, msgs) ==
  {i \in 1..Len(msgs) : msgs[i] # IF i = 1 THEN last ELSE msgs[i - 1]}
Fresh(last, msgs) ==
  LET new == InSequence(News(last, msgs))
  IN  [k \in 1..Cardinality(News(last, msgs)) |-> msgs[new[k]]]

Last(seq, default) == IF seq = <<>> THEN default ELSE seq[Len(seq)]

Send(last, msgs) ==
  /\ told' = Last(msgs, told) /\ dropped' = (msgs = <<>> /\ (dropped \/ last # last_message_))
  /\ IF server_ # Null
     THEN /\ toServer' = Written(toServer, server_, Fresh(last, msgs))
          /\ last_message_' = Last(msgs, last) /\ UNCHANGED pending_messages_
          /\ missed' = (missed /\ Fresh(last, msgs) = <<>>)
     ELSE /\ pending_messages_' = pending_messages_ \o msgs
          /\ last_message_' = last /\ UNCHANGED <<toServer, missed>>

\* status_update does nothing without the name of a server.
Told(msgs) == IF name = "" THEN <<>> ELSE msgs

Room == \A s \in Servers : Len(toServer[s]) < MaxNet

Fault == faults < MaxFaults /\ faults' = faults + 1

-----------------------------------------------------------------------------
\* The program

\* Something that the status shows changes, or a handler reports it unchanged.
StatusChanged ==
  /\ alive /\ Room
  /\ status' \in status..MaxStatus /\ status' <= status + 1
  /\ status' = status => told # Status(schema_)
  /\ Send(last_message_, Told(<<[Status(schema_) EXCEPT !.val = status']>>))
  /\ UNCHANGED <<starts, alive, setVars, server_, schema_, toClient,
                 serverVars, returned, taught, faults>>

Knows(s) == s \in Servers /\ clients_[s].known

\* set_server: the address is forgotten, a look-up starts.
set_server(n) ==
  /\ server_' = Null /\ name' = n
  /\ lookups' = IF n = "" THEN lookups ELSE Append(lookups, n)

ChangeSettings ==
  /\ alive /\ asking = 0 /\ Fault
  /\ \E n \in Hosts \cup {""}, p \in Ports :
       /\ <<n, p>> # <<name, port>> /\ port' = p
       /\ IF n # name THEN set_server(n) /\ UNCHANGED returned
          ELSE /\ UNCHANGED <<name, server_, lookups>>
               /\ returned' = (returned \/ (server_ # Null /\ Knows(<<server_, p>>)))
  /\ UNCHANGED <<starts, alive, status, asking, schema_, pending_messages_, last_message_,
                 netVars, serverVars, told, dropped, missed, taught>>

\* The program ends: ~MessageClient sends Close.  A crash does not.
Ends(closed) ==
  /\ alive /\ alive' = FALSE /\ (closed => asking = 0)
  /\ toServer' = IF closed /\ server_ # Null
                 THEN Written(toServer, server_, <<Msg("Close", 0, schema_)>>) ELSE toServer
  /\ UNCHANGED <<starts, status, setVars, clientVars, toClient, serverVars, histVars,
                 faults>>

\* It is started again, with the same id, on another ephemeral port.
Restart ==
  /\ ~alive /\ Fault /\ name # "" /\ Starts(starts + 1)
  /\ returned' = FALSE
  /\ UNCHANGED <<status, name, port, netVars, serverVars, taught>>

-----------------------------------------------------------------------------
\* MessageClient

Without(seq, i) == SubSeq(seq, 1, i - 1) \o SubSeq(seq, i + 1, Len(seq))

Discarded == <<>>

\* host_info_results with an address: a heartbeat first, then the backlog.
Backlog_kept == <<>>
Backlog == Fresh(last_message_, pending_messages_)
Found(host) ==
  /\ server_' = host
  /\ toServer' = Written(toServer, host, <<Heartbeat>> \o Backlog)
  /\ last_message_' = Last(Backlog, last_message_)
  /\ pending_messages_' = <<>>
  /\ returned' = (returned \/ Knows(<<host, port>>)) /\ missed' = (missed /\ Backlog = <<>>)
  /\ UNCHANGED <<asking, faults>>

\* host_info_results with an error: networkError asks whether to try again, and the
\* program goes on behind its box.
NotFound ==
  /\ LookupFails /\ Fault /\ asking' = asking + 1
  /\ UNCHANGED <<server_, toServer, pending_messages_, last_message_, returned, missed>>

host_info_results ==
  /\ alive /\ Room
  /\ \E i \in 1..(IF InOrder /\ lookups # <<>> THEN 1 ELSE Len(lookups)) :
       /\ lookups' = Without(lookups, i)
       /\ Found(lookups[i]) \/ NotFound
  /\ UNCHANGED <<starts, alive, status, name, port, schema_, toClient, serverVars, told,
                 dropped, taught>>

\* The box is answered, with a retry perhaps.  Only now the backlog is discarded,
\* with what came to it in the meantime.
networkError ==
  /\ alive /\ asking > 0 /\ asking' = asking - 1
  /\ set_server(name) \/ UNCHANGED <<server_, lookups, name>>
  /\ pending_messages_' = Discarded /\ dropped' = (dropped \/ pending_messages_ # <<>>)
  /\ UNCHANGED <<starts, alive, status, port, schema_, last_message_, netVars, serverVars,
                 told, returned, missed, taught, faults>>

\* The timer of 15 s.  A heartbeat arrives before the next is sent.
HeartbeatTimer ==
  /\ alive /\ server_ # Null /\ Room
  /\ <<server_, port>> \in Servers =>
       \A i \in 1..Len(toServer[<<server_, port>>]) :
         toServer[<<server_, port>>][i].type # "Heartbeat"
  /\ toServer' = Written(toServer, server_, <<Heartbeat>>)
  /\ UNCHANGED <<starts, alive, status, setVars, clientVars, toClient, serverVars,
                 histVars, faults>>

\* parse_message.  Any message raises the schema; Replay makes the program send the
\* old decodes and the status.
Raised(n) == IF schema_ < n THEN n ELSE schema_
Replayed(s) == Told(<<Status(s)>>)
Cleared == NoMessage

ClientReads ==
  /\ toClient # <<>> /\ toClient' = Tail(toClient)
  /\ LET m == Head(toClient) IN
     IF ~alive \/ m.to # starts
     THEN UNCHANGED <<schema_, pending_messages_, last_message_, toServer, told, dropped, missed,
                      taught>>
     ELSE /\ schema_' = Raised(m.schema)
          /\ taught' = IF schema_' = schema_ THEN taught ELSE [taught EXCEPT ![starts] = m.by]
          /\ IF m.type = "Replay" THEN Send(Cleared, Replayed(schema_'))
             ELSE UNCHANGED <<pending_messages_, last_message_, toServer, told, dropped, missed>>
  /\ UNCHANGED <<starts, alive, status, setVars, server_, serverVars, returned, faults>>

-----------------------------------------------------------------------------
\* MessageServer and the application that shows its clients

Least(a, b) == IF a < b THEN a ELSE b
Negotiated_raw(s, m) == IF m.type = "Heartbeat" THEN m.val ELSE 2
Negotiated(s, m) == IF m.type = "Heartbeat" THEN Least(build[s], m.val) ELSE 2

\* A first message opens the client: the answer to a heartbeat tells the schema,
\* and add_client asks for a replay.
Opening_silent(s, m) == <<>>
Opening(s, m) ==
  LET reply(t) == [type |-> t, by |-> s, to |-> m.from, schema |-> Negotiated(s, m)] IN
  (IF m.type = "Heartbeat" THEN <<reply("Heartbeat")>> ELSE <<>>) \o <<reply("Replay")>>

\* parse_message.  A schema that the build does not know is not read at all.
ServerReads(s) ==
  /\ toServer[s] # <<>> /\ Len(toClient) < MaxNet
  /\ LET m == Head(toServer[s])
         client == IF clients_[s].known THEN clients_[s]
                   ELSE [known |-> TRUE, from |-> m.from, schema |-> Negotiated(s, m)] IN
     /\ toServer' = [toServer EXCEPT ![s] = Tail(@)]
     /\ IF m.schema > build[s] THEN UNCHANGED <<toClient, serverVars>>
        ELSE /\ toClient' = IF clients_[s].known THEN toClient ELSE toClient \o Opening(s, m)
             /\ beat' = [beat EXCEPT ![s] = m.type # "Close"]
             /\ clients_' = [clients_ EXCEPT ![s] = IF m.type = "Close" THEN Unknown ELSE client]
             /\ shown' = [shown EXCEPT ![s] =
                  CASE m.type = "Status" -> m.val [] m.type = "Close" -> Null [] OTHER -> @]
  /\ UNCHANGED <<starts, alive, status, setVars, clientVars, build, histVars, faults>>

\* The timer of 15 s: a client that was silent since the last tick is removed.
Silent(s) == clients_[s].known /\ ~beat[s]
ServerTick(s) ==
  /\ clients_' = [clients_ EXCEPT ![s] = IF Silent(s) THEN Unknown ELSE @]
  /\ shown' = [shown EXCEPT ![s] = IF Silent(s) THEN Null ELSE @]
  /\ beat' = [beat EXCEPT ![s] = FALSE]
  /\ UNCHANGED <<starts, alive, status, setVars, clientVars, netVars, build, histVars,
                 faults>>

ServerRestarts(s) ==
  /\ Fault
  /\ clients_' = [clients_ EXCEPT ![s] = Unknown] /\ shown' = [shown EXCEPT ![s] = Null]
  /\ beat' = [beat EXCEPT ![s] = FALSE] /\ toServer' = [toServer EXCEPT ![s] = <<>>]
  /\ UNCHANGED <<starts, alive, status, setVars, clientVars, toClient, build,
                 histVars>>

\* The application asks something of a client: to send its decodes once more, or what does not
\* concern the link (Reply, HaltTx, FreeText).
Requests(s) ==
  /\ Fault /\ clients_[s].known /\ Len(toClient) < MaxNet
  /\ \E t \in {"Replay", "HaltTx"} :
       toClient' = Append(toClient, [type |-> t, by |-> s, to |-> clients_[s].from,
                                     schema |-> clients_[s].schema])
  /\ UNCHANGED <<starts, alive, status, setVars, clientVars, toServer, serverVars, histVars>>

\* No status follows in a queue.
Unsaid(queue) == \A i \in 1..Len(queue) : queue[i].type # "Status"

\* Any datagram may be lost.
Lose ==
  /\ Fault
  /\ \/ \E s \in Servers :
          /\ toServer[s] # <<>> /\ toServer' = [toServer EXCEPT ![s] = Tail(@)] /\ UNCHANGED toClient
          /\ missed' = (missed \/ (Head(toServer[s]).type = "Status" /\ Unsaid(Tail(toServer[s]))))
     \/ /\ toClient # <<>> /\ toClient' = Tail(toClient) /\ UNCHANGED toServer
        /\ missed' = (missed \/ Head(toClient).type = "Replay")
  /\ UNCHANGED <<starts, alive, status, setVars, clientVars, serverVars, told, dropped, returned,
                 taught>>

Next ==
  \/ StatusChanged \/ ChangeSettings \/ (\E c \in BOOLEAN : Ends(c)) \/ Restart
  \/ host_info_results \/ networkError \/ HeartbeatTimer \/ ClientReads \/ Lose
  \/ \E s \in Servers : ServerReads(s) \/ ServerTick(s) \/ ServerRestarts(s) \/ Requests(s)

\* Look-ups are answered, timers run, datagrams arrive or are lost.
Fairness ==
  /\ WF_vars(host_info_results) /\ WF_vars(HeartbeatTimer) /\ WF_vars(ClientReads)
  /\ \A s \in Servers : WF_vars(ServerReads(s)) /\ WF_vars(ServerTick(s))

Spec == Init /\ [][Next]_vars /\ Fairness

-----------------------------------------------------------------------------
Messages == [type : {"Heartbeat", "Status", "Close"}, val : 0..(MaxStatus + 3),
             schema : 2..3, from : 1..(MaxFaults + 1)]

TypeOK ==
  /\ starts \in 1..(MaxFaults + 1) /\ alive \in BOOLEAN /\ status \in 0..MaxStatus
  /\ name \in Hosts \cup {""} /\ port \in Ports
  /\ lookups \in Seq(Hosts) /\ server_ \in Hosts \cup {Null} /\ schema_ \in 2..3
  /\ pending_messages_ \in Seq(Messages) /\ last_message_ \in Messages \cup {NoMessage}
  /\ toServer \in [Servers -> Seq(Messages)]
  /\ toClient \in Seq([type : {"Heartbeat", "Replay", "HaltTx"}, by : Servers,
                       to : 1..(MaxFaults + 1), schema : 2..3])
  /\ clients_ \in [Servers -> [known : BOOLEAN, from : 0..(MaxFaults + 1), schema : 2..3]]
  /\ shown \in [Servers -> (0..MaxStatus) \cup {Null}] /\ beat \in [Servers -> BOOLEAN]
  /\ build \in Builds /\ told \in Messages /\ {dropped, returned, missed} \subseteq BOOLEAN
  /\ taught \in [1..(MaxFaults + 1) -> Servers \cup {Null}]
  /\ asking \in 0..MaxFaults /\ faults \in 0..MaxFaults

\* The last message the program handed over was the last to be sent, or is the last
\* of the backlog, or went with a failed look-up: nothing is left behind or
\* overtaken between the backlog, the duplicates suppressed and a replay.
LastKept ==
  alive => dropped \/ Last(pending_messages_, last_message_) = told

\* Both sides keep to what was negotiated, with servers of different builds too: a server
\* is sent what it cannot read only by a client that another server taught the schema
\* (schema_ is recorded once, not per server).
SchemaKept ==
  \A s \in Servers : \A i \in 1..Len(toServer[s]) :
    LET m == toServer[s][i]
    IN  m.schema <= build[s] \/ taught[m.from] \notin {Null, s}

\* Not so in the code (the schema is "server's negotiated schema"): no server is sent what
\* it cannot read.
SchemaOfServer ==
  \A s \in Servers : \A i \in 1..Len(toServer[s]) : toServer[s][i].schema <= build[s]

\* The server that the client talks to.
Peer(s) == alive /\ name # "" /\ server_ # Null /\ s = <<server_, port>>

\* Nothing is in the way of a status: it was not dropped by the client (dropped, returned),
\* the last one was not lost (missed), and the server can read it.
Clear(s) == ~returned /\ ~dropped /\ ~missed /\ schema_ <= build[s]

\* Again and again the server shows the client's status, though it or the client may
\* have been started after the other, heartbeats, answers and earlier statuses were lost and
\* the client was taken for dead: the replay that it then asks for is not suppressed as a
\* duplicate.  Not so when the very last status or the last request for it is lost, or when
\* the schema is another server's.
StatusShown == \A s \in Servers : []<>(Peer(s) /\ Clear(s) => shown[s] = status)

\* Not so in the code: a lost status is not sent again, for its repetition is suppressed.
StatusShownAlways ==
  \A s \in Servers : []<>(Peer(s) /\ ~returned /\ ~dropped => shown[s] = status)

\* A client that has gone, or has moved to another server, is removed, also if its
\* Close is lost or a datagram comes in after it.
ClientRemoved == \A s \in Servers : []<>(clients_[s].known => alive /\ s = <<server_, port>>)

\* What the server shows follows the client, while it lives and when it has gone.
ServerAgrees == StatusShown /\ ClientRemoved

\* Not so in the code.  Datagrams go to the host that the settings name: set_server
\* leaves an earlier look-up alone, and whichever is answered last decides.
AddressOfSettings == alive /\ server_ # Null => server_ = name

\* Not so in the code.  The backlog is there to "hold messages sent before host lookup
\* completes": it also fills when no look-up is under way.
HeldForLookup ==
  alive /\ lookups = <<>> /\ asking = 0 => pending_messages_ = <<>>
=============================================================================
