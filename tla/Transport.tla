----------------------------- MODULE Transport ------------------------------
(***************************************************************************)
(* What is under the protocol: the addresses and sockets of Nodes, and the   *)
(* bytes that travel between them, on hosts of different platforms.          *)
(*                                                                          *)
(* A round of the worker is any of its steps, an entry may time out and a    *)
(* message be repeated whenever they exist, and the numbers in a header are  *)
(* chosen freely: how the peer table and the window decide on these is the   *)
(* subject of Node and Connection.                                          *)
(***************************************************************************)
EXTENDS Pack

CONSTANTS
    Nodes,
    Hosts,         \* the address of each host
    INADDR_ANY,    \* 0.0.0.0
    LOOPBACK,      \* 127.0.0.1
    Names,         \* what the application calls hosts
    Lookup,        \* what inet_addr or else gethostbyname makes of a name
    ListenPorts,   \* the ports that listen and connect name
    Calls,         \* what the application of each node may ask of it
    MaxAsked,      \* bound: how often it asks
    MaxPeers,      \* bound: how many ids each node hands out
    Platforms,
    Layout,        \* the sizes of each platform, see Pack
    Deployments,   \* the ways to place the nodes on hosts and platforms
    Schema,        \* the types of the values of each message, by its id
    KEEP_ALIVE,    \* the id of a keep alive
    Windows,       \* the numbers a header may carry: seqnum, lack and ack_field
    id,            \* the protocol id of all nodes
    RECV_SIZE,     \* UdpSocket::RECV_SIZE
    MaxDatagram,   \* what sendto accepts
    MaxLength,     \* what the memory for a std::string and a std::vector allows
    Junk           \* what an uninitialized variable may hold

ASSUME TransportAssumption ==
    /\ {INADDR_ANY, LOOPBACK} \cap Hosts = {}
    /\ INADDR_ANY # LOOPBACK
    /\ Lookup \in [Names -> Hosts \cup {LOOPBACK}]
    /\ Deployments \subseteq [Nodes -> [host : Hosts, platform : Platforms]]
    /\ MaxAsked \in [Nodes -> Nat] /\ MaxPeers \in [Nodes -> Nat]
    /\ Layout \in [Platforms -> Platform]
    /\ \A m \in DOMAIN Schema : Schema[m] \in Seq(Type)
    /\ KEEP_ALIVE \notin DOMAIN Schema
    /\ MaxLength \in [{"string", "vector"} -> Nat]
    /\ {RECV_SIZE, MaxDatagram} \cup Junk \subseteq Nat

VARIABLES
    host,          \* where each node runs
    platform,
    port,          \* of the socket; NoPort until it is bound
    next_peer_id,
    peers,         \* a function from the ids in use to addresses
    tasks,         \* queued to the worker
    network,       \* datagrams in flight
    failed,        \* why the process has ended
    asked,         \* history: what the application has asked, in order
    lost,          \* history: the addresses of entries that have timed out
    strangers,     \* history: the addresses of entries handle_incoming has made
    called         \* the last call of a handler, with the datagram that caused it

nodeVars    == <<port, next_peer_id, peers, tasks, failed>>
historyVars == <<asked, lost, strangers>>
vars        == <<host, platform, nodeVars, network, historyVars, called>>

NoPort == "none"
NoCall == [msg |-> KEEP_ALIVE]

\* The port the system picks for a socket that sends without being bound.
Ephemeral(n) == n

\* A port that the system picks is not one that an application names.
Ports   == ListenPorts \cup Nodes
Address == [host : Hosts \cup {INADDR_ANY, LOOPBACK}, port : Ports]

\* An application asks to listen on a port, to connect to a host, or to send.
Ask == UNION {Calls[n] : n \in Nodes}

ASSUME CallsAssumption ==
    /\ NoPort \notin Ports
    /\ ListenPorts \cap Nodes = {}
    /\ \A c \in Ask : \/ c \in [op : {"listen"}, port : ListenPorts]
                     \/ c \in [op : {"connect"}, name : Names \cup {""}, port : ListenPorts]
                     \/ (c.op = "send" /\ c.msg \in DOMAIN Schema)

TypeOK ==
    /\ host \in [Nodes -> Hosts] /\ platform \in [Nodes -> Platforms]
    /\ port \in [Nodes -> Ports \cup {NoPort}]
    /\ next_peer_id \in [Nodes -> Nat]
    /\ \A n \in Nodes : /\ DOMAIN peers[n] \subseteq 0 .. (next_peer_id[n] - 1)
                        /\ \A p \in DOMAIN peers[n] : peers[n][p] \in Address
                        /\ lost[n] \cup strangers[n] \subseteq Address
                        /\ Len(tasks[n]) <= Len(asked[n]) /\ Len(asked[n]) <= MaxAsked[n]
                        /\ \A i \in 1 .. Len(asked[n]) : asked[n][i] \in Ask
    /\ failed \in [Nodes -> {"no", "bind", "send", "unpack"}]
    /\ \A d \in network : d.to \in Nodes /\ d.from \in Address /\ d.data \in Seq(Byte)

Init ==
    /\ \E d \in Deployments : /\ host = [n \in Nodes |-> d[n].host]
                             /\ platform = [n \in Nodes |-> d[n].platform]
    /\ port = [n \in Nodes |-> NoPort]
    /\ next_peer_id = [n \in Nodes |-> 0]
    /\ peers = [n \in Nodes |-> << >>]
    /\ tasks = [n \in Nodes |-> << >>]
    /\ network = {}
    /\ failed = [n \in Nodes |-> "no"]
    /\ asked = [n \in Nodes |-> << >>]
    /\ lost = [n \in Nodes |-> {}]
    /\ strangers = [n \in Nodes |-> {}]
    /\ called = [n \in Nodes |-> NoCall]

-----------------------------------------------------------------------------
(***************************************************************************)
(* IpAddress.  The empty name is INADDR_ANY; a name that neither inet_addr   *)
(* nor gethostbyname knows throws in the application, before it connects.   *)
(***************************************************************************)
Resolve(name) == IF name = "" THEN INADDR_ANY ELSE Lookup[name]

IpAddress(name, to) == [host |-> Resolve(name), port |-> to]

\* Variant: the port of one side is left in network order.
Equal_NetworkOrder(a, b) == a.host = b.host /\ <<a.port>> = b.port

\* operator ==
Equal(a, b) == a.host = b.host /\ a.port = b.port

\* Null addresses and the loopback never leave the host.
Local(address) == address.host \in {INADDR_ANY, LOOPBACK}

\* The nodes a datagram of n to an address gets to.
Targets(n, address) ==
    {k \in Nodes : /\ port[k] = address.port
                   /\ host[k] = IF Local(address) THEN host[n] ELSE address.host}

\* The address that recvfrom reports of n when it sends from a port.
Source(n, address, from) ==
    [host |-> IF Local(address) THEN LOOPBACK ELSE host[n], port |-> from]

-----------------------------------------------------------------------------
\* Variant: the id is handed out and not counted.
NextId_Kept(p) == p

\* next_peer_id++
NextId(p) == p + 1

\* The application.  A closure with an address carries the address.
Task(n, c) ==
    CASE c.op = "listen"  -> c
      [] c.op = "connect" -> [op |-> "connect", peer |-> next_peer_id[n],
                              address |-> IpAddress(c.name, c.port)]
      [] c.op = "send"    -> c

AppAsks(n, c) ==
    /\ c \in Calls[n]
    /\ failed[n] = "no"
    /\ Len(asked[n]) < MaxAsked[n]
    /\ asked' = [asked EXCEPT ![n] = Append(@, c)]
    /\ UNCHANGED <<host, platform, port, network, failed, lost, strangers, called>>

\* Node::listen
Listen(n, c) ==
    /\ c.op = "listen"
    /\ AppAsks(n, c)
    /\ tasks' = [tasks EXCEPT ![n] = Append(@, Task(n, c))]
    /\ UNCHANGED <<next_peer_id, peers>>

\* Variant: the entry is made at once, on the thread of the application.
Connect_AtOnce(n, c) ==
    /\ c.op = "connect"
    /\ next_peer_id[n] < MaxPeers[n]
    /\ AppAsks(n, c)
    /\ next_peer_id' = [next_peer_id EXCEPT ![n] = NextId(@)]
    /\ peers' = [peers EXCEPT ![n] = [q \in DOMAIN @ \cup {next_peer_id[n]} |->
           IF q = next_peer_id[n] THEN IpAddress(c.name, c.port) ELSE @[q]]]
    /\ UNCHANGED tasks

\* The constructor of IpAddress, then Node::connect.
Connect(n, c) ==
    /\ c.op = "connect"
    /\ next_peer_id[n] < MaxPeers[n]
    /\ AppAsks(n, c)
    /\ next_peer_id' = [next_peer_id EXCEPT ![n] = NextId(@)]
    /\ tasks' = [tasks EXCEPT ![n] = Append(@, Task(n, c))]
    /\ UNCHANGED peers

\* Node::send to a peer whose id the application can have.
Send(n, c) ==
    /\ c.op = "send"
    /\ c.peer < next_peer_id[n]
    /\ AppAsks(n, c)
    /\ tasks' = [tasks EXCEPT ![n] = Append(@, Task(n, c))]
    /\ UNCHANGED <<next_peer_id, peers>>

-----------------------------------------------------------------------------
Running(n) == failed[n] = "no"

\* The worker runs the closure t, which its queue begins with.
Dequeue(n, t) ==
    /\ Running(n)
    /\ tasks[n] # << >>
    /\ t = Head(tasks[n])
    /\ tasks' = [tasks EXCEPT ![n] = Tail(@)]

(***************************************************************************)
(* UdpSocket::bind.  A socket that has a port, by an earlier bind or because *)
(* it has sent, cannot be bound, nor can two of a host have the same port:   *)
(* the exception ends the worker and the process.                           *)
(***************************************************************************)
RunBind(n, t) ==
    LET taken == \E k \in Nodes : host[k] = host[n] /\ port[k] = t.port
    IN  /\ t.op = "listen"
        /\ Dequeue(n, t)
        /\ IF port[n] # NoPort \/ taken
           THEN failed' = [failed EXCEPT ![n] = "bind"] /\ UNCHANGED port
           ELSE port' = [port EXCEPT ![n] = t.port] /\ UNCHANGED failed
        /\ UNCHANGED <<host, platform, next_peer_id, peers, network, historyVars, called>>

RunConnect(n, t) ==
    /\ t.op = "connect"
    /\ Dequeue(n, t)
    /\ peers' = [peers EXCEPT ![n] = [q \in DOMAIN @ \cup {t.peer} |->
                                          IF q = t.peer THEN t.address ELSE @[q]]]
    /\ UNCHANGED <<host, platform, port, next_peer_id, network, failed, historyVars, called>>

\* The five unsigned ints of a header: id, seqnum, message id, lack, ack_field.
HeaderTypes == [i \in 1 .. 5 |-> Plain("unsigned int")]
Header(m, w) == <<id, w.seq, m, w.lack, w.acks>>

(***************************************************************************)
(* An unsigned int has the same size everywhere, it holds every number of a  *)
(* header, and five of them fit into the buffer.                            *)
(***************************************************************************)
ASSUME HeaderAssumption ==
    \A p, q \in Platforms :
        LET uint == Layout[p].sizeof["unsigned int"]
        IN  /\ uint = Layout[q].sizeof["unsigned int"]
            /\ 5 * uint <= RECV_SIZE
            /\ \A m \in DOMAIN Schema \cup {KEEP_ALIVE}, w \in Windows :
                   FitsTuple(Layout[p], HeaderTypes, Header(m, w))

\* A string or a vector among the values of a message is too long to be made.
TooLong(m, vs) ==
    \E i \in 1 .. Len(vs) : /\ Schema[m][i].kind \in {"string", "vector"}
                            /\ Len(vs[i]) > MaxLength[Schema[m][i].kind]

(***************************************************************************)
(* The values an application sends are of the types of the message, on the   *)
(* platform it runs on, and none is longer than memory allows.              *)
(***************************************************************************)
ASSUME ValuesAssumption ==
    \A d \in Deployments, n \in Nodes : \A c \in Calls[n] : c.op = "send" =>
        /\ FitsTuple(Layout[d[n].platform], Schema[c.msg], c.values)
        /\ ~TooLong(c.msg, c.values)

\* The payload that do_send makes of a header and the packed values.
Payload(n, m, vs, w) ==
    PackTuple(Layout[platform[n]], HeaderTypes, Header(m, w)) \o
    PackTuple(Layout[platform[n]], IF m = KEEP_ALIVE THEN << >> ELSE Schema[m], vs)

(***************************************************************************)
(* UdpSocket::send of what has gone, or goes, to the entry p.  The socket    *)
(* does not block: sendto may fail for reasons of the system's own (no room, *)
(* no route), and does for a payload that is too large; then the exception   *)
(* ends the worker and the process.  A datagram may be lost; a socket that   *)
(* has no port gets one.                                                    *)
(***************************************************************************)
SocketSend(n, p, m, vs) ==
    \E w \in Windows :
        LET data    == Payload(n, m, vs, w)
            address == peers[n][p]
            from    == IF port[n] = NoPort THEN Ephemeral(n) ELSE port[n]
            sent    == {[to |-> k, from |-> Source(n, address, from), data |-> data,
                         cause |-> [node |-> n, msg |-> m, values |-> vs, window |-> w]] :
                        k \in Targets(n, address)}
        IN  /\ p \in DOMAIN peers[n]
            /\ \/ failed' = [failed EXCEPT ![n] = "send"] /\ UNCHANGED <<port, network>>
               \/ /\ Len(data) <= MaxDatagram
                  /\ port' = [port EXCEPT ![n] = from]
                  /\ \E kept \in SUBSET sent : network' = network \cup kept
                  /\ UNCHANGED failed
            /\ UNCHANGED <<host, platform, next_peer_id, peers, historyVars, called>>

\* do_send of a task: nothing is sent to an entry that has timed out meanwhile.
RunSend(n, t) ==
    /\ t.op = "send"
    /\ Dequeue(n, t)
    /\ \/ SocketSend(n, t.peer, t.msg, t.values)
       \/ /\ t.peer \notin DOMAIN peers[n]
          /\ UNCHANGED <<host, platform, port, next_peer_id, peers, network, failed,
                         historyVars, called>>

\* keep_alive of the entry p.
KeepAlive(n, p) ==
    /\ Running(n)
    /\ SocketSend(n, p, KEEP_ALIVE, << >>)
    /\ UNCHANGED tasks

\* What the worker has run of what was asked.
Done(n) == Len(asked[n]) - Len(tasks[n])

\* resend_reliable of a message that do_send has sent to an entry it still has.
Resend(n, i) ==
    /\ Running(n)
    /\ i <= Done(n)
    /\ asked[n][i].op = "send"
    /\ SocketSend(n, asked[n][i].peer, asked[n][i].msg, asked[n][i].values)
    /\ UNCHANGED tasks

\* timeout of the entry p.
Timeout(n, p) ==
    /\ Running(n)
    /\ p \in DOMAIN peers[n]
    /\ peers' = [peers EXCEPT ![n] = [q \in DOMAIN @ \ {p} |-> @[q]]]
    /\ lost' = [lost EXCEPT ![n] = @ \cup {peers[n][p]}]
    /\ UNCHANGED <<host, platform, port, next_peer_id, tasks, network, failed, asked,
                   strangers, called>>

-----------------------------------------------------------------------------
Found(n, address) == {p \in DOMAIN peers[n] : Equal(peers[n][p], address)}

\* recive: what does not fit into the buffer is cut off.
Received(d) == SubSeq(d.data, 1, IF Len(d.data) > RECV_SIZE THEN RECV_SIZE ELSE Len(d.data))

(***************************************************************************)
(* handle_incoming of d.  Whether it is taken for a duplicate is left open.  *)
(* A string or vector of a misread length that cannot be made ends the       *)
(* process; what the handler was to be called with is recorded all the same. *)
(***************************************************************************)
HandleIncoming(n, d, recived) ==
    LET header  == UnpackTuple(Layout[platform[n]], HeaderTypes, Stream(Received(d)), 0)
        known   == Found(n, d.from)
        p       == IF known # {} THEN CHOOSE q \in known : \A r \in known : q <= r
                   ELSE next_peer_id[n]
        msg     == header.values[3]
        handled == ~recived /\ msg # KEEP_ALIVE /\ msg \in DOMAIN Schema
    IN  /\ Running(n)
        /\ d \in network
        /\ d.to = n
        /\ header.values[1] = id
        /\ IF known # {} THEN UNCHANGED <<next_peer_id, peers, strangers>>
           ELSE /\ next_peer_id[n] < MaxPeers[n]
                /\ next_peer_id' = [next_peer_id EXCEPT ![n] = NextId(@)]
                /\ peers' = [peers EXCEPT ![n] = [q \in DOMAIN @ \cup {p} |->
                                                      IF q = p THEN d.from ELSE @[q]]]
                /\ strangers' = [strangers EXCEPT ![n] = @ \cup {d.from}]
        /\ IF ~handled THEN UNCHANGED <<failed, called>>
           ELSE \E junk \in Junk :
                  LET got == UnpackTuple(Layout[platform[n]], Schema[msg], header.stream, junk).values
                  IN  /\ failed' = IF TooLong(msg, got) THEN [failed EXCEPT ![n] = "unpack"]
                                   ELSE failed
                      /\ called' = [called EXCEPT ![n] =
                             [peer |-> p, msg |-> msg, cause |-> d.cause,
                              values |-> IF TooLong(msg, got) THEN << >> ELSE got]]
        /\ UNCHANGED <<host, platform, port, tasks, network, asked, lost>>

Step(n) ==
    \/ \E c \in Calls[n] : Listen(n, c) \/ Connect(n, c) \/ Send(n, c)
    \/ tasks[n] # << >> /\ \/ RunBind(n, Head(tasks[n]))
                           \/ RunConnect(n, Head(tasks[n]))
                           \/ RunSend(n, Head(tasks[n]))
    \/ \E p \in DOMAIN peers[n] : KeepAlive(n, p) \/ Timeout(n, p)
    \/ \E i \in 1 .. Len(asked[n]) : Resend(n, i)
    \/ \E d \in network : \E recived \in BOOLEAN : HandleIncoming(n, d, recived)

Next == \E n \in Nodes : Step(n)

Spec == Init /\ [][Next]_vars

-----------------------------------------------------------------------------
Asked(n, op) == {i \in 1 .. Len(asked[n]) : asked[n][i].op = op}

\* The fundamental types whose layout matters to a value of a type.
Uses(pl, type) ==
    CASE type.kind = "plain"  -> {type.of}
      [] type.kind = "string" -> {"unsigned int"}
      [] type.kind = "vector" -> {type.of, pl.size_t}

\* Two platforms lay out the values of a message in the same way.
SameLayout(a, b, m) ==
    \A i \in 1 .. Len(Schema[m]) :
        LET type == Schema[m][i]
        IN  /\ \A t \in Uses(a, type) \cap Uses(b, type) : a.sizeof[t] = b.sizeof[t]
            /\ type.kind = "vector" => a.sizeof[a.size_t] = b.sizeof[b.size_t]

\* A message arrives whole.
Whole(cause) ==
    Len(Payload(cause.node, cause.msg, cause.values, cause.window)) <= RECV_SIZE

(***************************************************************************)
(* A handler is called with the values that were sent, unless the sizes of a *)
(* type of this very message differ between the two platforms, or the        *)
(* datagram is larger than the receive buffer; its kind is always right.    *)
(***************************************************************************)
FaithfulValues ==
    \A n \in Nodes : called[n] # NoCall =>
        LET cause == called[n].cause
        IN  /\ called[n].msg = cause.msg
            /\ (/\ SameLayout(Layout[platform[n]], Layout[platform[cause.node]], cause.msg)
                /\ Whole(cause)) => called[n].values = cause.values

(***************************************************************************)
(* bind ends a process only after a listen or connect that was asked earlier *)
(* than this listen, or because another node of the host listens.           *)
(***************************************************************************)
BindExplained ==
    \A n \in Nodes : failed[n] = "bind" =>
        \/ \E i \in Asked(n, "listen") : \E j \in Asked(n, "connect") \cup
               Asked(n, "listen") : j < i
        \/ \E k \in Nodes \ {n} : host[k] = host[n] /\ Asked(k, "listen") # {}

(***************************************************************************)
(* A string or vector that cannot be made ends a process only if the very    *)
(* datagram it is read from was cut off by the receive buffer, or its sender *)
(* lays out the message otherwise.                                          *)
(***************************************************************************)
UnpackExplained ==
    \A n \in Nodes : failed[n] = "unpack" =>
        LET cause == called[n].cause
        IN  \/ ~SameLayout(Layout[platform[n]], Layout[platform[cause.node]], cause.msg)
            \/ ~Whole(cause)

(***************************************************************************)
(* A node that only connects gets its answers from the entries it asked for. *)
(* handle_incoming makes another entry only of an address whose entry has    *)
(* timed out, or when a host was named by the empty string: its answers come *)
(* from the loopback, which is not the address that was connected to.       *)
(***************************************************************************)
AnswersMatched ==
    \A n \in Nodes : Asked(n, "listen") = {} =>
        \A a \in strangers[n] :
            \/ a \in lost[n]
            \/ \E i \in Asked(n, "connect") : /\ asked[n][i].name = ""
                                              /\ a = [host |-> LOOPBACK, port |-> asked[n][i].port]
=============================================================================
