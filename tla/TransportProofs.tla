--------------------------- MODULE TransportProofs ---------------------------
(***************************************************************************)
(* Theorems about Transport, for every set of hosts, names, nodes and        *)
(* platforms, every message and every bound.                                *)
(***************************************************************************)
EXTENDS Transport, PackProofs

\* Only the empty name stands for INADDR_ANY.
LEMMA ResolveType ==
    ASSUME NEW name \in Names \cup {""}
    PROVE  /\ Resolve(name) \in Hosts \cup {INADDR_ANY, LOOPBACK}
           /\ Resolve(name) = INADDR_ANY => name = ""
<1>1. CASE name = ""
  BY <1>1 DEF Resolve
<1>2. CASE name # ""
  <2>1. Lookup[name] \in Hosts \cup {LOOPBACK}
    BY <1>2, TransportAssumption
  <2>2. QED
    BY <1>2, <2>1, TransportAssumption DEF Resolve
<1>3. QED
  BY <1>1, <1>2

\* What an application asks for.
LEMMA AskType ==
    ASSUME NEW n \in Nodes, NEW c \in Calls[n]
    PROVE  /\ c \in Ask
           /\ c.op \in {"listen", "connect", "send"}
           /\ c.op = "listen" => c.port \in ListenPorts
           /\ c.op = "connect" => /\ c.name \in Names \cup {""}
                                  /\ c.port \in ListenPorts
                                  /\ IpAddress(c.name, c.port) \in Address
<1>1. c \in Ask
  BY DEF Ask
<1>2. \/ c \in [op : {"listen"}, port : ListenPorts]
      \/ c \in [op : {"connect"}, name : Names \cup {""}, port : ListenPorts]
      \/ c.op = "send" /\ c.msg \in DOMAIN Schema
  BY <1>1, CallsAssumption
<1>3. /\ c.op \in {"listen", "connect", "send"}
      /\ c.op = "listen" => c.port \in ListenPorts
      /\ c.op = "connect" => c.name \in Names \cup {""} /\ c.port \in ListenPorts
  BY <1>2
<1>4. ASSUME c.op = "connect" PROVE IpAddress(c.name, c.port) \in Address
  BY <1>3, <1>4, ResolveType DEF IpAddress, Address, Ports
<1>5. QED
  BY <1>1, <1>3, <1>4

-----------------------------------------------------------------------------
(***************************************************************************)
(* The types of the state, without the bytes of a datagram.                 *)
(***************************************************************************)
Queued == {c \in Ask : c.op # "connect"} \cup [op : {"connect"}, peer : Nat, address : Address]

ShapeOK ==
    /\ host \in [Nodes -> Hosts] /\ platform \in [Nodes -> Platforms]
    /\ port \in [Nodes -> Ports \cup {NoPort}]
    /\ next_peer_id \in [Nodes -> Nat]
    /\ DOMAIN peers = Nodes
    /\ \A n \in Nodes : /\ DOMAIN peers[n] \subseteq 0 .. (next_peer_id[n] - 1)
                        /\ \A p \in DOMAIN peers[n] : peers[n][p] \in Address
                        /\ Len(tasks[n]) <= Len(asked[n]) /\ Len(asked[n]) <= MaxAsked[n]
    /\ lost \in [Nodes -> SUBSET Address] /\ strangers \in [Nodes -> SUBSET Address]
    /\ tasks \in [Nodes -> Seq(Queued)]
    /\ asked \in [Nodes -> Seq(Ask)]
    /\ failed \in [Nodes -> {"no", "bind", "send", "unpack"}]
    /\ \A d \in network : d.to \in Nodes /\ d.from \in Address /\ d.cause.node \in Nodes

(***************************************************************************)
(* What each kind of step does, at the node that takes it.                  *)
(***************************************************************************)
Asks(n, c) ==
    /\ c \in Calls[n]
    /\ Task(n, c) \in Queued
    /\ tasks'[n] = Append(tasks[n], Task(n, c))
    /\ asked'[n] = Append(asked[n], c)
    /\ Len(asked[n]) < MaxAsked[n]
    /\ next_peer_id'[n] = IF c.op = "connect" THEN next_peer_id[n] + 1 ELSE next_peer_id[n]
    /\ UNCHANGED <<port, peers, network, failed, lost, strangers>>

Dequeues(n) == tasks[n] # << >> /\ tasks'[n] = Tail(tasks[n]) /\ UNCHANGED asked

Binds(n, t) ==
    /\ Dequeues(n) /\ t = Head(tasks[n]) /\ t.op = "listen"
    /\ \/ /\ \/ port[n] # NoPort
             \/ \E k \in Nodes : host[k] = host[n] /\ port[k] = t.port
          /\ failed'[n] = "bind"
          /\ UNCHANGED port
       \/ /\ port[n] = NoPort
          /\ port'[n] = t.port
          /\ UNCHANGED failed
    /\ UNCHANGED <<next_peer_id, peers, network, lost, strangers>>

Makes(n, t) ==
    /\ Dequeues(n) /\ t = Head(tasks[n]) /\ t.op = "connect"
    /\ DOMAIN peers'[n] = DOMAIN peers[n] \cup {t.peer}
    /\ peers'[n][t.peer] = t.address
    /\ \A q \in DOMAIN peers[n] : q # t.peer => peers'[n][q] = peers[n][q]
    /\ UNCHANGED <<port, next_peer_id, network, failed, lost, strangers>>

Transmits(n, p) ==
    LET from == IF port[n] = NoPort THEN Ephemeral(n) ELSE port[n]
    IN  /\ p \in DOMAIN peers[n]
        /\ \/ /\ failed'[n] = "send"
              /\ UNCHANGED <<port, network>>
           \/ /\ port'[n] = from
              /\ network \subseteq network'
              /\ \A d \in network' \ network :
                     /\ d.to \in Targets(n, peers[n][p])
                     /\ d.from = Source(n, peers[n][p], from)
                     /\ d.cause.node = n
              /\ UNCHANGED failed
        /\ UNCHANGED <<next_peer_id, peers, asked, lost, strangers>>

\* The task is to send to an entry that is gone.
Drops(n) ==
    /\ Dequeues(n)
    /\ UNCHANGED <<port, next_peer_id, peers, network, failed, lost, strangers>>

Expires(n, p) ==
    /\ p \in DOMAIN peers[n]
    /\ DOMAIN peers'[n] = DOMAIN peers[n] \ {p}
    /\ \A q \in DOMAIN peers'[n] : peers'[n][q] = peers[n][q]
    /\ lost'[n] = lost[n] \cup {peers[n][p]}
    /\ UNCHANGED <<port, next_peer_id, tasks, network, failed, asked, strangers>>

Hears(n, d) ==
    /\ d \in network
    /\ d.to = n
    /\ \/ UNCHANGED <<next_peer_id, peers, strangers>>
       \/ /\ Found(n, d.from) = {}
          /\ next_peer_id'[n] = next_peer_id[n] + 1
          /\ DOMAIN peers'[n] = DOMAIN peers[n] \cup {next_peer_id[n]}
          /\ peers'[n][next_peer_id[n]] = d.from
          /\ \A q \in DOMAIN peers[n] : q # next_peer_id[n] => peers'[n][q] = peers[n][q]
          /\ strangers'[n] = strangers[n] \cup {d.from}
    /\ UNCHANGED failed \/ failed'[n] = "unpack"
    /\ UNCHANGED <<port, tasks, network, asked, lost>>

\* The other nodes are left alone, and no node moves.
Alone(n) ==
    /\ UNCHANGED <<host, platform>>
    /\ \A k \in Nodes \ {n} : UNCHANGED <<port[k], next_peer_id[k], peers[k], tasks[k],
                                          failed[k], asked[k], lost[k], strangers[k]>>

\* The application asks.
LEMMA AsksStep ==
    ASSUME ShapeOK, NEW n \in Nodes, NEW c \in Calls[n], Listen(n, c) \/ Connect(n, c) \/ Send(n, c)
    PROVE  /\ Asks(n, c) /\ Alone(n)
           /\ tasks' \in [Nodes -> Seq(Queued)] /\ asked' \in [Nodes -> Seq(Ask)]
           /\ next_peer_id' \in [Nodes -> Nat]
<1>1. /\ c \in Ask
      /\ c.op \in {"listen", "connect", "send"}
      /\ c.op = "connect" => IpAddress(c.name, c.port) \in Address
  BY AskType
<1>2. Task(n, c) \in Queued
  <2>1. CASE c.op = "connect"
    BY <1>1, <2>1 DEF Task, Queued, ShapeOK
  <2>2. CASE c.op # "connect"
    BY <1>1, <2>2 DEF Task, Queued
  <2>3. QED
    BY <2>1, <2>2
<1>3. /\ tasks' = [tasks EXCEPT ![n] = Append(@, Task(n, c))]
      /\ AppAsks(n, c)
  BY DEF Listen, Connect, Send
<1>4. next_peer_id' = IF c.op = "connect" THEN [next_peer_id EXCEPT ![n] = @ + 1] ELSE next_peer_id
  BY DEF Listen, Connect, Send, NextId
<1>5. peers' = peers
  BY DEF Listen, Connect, Send
<1>6. tasks' \in [Nodes -> Seq(Queued)] /\ asked' \in [Nodes -> Seq(Ask)]
  BY <1>1, <1>2, <1>3 DEF AppAsks, ShapeOK
<1>7. next_peer_id' \in [Nodes -> Nat]
  BY <1>4 DEF ShapeOK
<1>8. Asks(n, c)
  BY <1>2, <1>3, <1>4, <1>5 DEF Asks, AppAsks, ShapeOK
<1>9. Alone(n)
  BY <1>3, <1>4, <1>5 DEF Alone, AppAsks, ShapeOK
<1>10. QED
  BY <1>6, <1>7, <1>8, <1>9

\* The worker takes a task from its queue.
LEMMA DequeuesStep ==
    ASSUME ShapeOK, NEW n \in Nodes, NEW t, Dequeue(n, t), UNCHANGED asked
    PROVE  /\ Dequeues(n) /\ t = Head(tasks[n]) /\ t \in Queued
           /\ tasks' \in [Nodes -> Seq(Queued)]
           /\ \A k \in Nodes \ {n} : tasks'[k] = tasks[k]
<1>1. tasks[n] \in Seq(Queued) /\ tasks[n] # << >>
  BY DEF Dequeue, ShapeOK
<1>2. Head(tasks[n]) \in Queued /\ Tail(tasks[n]) \in Seq(Queued)
  BY <1>1
<1>3. QED
  BY <1>1, <1>2 DEF Dequeue, Dequeues, ShapeOK

LEMMA BindsStep ==
    ASSUME ShapeOK, NEW n \in Nodes, NEW t, RunBind(n, t)
    PROVE  /\ Binds(n, t) /\ Alone(n) /\ tasks' \in [Nodes -> Seq(Queued)]
           /\ port' \in [Nodes -> Ports \cup {NoPort}]
           /\ failed' \in [Nodes -> {"no", "bind", "send", "unpack"}]
<1>1. /\ Dequeues(n) /\ t = Head(tasks[n]) /\ t \in Queued /\ t.op = "listen"
      /\ tasks' \in [Nodes -> Seq(Queued)]
      /\ \A k \in Nodes \ {n} : tasks'[k] = tasks[k]
  BY DequeuesStep DEF RunBind, historyVars
<1>2. t.port \in Ports
  <2>1. t \in Ask
    BY <1>1 DEF Queued
  <2>2. QED
    BY <1>1, <2>1, AskType, ZenonT(60) DEF Ask, Ports
<1>3. Binds(n, t)
  BY <1>1 DEF RunBind, Binds, ShapeOK, historyVars
<1>4. Alone(n)
  BY <1>1 DEF RunBind, Alone, ShapeOK, historyVars
<1>5. QED
  BY <1>1, <1>2, <1>3, <1>4 DEF RunBind, ShapeOK

LEMMA MakesStep ==
    ASSUME ShapeOK, NEW n \in Nodes, NEW t, RunConnect(n, t)
    PROVE  /\ Makes(n, t) /\ Alone(n) /\ tasks' \in [Nodes -> Seq(Queued)]
           /\ DOMAIN peers' = Nodes
           /\ t.peer \in Nat /\ t.address \in Address
<1>1. /\ Dequeues(n) /\ t = Head(tasks[n]) /\ t \in Queued /\ t.op = "connect"
      /\ tasks' \in [Nodes -> Seq(Queued)]
      /\ \A k \in Nodes \ {n} : tasks'[k] = tasks[k]
  BY DequeuesStep DEF RunConnect, historyVars
<1>2. t.peer \in Nat /\ t.address \in Address
  BY <1>1 DEF Queued
<1>3. peers'[n] = [q \in DOMAIN peers[n] \cup {t.peer} |->
                       IF q = t.peer THEN t.address ELSE peers[n][q]]
  BY DEF RunConnect, ShapeOK
<1>4. Makes(n, t)
  BY <1>1, <1>3 DEF RunConnect, Makes, historyVars
<1>5. Alone(n) /\ DOMAIN peers' = Nodes
  BY <1>1 DEF RunConnect, Alone, ShapeOK, historyVars
<1>6. QED
  BY <1>1, <1>2, <1>4, <1>5

LEMMA TransmitsStep ==
    ASSUME ShapeOK, NEW n \in Nodes, NEW p, NEW m, NEW vs, SocketSend(n, p, m, vs)
    PROVE  /\ Transmits(n, p)
           /\ UNCHANGED <<host, platform>>
           /\ \A k \in Nodes \ {n} : UNCHANGED <<port[k], failed[k]>>
           /\ port' \in [Nodes -> Ports \cup {NoPort}]
           /\ failed' \in [Nodes -> {"no", "bind", "send", "unpack"}]
           /\ \A d \in network' : d \in network \/ d.to \in Nodes
<1> DEFINE from == IF port[n] = NoPort THEN Ephemeral(n) ELSE port[n]
<1>1. from \in Ports
  BY DEF Ephemeral, ShapeOK, Ports
<1>2. PICK w \in Windows :
        LET data    == Payload(n, m, vs, w)
            address == peers[n][p]
            sent    == {[to |-> k, from |-> Source(n, address, from), data |-> data,
                         cause |-> [node |-> n, msg |-> m, values |-> vs, window |-> w]] :
                        k \in Targets(n, address)}
        IN  /\ p \in DOMAIN peers[n]
            /\ \/ failed' = [failed EXCEPT ![n] = "send"] /\ UNCHANGED <<port, network>>
               \/ /\ Len(data) <= MaxDatagram
                  /\ port' = [port EXCEPT ![n] = from]
                  /\ \E kept \in SUBSET sent : network' = network \cup kept
                  /\ UNCHANGED failed
            /\ UNCHANGED <<host, platform, next_peer_id, peers, historyVars, called>>
  BY DEF SocketSend
<1> DEFINE data == Payload(n, m, vs, w)
           sent == {[to |-> k, from |-> Source(n, peers[n][p], from), data |-> data,
                     cause |-> [node |-> n, msg |-> m, values |-> vs, window |-> w]] :
                    k \in Targets(n, peers[n][p])}
<1>3. /\ p \in DOMAIN peers[n]
      /\ UNCHANGED <<host, platform, next_peer_id, peers, asked, lost, strangers>>
  BY <1>2 DEF historyVars
<1>4. CASE failed' = [failed EXCEPT ![n] = "send"] /\ UNCHANGED <<port, network>>
  <2>1. failed'[n] = "send"
    BY <1>4 DEF ShapeOK
  <2>2. QED
    BY <1>3, <1>4, <2>1 DEF Transmits, ShapeOK
<1>5. CASE /\ port' = [port EXCEPT ![n] = from]
           /\ \E kept \in SUBSET sent : network' = network \cup kept
           /\ UNCHANGED failed
  <2>1. PICK kept \in SUBSET sent : network' = network \cup kept
    BY <1>5
  <2>2. \A d \in sent : /\ d.to \in Targets(n, peers[n][p])
                        /\ d.from = Source(n, peers[n][p], from)
                        /\ d.cause.node = n
    OBVIOUS
  <2>3. Targets(n, peers[n][p]) \subseteq Nodes
    BY DEF Targets
  <2>4. port'[n] = from /\ port' \in [Nodes -> Ports \cup {NoPort}]
    BY <1>1, <1>5 DEF ShapeOK
  <2> HIDE DEF sent, from
  <2>5. \A d \in network' \ network : /\ d.to \in Targets(n, peers[n][p])
                                      /\ d.from = Source(n, peers[n][p], from)
                                      /\ d.cause.node = n
    BY <2>1, <2>2
  <2>6. network \subseteq network'
    BY <2>1
  <2>7. Transmits(n, p)
    BY <1>3, <1>5, <2>4, <2>5, <2>6 DEF Transmits, from
  <2>8. QED
    BY <1>3, <1>5, <2>3, <2>4, <2>5, <2>7 DEF ShapeOK
<1>6. QED
  BY <1>2, <1>4, <1>5

LEMMA HearsStep ==
    ASSUME ShapeOK, NEW n \in Nodes, NEW d \in network, NEW recived, HandleIncoming(n, d, recived)
    PROVE  /\ Hears(n, d) /\ Alone(n) /\ d.from \in Address /\ DOMAIN peers' = Nodes
           /\ next_peer_id' \in [Nodes -> Nat]
           /\ strangers' \in [Nodes -> SUBSET Address]
           /\ failed' \in [Nodes -> {"no", "bind", "send", "unpack"}]
<1> DEFINE known == Found(n, d.from)
           p     == IF known # {} THEN CHOOSE q \in known : \A r \in known : q <= r
                    ELSE next_peer_id[n]
<1>1. /\ d.to = n
      /\ IF known # {} THEN UNCHANGED <<next_peer_id, peers, strangers>>
         ELSE /\ next_peer_id' = [next_peer_id EXCEPT ![n] = NextId(@)]
              /\ peers' = [peers EXCEPT ![n] = [q \in DOMAIN @ \cup {p} |->
                                                    IF q = p THEN d.from ELSE @[q]]]
              /\ strangers' = [strangers EXCEPT ![n] = @ \cup {d.from}]
      /\ UNCHANGED <<host, platform, port, tasks, network, asked, lost>>
  BY DEF HandleIncoming
<1>2. failed' = failed \/ failed' = [failed EXCEPT ![n] = "unpack"]
  BY DEF HandleIncoming
<1>a. /\ UNCHANGED failed \/ failed'[n] = "unpack"
      /\ failed' \in [Nodes -> {"no", "bind", "send", "unpack"}]
      /\ \A k \in Nodes \ {n} : failed'[k] = failed[k]
      /\ d.from \in Address
  BY <1>2 DEF ShapeOK
<1>3. CASE known # {}
  <2>1. UNCHANGED <<next_peer_id, peers, strangers>>
    BY <1>1, <1>3
  <2>2. Hears(n, d)
    BY <1>1, <1>a, <2>1 DEF Hears
  <2>3. Alone(n)
    BY <1>1, <1>a, <2>1 DEF Alone
  <2>4. QED
    BY <1>a, <2>1, <2>2, <2>3 DEF ShapeOK
<1>4. CASE known = {}
  <2>1. p = next_peer_id[n]
    BY <1>4
  <2> HIDE DEF p, known
  <2>2. /\ next_peer_id' = [next_peer_id EXCEPT ![n] = @ + 1]
        /\ strangers' = [strangers EXCEPT ![n] = @ \cup {d.from}]
    BY <1>1, <1>4 DEF NextId
  <2>3. peers'[n] = [q \in DOMAIN peers[n] \cup {p} |-> IF q = p THEN d.from ELSE peers[n][q]]
    BY <1>1, <1>4 DEF ShapeOK
  <2>4. /\ DOMAIN peers'[n] = DOMAIN peers[n] \cup {p}
        /\ peers'[n][p] = d.from
        /\ \A q \in DOMAIN peers[n] : q # p => peers'[n][q] = peers[n][q]
    BY <2>3
  <2>5. Hears(n, d)
    <3>1. /\ next_peer_id'[n] = next_peer_id[n] + 1
          /\ strangers'[n] = strangers[n] \cup {d.from}
      BY <2>2 DEF ShapeOK
    <3>2. QED
      BY <1>1, <1>4, <1>a, <2>1, <2>4, <3>1 DEF Hears, known
  <2>6. /\ DOMAIN peers' = Nodes
        /\ \A k \in Nodes \ {n} : peers'[k] = peers[k]
    BY <1>1, <1>4 DEF ShapeOK
  <2>7. Alone(n)
    BY <1>1, <1>a, <2>2, <2>6 DEF ShapeOK, Alone
  <2>8. QED
    BY <1>a, <2>2, <2>5, <2>6, <2>7 DEF ShapeOK
<1>5. QED
  BY <1>3, <1>4

(***************************************************************************)
(* The closure of send, a keep alive and a message that is repeated are one  *)
(* transmission each.                                                       *)
(***************************************************************************)
Says(n) ==
    /\ \/ Dequeues(n) /\ Head(tasks[n]).op = "send"
       \/ tasks'[n] = tasks[n]
    /\ \E p : Transmits(n, p)

LEMMA SaysStep ==
    ASSUME ShapeOK, NEW n \in Nodes, NEW p, NEW m, NEW vs, SocketSend(n, p, m, vs),
           \/ UNCHANGED tasks
           \/ \E t : Dequeue(n, t) /\ t.op = "send"
    PROVE  /\ Says(n) /\ Alone(n) /\ tasks' \in [Nodes -> Seq(Queued)]
           /\ port' \in [Nodes -> Ports \cup {NoPort}]
           /\ failed' \in [Nodes -> {"no", "bind", "send", "unpack"}]
           /\ UNCHANGED <<next_peer_id, peers, asked, lost, strangers>>
<1>1. /\ Transmits(n, p)
      /\ UNCHANGED <<host, platform>>
      /\ \A k \in Nodes \ {n} : UNCHANGED <<port[k], failed[k]>>
      /\ port' \in [Nodes -> Ports \cup {NoPort}]
      /\ failed' \in [Nodes -> {"no", "bind", "send", "unpack"}]
  BY TransmitsStep
<1>2. UNCHANGED <<next_peer_id, peers, asked, lost, strangers>>
  BY <1>1 DEF Transmits
<1>3. /\ (Dequeues(n) /\ Head(tasks[n]).op = "send") \/ tasks'[n] = tasks[n]
      /\ tasks' \in [Nodes -> Seq(Queued)]
      /\ \A k \in Nodes \ {n} : tasks'[k] = tasks[k]
  <2>1. CASE UNCHANGED tasks
    BY <2>1 DEF ShapeOK
  <2>2. CASE \E t : Dequeue(n, t) /\ t.op = "send"
    BY <1>2, <2>2, DequeuesStep
  <2>3. QED
    BY <2>1, <2>2
<1>4. Says(n) /\ Alone(n)
  BY <1>1, <1>2, <1>3 DEF Says, Alone
<1>5. QED
  BY <1>1, <1>2, <1>3, <1>4

\* A task to send whose entry is gone.
LEMMA DropsStep ==
    ASSUME ShapeOK, NEW n \in Nodes, NEW t, Dequeue(n, t),
           UNCHANGED <<host, platform, port, next_peer_id, peers, network, failed, historyVars>>
    PROVE  Drops(n) /\ Alone(n) /\ tasks' \in [Nodes -> Seq(Queued)]
<1>1. UNCHANGED <<asked, lost, strangers>>
  BY DEF historyVars
<1>2. /\ Dequeues(n) /\ tasks' \in [Nodes -> Seq(Queued)]
      /\ \A k \in Nodes \ {n} : tasks'[k] = tasks[k]
  BY <1>1, DequeuesStep
<1>3. QED
  BY <1>1, <1>2 DEF Drops, Alone

LEMMA ExpiresStep ==
    ASSUME ShapeOK, NEW n \in Nodes, NEW p, Timeout(n, p)
    PROVE  /\ Expires(n, p) /\ Alone(n) /\ DOMAIN peers' = Nodes
           /\ lost' \in [Nodes -> SUBSET Address]
<1>1. /\ p \in DOMAIN peers[n] /\ peers[n][p] \in Address
      /\ peers'[n] = [q \in DOMAIN peers[n] \ {p} |-> peers[n][q]]
      /\ DOMAIN peers' = Nodes
      /\ \A k \in Nodes \ {n} : peers'[k] = peers[k]
  BY DEF Timeout, ShapeOK
<1>2. /\ DOMAIN peers'[n] = DOMAIN peers[n] \ {p}
      /\ \A q \in DOMAIN peers'[n] : peers'[n][q] = peers[n][q]
  BY <1>1
<1>3. /\ lost'[n] = lost[n] \cup {peers[n][p]}
      /\ \A k \in Nodes \ {n} : lost'[k] = lost[k]
      /\ lost' \in [Nodes -> SUBSET Address]
  BY <1>1 DEF Timeout, ShapeOK
<1>4. Expires(n, p)
  BY <1>1, <1>2, <1>3 DEF Timeout, Expires
<1>5. Alone(n)
  BY <1>1, <1>3 DEF Timeout, Alone
<1>6. QED
  BY <1>1, <1>3, <1>4, <1>5

\* Every step is of one of these kinds.
LEMMA StepKinds ==
    ASSUME ShapeOK, NEW n \in Nodes, Step(n)
    PROVE  /\ Alone(n)
           /\ \/ \E c : Asks(n, c)
              \/ \E t : Binds(n, t)
              \/ \E t : Makes(n, t) /\ t.peer \in Nat /\ t.address \in Address
              \/ Says(n)
              \/ Drops(n)
              \/ \E p : Expires(n, p)
              \/ \E d : Hears(n, d) /\ d.from \in Address
           /\ port' \in [Nodes -> Ports \cup {NoPort}]
           /\ next_peer_id' \in [Nodes -> Nat]
           /\ DOMAIN peers' = Nodes
           /\ lost' \in [Nodes -> SUBSET Address]
           /\ strangers' \in [Nodes -> SUBSET Address]
           /\ tasks' \in [Nodes -> Seq(Queued)]
           /\ asked' \in [Nodes -> Seq(Ask)]
           /\ failed' \in [Nodes -> {"no", "bind", "send", "unpack"}]
<1>0. /\ port \in [Nodes -> Ports \cup {NoPort}]
      /\ next_peer_id \in [Nodes -> Nat]
      /\ DOMAIN peers = Nodes
      /\ lost \in [Nodes -> SUBSET Address]
      /\ strangers \in [Nodes -> SUBSET Address]
      /\ tasks \in [Nodes -> Seq(Queued)]
      /\ asked \in [Nodes -> Seq(Ask)]
      /\ failed \in [Nodes -> {"no", "bind", "send", "unpack"}]
  BY DEF ShapeOK
<1>1. CASE \E c \in Calls[n] : Listen(n, c) \/ Connect(n, c) \/ Send(n, c)
  <2>1. PICK c \in Calls[n] : Listen(n, c) \/ Connect(n, c) \/ Send(n, c)
    BY <1>1
  <2>2. /\ Asks(n, c) /\ Alone(n)
        /\ tasks' \in [Nodes -> Seq(Queued)] /\ asked' \in [Nodes -> Seq(Ask)]
        /\ next_peer_id' \in [Nodes -> Nat]
    BY <2>1, AsksStep
  <2>3. UNCHANGED <<port, peers, failed, lost, strangers>>
    BY <2>2 DEF Asks
  <2>4. QED
    BY <1>0, <2>2, <2>3
<1>2. CASE RunBind(n, Head(tasks[n]))
  <2>1. UNCHANGED <<next_peer_id, peers, lost, strangers, asked>>
    BY <1>2 DEF RunBind, historyVars
  <2>2. QED
    BY <1>0, <1>2, <2>1, BindsStep
<1>3. CASE RunConnect(n, Head(tasks[n]))
  <2>1. UNCHANGED <<port, next_peer_id, failed, lost, strangers, asked>>
    BY <1>3 DEF RunConnect, historyVars
  <2>2. QED
    BY <1>0, <1>3, <2>1, MakesStep
<1>4. CASE RunSend(n, Head(tasks[n]))
  <2>1. PICK t : Dequeue(n, t) /\ t.op = "send" /\ RunSend(n, t)
    BY <1>4 DEF RunSend
  <2>2. CASE SocketSend(n, t.peer, t.msg, t.values)
    BY <1>0, <2>1, <2>2, SaysStep
  <2>3. CASE UNCHANGED <<host, platform, port, next_peer_id, peers, network, failed, historyVars>>
    <3>1. Drops(n) /\ Alone(n) /\ tasks' \in [Nodes -> Seq(Queued)]
      BY <2>1, <2>3, DropsStep
    <3>2. UNCHANGED <<port, next_peer_id, peers, failed, asked, lost, strangers>>
      BY <2>3 DEF historyVars
    <3>3. QED
      BY <1>0, <3>1, <3>2
  <2>4. QED
    BY <2>1, <2>2, <2>3 DEF RunSend
<1>5. CASE (\E p : KeepAlive(n, p)) \/ (\E i : Resend(n, i))
  <2>1. UNCHANGED tasks /\ \E p, m, vs : SocketSend(n, p, m, vs)
    BY <1>5 DEF KeepAlive, Resend
  <2>2. QED
    BY <1>0, <2>1, SaysStep
<1>6. CASE \E p : Timeout(n, p)
  <2>1. PICK p : Timeout(n, p)
    BY <1>6
  <2>2. UNCHANGED <<port, next_peer_id, tasks, failed, asked, strangers>>
    BY <2>1 DEF Timeout
  <2>3. QED
    BY <1>0, <2>1, <2>2, ExpiresStep
<1>7. CASE \E d \in network : \E recived \in BOOLEAN : HandleIncoming(n, d, recived)
  <2>1. PICK d \in network, recived \in BOOLEAN : HandleIncoming(n, d, recived)
    BY <1>7
  <2>2. UNCHANGED <<port, tasks, asked, lost>>
    BY <2>1 DEF HandleIncoming
  <2>3. QED
    BY <1>0, <2>1, <2>2, HearsStep
<1>8. QED
  BY <1>1, <1>2, <1>3, <1>4, <1>5, <1>6, <1>7 DEF Step

-----------------------------------------------------------------------------
(***************************************************************************)
(* The queue of a worker holds what its application has asked for last, in    *)
(* order; Done counts what the worker has run.  An id that waits in a task    *)
(* to connect is not in the table yet and waits in no other task.           *)
(***************************************************************************)
QueuedAs(n, t, c) ==
    IF c.op = "connect"
    THEN /\ t.op = "connect"
         /\ t.address = IpAddress(c.name, c.port)
         /\ t.peer < next_peer_id[n]
         /\ t.peer \notin DOMAIN peers[n]
    ELSE t = c

QueueOK(n) ==
    /\ \A i \in 1 .. Len(tasks[n]) : QueuedAs(n, tasks[n][i], asked[n][Done(n) + i])
    /\ \A i, j \in 1 .. Len(tasks[n]) :
           (i # j /\ tasks[n][i].op = "connect" /\ tasks[n][j].op = "connect") =>
               tasks[n][i].peer # tasks[n][j].peer

LEMMA Lengths ==
    ASSUME ShapeOK, NEW n \in Nodes
    PROVE  /\ Len(tasks[n]) \in Nat /\ Len(asked[n]) \in Nat /\ Done(n) \in Nat
           /\ Done(n) + Len(tasks[n]) = Len(asked[n])
           /\ \A i \in 1 .. Len(tasks[n]) : /\ tasks[n][i] \in Queued
                                            /\ Done(n) + i \in 1 .. Len(asked[n])
           /\ \A i \in 1 .. Len(asked[n]) : asked[n][i] \in Ask
<1> DEFINE a == Len(tasks[n])
           b == Len(asked[n])
<1>1. a \in Nat /\ b \in Nat /\ a <= b
  BY DEF ShapeOK
<1>2. /\ \A i \in 1 .. a : tasks[n][i] \in Queued
      /\ \A i \in 1 .. b : asked[n][i] \in Ask
  BY DEF ShapeOK
<1>3. Done(n) = b - a
  BY DEF Done
<1> HIDE DEF a, b
<1>4. Done(n) \in Nat /\ Done(n) + a = b /\ \A i \in 1 .. a : Done(n) + i \in 1 .. b
  BY <1>1, <1>3
<1>5. QED
  BY <1>1, <1>2, <1>4 DEF a, b

\* The queue and the count after the worker has taken a task.
LEMMA Taken ==
    ASSUME ShapeOK, NEW n \in Nodes, Dequeues(n)
    PROVE  /\ 1 \in 1 .. Len(tasks[n])
           /\ Head(tasks[n]) = tasks[n][1]
           /\ Len(tasks'[n]) \in Nat
           /\ Len(tasks'[n]) <= Len(tasks[n])
           /\ Done(n)' = Done(n) + 1
           /\ \A i \in 1 .. Len(tasks'[n]) : /\ i + 1 \in 1 .. Len(tasks[n])
                                             /\ tasks'[n][i] = tasks[n][i + 1]
<1>1. tasks[n] \in Seq(Queued) /\ tasks[n] # << >> /\ tasks'[n] = Tail(tasks[n]) /\ asked'[n] = asked[n]
  BY DEF Dequeues, ShapeOK
<1> DEFINE a == Len(tasks[n])
           b == Len(asked[n])
           x == Len(tasks'[n])
<1>2. /\ a \in Nat \ {0}
      /\ x = a - 1
      /\ \A i \in 1 .. x : tasks'[n][i] = tasks[n][i + 1]
      /\ Head(tasks[n]) = tasks[n][1]
  BY <1>1
<1>3. Done(n) = b - a /\ Done(n)' = b - x /\ b \in Nat
  BY <1>1, Lengths DEF Done
<1> HIDE DEF a, b, x
<1>4. /\ 1 \in 1 .. a
      /\ x \in Nat /\ x <= a
      /\ Done(n)' = Done(n) + 1
      /\ \A i \in 1 .. x : i + 1 \in 1 .. a
  BY <1>2, <1>3
<1>5. QED
  BY <1>2, <1>4 DEF a, x

\* The queue and the count after the application has asked.
LEMMA Added ==
    ASSUME ShapeOK, NEW n \in Nodes, NEW c, Asks(n, c)
    PROVE  /\ Len(tasks'[n]) = Len(tasks[n]) + 1
           /\ Len(asked'[n]) = Len(asked[n]) + 1
           /\ Done(n)' = Done(n)
           /\ \A i \in 1 .. Len(tasks[n]) : tasks'[n][i] = tasks[n][i]
           /\ \A i \in 1 .. Len(asked[n]) : asked'[n][i] = asked[n][i]
           /\ tasks'[n][Len(tasks[n]) + 1] = Task(n, c)
           /\ asked'[n][Len(asked[n]) + 1] = c
<1>1. tasks[n] \in Seq(Queued) /\ asked[n] \in Seq(Ask)
  BY DEF ShapeOK
<1>2. /\ tasks'[n] = Append(tasks[n], Task(n, c))
      /\ asked'[n] = Append(asked[n], c)
      /\ Task(n, c) \in Queued /\ c \in Ask
  BY AskType DEF Asks
<1>3. /\ Len(tasks'[n]) = Len(tasks[n]) + 1
      /\ \A i \in 1 .. Len(tasks[n]) : tasks'[n][i] = tasks[n][i]
      /\ tasks'[n][Len(tasks[n]) + 1] = Task(n, c)
  BY <1>1, <1>2
<1>4. /\ Len(asked'[n]) = Len(asked[n]) + 1
      /\ \A i \in 1 .. Len(asked[n]) : asked'[n][i] = asked[n][i]
      /\ asked'[n][Len(asked[n]) + 1] = c
  BY <1>1, <1>2
<1>5. Done(n)' = Done(n)
  <2> DEFINE a == Len(tasks[n])
             b == Len(asked[n])
  <2>1. a \in Nat /\ b \in Nat
    BY Lengths
  <2>2. Done(n) = b - a /\ Done(n)' = (b + 1) - (a + 1)
    BY <1>3, <1>4 DEF Done
  <2> HIDE DEF a, b
  <2>3. QED
    BY <2>1, <2>2
<1>6. QED
  BY <1>3, <1>4, <1>5

(***************************************************************************)
(* What no step takes back: what has been asked and run, the port of a        *)
(* socket, and that an address is or was in the table.                      *)
(***************************************************************************)
Had(k) == {peers[k][p] : p \in DOMAIN peers[k]} \cup lost[k]

Stays(k) ==
    /\ Len(asked[k]) <= Len(asked'[k])
    /\ \A i \in 1 .. Len(asked[k]) : i \in 1 .. Len(asked'[k]) /\ asked'[k][i] = asked[k][i]
    /\ Done(k)' \in Nat /\ Done(k) <= Done(k)'
    /\ port[k] # NoPort => port'[k] = port[k]
    /\ Had(k) \subseteq Had(k)'
    /\ lost[k] \subseteq lost'[k] /\ strangers[k] \subseteq strangers'[k]

LEMMA HadGrows ==
    ASSUME NEW k \in Nodes, lost[k] \subseteq lost'[k],
           \A q \in DOMAIN peers[k] : \/ q \in DOMAIN peers'[k] /\ peers'[k][q] = peers[k][q]
                                     \/ peers[k][q] \in lost'[k]
    PROVE  Had(k) \subseteq Had(k)'
<1>1. ASSUME NEW q \in DOMAIN peers[k] PROVE peers[k][q] \in Had(k)'
  BY <1>1 DEF Had
<1>2. QED
  BY <1>1 DEF Had

LEMMA StaysStep ==
    ASSUME ShapeOK, NEW n \in Nodes, QueueOK(n), Step(n), NEW k \in Nodes
    PROVE  Stays(k) /\ network \subseteq network'
<1>0. /\ Len(tasks[k]) \in Nat /\ Len(asked[k]) \in Nat /\ Done(k) \in Nat
      /\ next_peer_id[n] \notin DOMAIN peers[n]
  BY Lengths DEF ShapeOK
<1>1. CASE k # n
  <2>1. UNCHANGED <<port[k], peers[k], tasks[k], asked[k], lost[k], strangers[k]>>
    BY <1>1, StepKinds DEF Alone
  <2>2. Stays(k)
    BY <1>0, <2>1 DEF Stays, Done, Had
  <2>3. network \subseteq network'
    BY StepKinds DEF Asks, Binds, Makes, Says, Transmits, Drops, Expires, Hears
  <2>4. QED
    BY <2>2, <2>3
<1>2. CASE k = n
  <2>1. ASSUME NEW c, Asks(n, c) PROVE Stays(n) /\ network' = network
    <3>1. /\ Len(asked'[n]) = Len(asked[n]) + 1
          /\ Done(n)' = Done(n)
          /\ \A i \in 1 .. Len(asked[n]) : asked'[n][i] = asked[n][i]
      BY <2>1, Added
    <3>2. UNCHANGED <<port, peers, lost, strangers, network>>
      BY <2>1 DEF Asks
    <3>3. Had(n)' = Had(n)
      BY <3>2 DEF Had
    <3>4. QED
      BY <1>0, <1>2, <3>1, <3>2, <3>3 DEF Stays
  <2>2. ASSUME Dequeues(n)
        PROVE  /\ asked' = asked
               /\ Done(n)' \in Nat /\ Done(n) <= Done(n)'
    BY <1>0, <1>2, <2>2, Taken DEF Dequeues
  <2>3. ASSUME NEW t, Binds(n, t) PROVE Stays(n) /\ network' = network
    <3>1. Had(n)' = Had(n)
      BY <2>3 DEF Binds, Had
    <3>2. QED
      BY <1>0, <1>2, <2>2, <2>3, <3>1 DEF Binds, Stays
  <2>4. ASSUME NEW t, Makes(n, t) PROVE Stays(n) /\ network' = network
    <3>1. t.peer \notin DOMAIN peers[n]
      <4>1. 1 \in 1 .. Len(tasks[n]) /\ t = tasks[n][1] /\ t.op = "connect"
        BY <2>4, Taken DEF Makes
      <4>2. QueuedAs(n, t, asked[n][Done(n) + 1])
        BY <4>1 DEF QueueOK
      <4>3. QED
        <5>1. CASE asked[n][Done(n) + 1].op = "connect"
          BY <4>2, <5>1 DEF QueuedAs
        <5>2. CASE asked[n][Done(n) + 1].op # "connect"
          BY <4>1, <4>2, <5>2 DEF QueuedAs
        <5>3. QED
          BY <5>1, <5>2
    <3>2. Had(n) \subseteq Had(n)'
      BY <2>4, <3>1, HadGrows DEF Makes
    <3>3. QED
      BY <1>0, <1>2, <2>2, <2>4, <3>2 DEF Makes, Stays
  <2>5. CASE Says(n)
    <3>1. UNCHANGED <<peers, asked, lost, strangers>> /\ (port[n] # NoPort => port'[n] = port[n])
          /\ network \subseteq network'
      BY <2>5 DEF Says, Transmits
    <3>2. Done(n)' \in Nat /\ Done(n) <= Done(n)'
      <4>1. CASE Dequeues(n)
        BY <2>2, <4>1
      <4>2. CASE tasks'[n] = tasks[n]
        BY <1>0, <1>2, <3>1, <4>2 DEF Done
      <4>3. QED
        BY <2>5, <4>1, <4>2 DEF Says
    <3>3. Had(n)' = Had(n)
      BY <3>1 DEF Had
    <3>4. QED
      BY <1>0, <1>2, <3>1, <3>2, <3>3 DEF Stays
  <2>6. CASE Drops(n)
    <3>1. Had(n)' = Had(n)
      BY <2>6 DEF Drops, Had
    <3>2. QED
      BY <1>0, <1>2, <2>2, <2>6, <3>1 DEF Drops, Stays
  <2>7. ASSUME NEW p, Expires(n, p) PROVE Stays(n) /\ network' = network
    <3>1. Had(n) \subseteq Had(n)'
      BY <2>7, HadGrows DEF Expires
    <3>2. Done(n)' = Done(n)
      BY <2>7 DEF Expires, Done
    <3>3. QED
      BY <1>0, <1>2, <2>7, <3>1, <3>2 DEF Expires, Stays
  <2>8. ASSUME NEW d, Hears(n, d) PROVE Stays(n) /\ network' = network
    <3>1. UNCHANGED <<port, tasks, network, asked, lost>>
      BY <2>8 DEF Hears
    <3>2. \A p \in DOMAIN peers[n] : p \in DOMAIN peers'[n] /\ peers'[n][p] = peers[n][p]
      BY <1>0, <1>2, <2>8 DEF Hears
    <3>3. Had(n) \subseteq Had(n)' /\ strangers[n] \subseteq strangers'[n]
      BY <2>8, <3>1, <3>2, HadGrows DEF Hears
    <3>4. Done(n)' \in Nat /\ Done(n) <= Done(n)'
      <4>1. Done(n)' = Done(n)
        BY <3>1 DEF Done
      <4>2. QED
        BY <1>0, <1>2, <4>1
    <3>5. QED
      BY <1>0, <1>2, <3>1, <3>3, <3>4 DEF Stays
  <2>9. QED
    BY <1>2, <2>1, <2>3, <2>4, <2>5, <2>6, <2>7, <2>8, StepKinds DEF Says, Transmits, Drops
<1>3. QED
  BY <1>1, <1>2

-----------------------------------------------------------------------------
(***************************************************************************)
(* The address a datagram comes from has a type.                            *)
(***************************************************************************)
LEMMA SourceType ==
    ASSUME ShapeOK, NEW n \in Nodes, NEW address, NEW from \in Ports
    PROVE  Source(n, address, from) \in Address
BY DEF Source, Address, ShapeOK

\* The first task of the queue, as it was asked for.
LEMMA HeadAsked ==
    ASSUME ShapeOK, NEW n \in Nodes, QueueOK(n), Dequeues(n)
    PROVE  /\ Done(n) + 1 \in 1 .. Len(asked[n])
           /\ asked[n][Done(n) + 1] \in Ask
           /\ QueuedAs(n, Head(tasks[n]), asked[n][Done(n) + 1])
           /\ Head(tasks[n]).op = asked[n][Done(n) + 1].op
           /\ Head(tasks[n]).op # "connect" => Head(tasks[n]) = asked[n][Done(n) + 1]
<1>1. 1 \in 1 .. Len(tasks[n]) /\ Head(tasks[n]) = tasks[n][1]
  BY Taken
<1>2. /\ Done(n) + 1 \in 1 .. Len(asked[n])
      /\ asked[n][Done(n) + 1] \in Ask
  BY <1>1, Lengths
<1>3. QueuedAs(n, Head(tasks[n]), asked[n][Done(n) + 1])
  BY <1>1 DEF QueueOK
<1>4. QED
  BY <1>2, <1>3 DEF QueuedAs

LEMMA ShapeInit ==
    ASSUME Init
    PROVE  ShapeOK
<1>1. PICK d \in Deployments : /\ host = [n \in Nodes |-> d[n].host]
                               /\ platform = [n \in Nodes |-> d[n].platform]
  BY DEF Init
<1>2. d \in [Nodes -> [host : Hosts, platform : Platforms]]
  BY TransportAssumption
<1>3. host \in [Nodes -> Hosts] /\ platform \in [Nodes -> Platforms]
  BY <1>1, <1>2
<1>4. \A n \in Nodes : /\ tasks[n] = << >> /\ asked[n] = << >> /\ peers[n] = << >>
                       /\ MaxAsked[n] \in Nat
  BY TransportAssumption DEF Init
<1>5. \A n \in Nodes : Len(tasks[n]) = 0 /\ Len(asked[n]) = 0 /\ DOMAIN peers[n] = {}
  BY <1>4
<1>6. QED
  BY <1>3, <1>4, <1>5 DEF Init, ShapeOK

LEMMA ShapeStep ==
    ASSUME ShapeOK, \A n \in Nodes : QueueOK(n), Next
    PROVE  ShapeOK'
<1>1. PICK n \in Nodes : Step(n)
  BY DEF Next
<1>2. /\ Alone(n)
      /\ port' \in [Nodes -> Ports \cup {NoPort}]
      /\ next_peer_id' \in [Nodes -> Nat]
      /\ DOMAIN peers' = Nodes
      /\ lost' \in [Nodes -> SUBSET Address]
      /\ strangers' \in [Nodes -> SUBSET Address]
      /\ tasks' \in [Nodes -> Seq(Queued)]
      /\ asked' \in [Nodes -> Seq(Ask)]
      /\ failed' \in [Nodes -> {"no", "bind", "send", "unpack"}]
  BY <1>1, StepKinds
<1>3. /\ next_peer_id[n] \in Nat
      /\ DOMAIN peers[n] \subseteq 0 .. (next_peer_id[n] - 1)
      /\ \A p \in DOMAIN peers[n] : peers[n][p] \in Address
      /\ Len(tasks[n]) \in Nat /\ Len(asked[n]) \in Nat
      /\ Len(tasks[n]) <= Len(asked[n]) /\ Len(asked[n]) <= MaxAsked[n]
      /\ MaxAsked[n] \in Nat
  BY Lengths, TransportAssumption DEF ShapeOK
<1> DEFINE Table == /\ DOMAIN peers'[n] \subseteq 0 .. (next_peer_id'[n] - 1)
                    /\ \A p \in DOMAIN peers'[n] : peers'[n][p] \in Address
           Queue == Len(tasks'[n]) <= Len(asked'[n]) /\ Len(asked'[n]) <= MaxAsked[n]
           Flight == \A d \in network' : d.to \in Nodes /\ d.from \in Address /\ d.cause.node \in Nodes
<1>4. ASSUME Dequeues(n) PROVE Queue
  <2>1. Len(tasks'[n]) \in Nat /\ Len(tasks'[n]) <= Len(tasks[n]) /\ asked'[n] = asked[n]
    BY <1>4, Taken DEF Dequeues
  <2>2. QED
    BY <1>3, <2>1
<1>5. network' = network => Flight
  BY DEF ShapeOK
<1>6. ASSUME NEW c, Asks(n, c) PROVE Table /\ Queue /\ Flight
  <2>1. /\ Len(tasks'[n]) = Len(tasks[n]) + 1
        /\ Len(asked'[n]) = Len(asked[n]) + 1
    BY <1>6, Added
  <2>2. /\ peers' = peers /\ network' = network
        /\ next_peer_id'[n] \in {next_peer_id[n], next_peer_id[n] + 1}
        /\ Len(asked[n]) < MaxAsked[n]
    BY <1>6 DEF Asks
  <2>3. Queue
    BY <1>3, <2>1, <2>2
  <2>4. Table
    BY <1>3, <2>2
  <2>5. QED
    BY <1>5, <2>2, <2>3, <2>4
<1>7. ASSUME NEW t, Binds(n, t) PROVE Table /\ Queue /\ Flight
  <2>1. UNCHANGED <<next_peer_id, peers, network>> /\ Dequeues(n)
    BY <1>7 DEF Binds
  <2>2. QED
    BY <1>3, <1>4, <1>5, <2>1
<1>8. ASSUME NEW t, Makes(n, t), t.peer \in Nat, t.address \in Address PROVE Table /\ Queue /\ Flight
  <2>1. /\ Dequeues(n) /\ t = Head(tasks[n]) /\ t.op = "connect"
        /\ DOMAIN peers'[n] = DOMAIN peers[n] \cup {t.peer}
        /\ peers'[n][t.peer] = t.address
        /\ \A q \in DOMAIN peers[n] : q # t.peer => peers'[n][q] = peers[n][q]
        /\ UNCHANGED <<next_peer_id, network>>
    BY <1>8 DEF Makes
  <2>2. t.peer < next_peer_id[n]
    BY <2>1, HeadAsked DEF QueuedAs
  <2>3. Table
    BY <1>3, <1>8, <2>1, <2>2
  <2>4. QED
    BY <1>4, <1>5, <2>1, <2>3
<1>9. ASSUME Says(n) PROVE Table /\ Queue /\ Flight
  <2>1. UNCHANGED <<next_peer_id, peers, asked>>
    BY <1>9 DEF Says, Transmits
  <2>2. Queue
    BY <1>3, <1>4, <1>9, <2>1 DEF Says
  <2>3. ASSUME NEW d \in network' PROVE d.to \in Nodes /\ d.from \in Address /\ d.cause.node \in Nodes
    <3>1. CASE d \in network
      BY <3>1 DEF ShapeOK
    <3>2. CASE d \notin network
      <4>1. PICK p : Transmits(n, p)
        BY <1>9 DEF Says
      <4> DEFINE from == IF port[n] = NoPort THEN Ephemeral(n) ELSE port[n]
      <4>2. /\ d.to \in Targets(n, peers[n][p])
            /\ d.from = Source(n, peers[n][p], from)
            /\ d.cause.node = n
        BY <3>2, <4>1 DEF Transmits
      <4>3. from \in Ports
        BY DEF ShapeOK, Ephemeral, Ports
      <4> HIDE DEF from
      <4>4. d.from \in Address
        BY <4>2, <4>3, SourceType
      <4>5. QED
        BY <4>2, <4>4 DEF Targets
    <3>3. QED
      BY <3>1, <3>2
  <2>4. QED
    BY <1>3, <2>1, <2>2, <2>3
<1>10. ASSUME NEW d, Hears(n, d), d.from \in Address PROVE Table /\ Queue /\ Flight
  <2>1. UNCHANGED <<tasks, network, asked>>
    BY <1>10 DEF Hears
  <2>2. Table
    BY <1>3, <1>10 DEF Hears
  <2>3. QED
    BY <1>3, <1>5, <2>1, <2>2
<1>a. ASSUME Drops(n) PROVE Table /\ Queue /\ Flight
  BY <1>3, <1>4, <1>5, <1>a DEF Drops
<1>b. ASSUME NEW p, Expires(n, p) PROVE Table /\ Queue /\ Flight
  <2>1. UNCHANGED <<next_peer_id, tasks, network, asked>>
    BY <1>b DEF Expires
  <2>2. Table
    BY <1>3, <1>b, <2>1 DEF Expires
  <2>3. QED
    BY <1>3, <1>5, <2>1, <2>2
<1>11. Table /\ Queue /\ Flight
  BY <1>1, <1>6, <1>7, <1>8, <1>9, <1>10, <1>a, <1>b, StepKinds
<1>12. ASSUME NEW k \in Nodes
       PROVE  /\ DOMAIN peers'[k] \subseteq 0 .. (next_peer_id'[k] - 1)
              /\ \A p \in DOMAIN peers'[k] : peers'[k][p] \in Address
              /\ Len(tasks'[k]) <= Len(asked'[k]) /\ Len(asked'[k]) <= MaxAsked[k]
  <2>1. CASE k = n
    BY <1>11, <2>1
  <2>2. CASE k # n
    <3>1. UNCHANGED <<next_peer_id[k], peers[k], tasks[k], asked[k]>>
      BY <1>2, <2>2 DEF Alone
    <3>2. QED
      BY <3>1 DEF ShapeOK
  <2>3. QED
    BY <2>1, <2>2
<1>13. host' \in [Nodes -> Hosts] /\ platform' \in [Nodes -> Platforms]
  BY <1>2 DEF Alone, ShapeOK
<1>14. QED
  BY <1>2, <1>11, <1>12, <1>13 DEF ShapeOK

-----------------------------------------------------------------------------
\* What is known of a task that waits.
LEMMA Waits ==
    ASSUME ShapeOK, NEW n \in Nodes, QueueOK(n), NEW i \in 1 .. Len(tasks[n])
    PROVE  /\ QueuedAs(n, tasks[n][i], asked[n][Done(n) + i])
           /\ tasks[n][i].op = "connect" =>
                  /\ tasks[n][i].peer \in Nat
                  /\ tasks[n][i].peer < next_peer_id[n]
                  /\ tasks[n][i].peer \notin DOMAIN peers[n]
<1>1. QueuedAs(n, tasks[n][i], asked[n][Done(n) + i])
  BY DEF QueueOK
<1>2. tasks[n][i] \in Queued
  BY Lengths
<1>3. QED
  BY <1>1, <1>2 DEF QueuedAs, Queued

\* A task is still queued as it was while its id stays out of the table.
LEMMA StillQueued ==
    ASSUME NEW n \in Nodes, NEW t, NEW c, QueuedAs(n, t, c), t.op = "connect" => t.peer \in Nat,
           next_peer_id[n] \in Nat, next_peer_id'[n] \in Nat, next_peer_id[n] <= next_peer_id'[n],
           t.op = "connect" => t.peer \notin DOMAIN peers'[n]
    PROVE  QueuedAs(n, t, c)'
BY DEF QueuedAs

\* The queue while the worker takes no task, and the application asks nothing.
LEMMA QueueKept ==
    ASSUME ShapeOK, NEW n \in Nodes, QueueOK(n),
           tasks'[n] = tasks[n], asked'[n] = asked[n],
           next_peer_id'[n] \in Nat, next_peer_id[n] <= next_peer_id'[n],
           \A q \in DOMAIN peers'[n] : q \in DOMAIN peers[n] \/ q = next_peer_id[n]
    PROVE  QueueOK(n)'
<1>1. Done(n)' = Done(n) /\ next_peer_id[n] \in Nat
  BY DEF Done, ShapeOK
<1>2. ASSUME NEW i \in 1 .. Len(tasks[n])
      PROVE  QueuedAs(n, tasks[n][i], asked[n][Done(n) + i])'
  <2> DEFINE t == tasks[n][i]
             c == asked[n][Done(n) + i]
  <2>1. /\ QueuedAs(n, t, c)
        /\ t.op = "connect" => /\ t.peer \in Nat
                               /\ t.peer \notin DOMAIN peers'[n]
    BY <1>1, <1>2, Waits
  <2>2. t' = t /\ c' = c
    BY <1>1
  <2> HIDE DEF t, c
  <2>3. QueuedAs(n, t, c)'
    BY <1>1, <2>1, <2>2 DEF QueuedAs
  <2>4. QED
    BY <2>3 DEF t, c
<1>3. QED
  BY <1>1, <1>2 DEF QueueOK

\* The queue after the worker has taken a task.
LEMMA QueueShift ==
    ASSUME ShapeOK, NEW n \in Nodes, QueueOK(n), Dequeues(n), next_peer_id'[n] = next_peer_id[n],
           \A i \in 1 .. Len(tasks[n]) :
               (i # 1 /\ tasks[n][i].op = "connect") => tasks[n][i].peer \notin DOMAIN peers'[n]
    PROVE  QueueOK(n)'
<1>0. Len(tasks[n]) \in Nat /\ Done(n) \in Nat /\ next_peer_id[n] \in Nat
  BY Lengths DEF ShapeOK
<1>1. /\ Len(tasks'[n]) \in Nat
      /\ Done(n)' = Done(n) + 1
      /\ asked'[n] = asked[n]
      /\ \A i \in 1 .. Len(tasks'[n]) : /\ i + 1 \in 1 .. Len(tasks[n])
                                        /\ tasks'[n][i] = tasks[n][i + 1]
  BY Taken DEF Dequeues
<1>2. ASSUME NEW i \in 1 .. Len(tasks'[n])
      PROVE  QueuedAs(n, tasks[n][i], asked[n][Done(n) + i])'
  <2> DEFINE t == tasks[n][i]
             c == asked[n][Done(n) + i]
  <2>1. /\ i + 1 \in 1 .. Len(tasks[n]) /\ i + 1 # 1
        /\ t' = tasks[n][i + 1]
    BY <1>1, <1>2
  <2>2. c' = asked[n][Done(n) + (i + 1)]
    <3>1. Done(n)' + i = Done(n) + (i + 1)
      <4>1. i \in Int
        BY <1>2
      <4>2. QED
        BY <1>0, <1>1, <4>1
    <3>2. QED
      BY <1>1, <3>1
  <2>3. /\ QueuedAs(n, tasks[n][i + 1], asked[n][Done(n) + (i + 1)])
        /\ tasks[n][i + 1].op = "connect" => tasks[n][i + 1].peer \notin DOMAIN peers'[n]
    BY <2>1, Waits
  <2>4. /\ QueuedAs(n, t', c')
        /\ t'.op = "connect" => t'.peer \notin DOMAIN peers'[n]
    BY <2>1, <2>2, <2>3
  <2> HIDE DEF t, c
  <2>5. QueuedAs(n, t, c)'
    BY <2>4 DEF QueuedAs
  <2>6. QED
    BY <2>5 DEF t, c
<1>3. \A i, j \in 1 .. Len(tasks'[n]) :
          (i # j /\ tasks'[n][i].op = "connect" /\ tasks'[n][j].op = "connect") =>
              tasks'[n][i].peer # tasks'[n][j].peer
  <2>1. SUFFICES ASSUME NEW i \in 1 .. Len(tasks'[n]), NEW j \in 1 .. Len(tasks'[n]), i # j,
                        tasks'[n][i].op = "connect", tasks'[n][j].op = "connect"
                 PROVE  tasks'[n][i].peer # tasks'[n][j].peer
    OBVIOUS
  <2>2. /\ i + 1 \in 1 .. Len(tasks[n]) /\ j + 1 \in 1 .. Len(tasks[n]) /\ i + 1 # j + 1
        /\ tasks'[n][i] = tasks[n][i + 1] /\ tasks'[n][j] = tasks[n][j + 1]
    BY <1>1, <2>1
  <2>3. QED
    BY <2>1, <2>2 DEF QueueOK
<1>4. QED
  BY <1>2, <1>3 DEF QueueOK

\* The queue after the application has asked.
LEMMA QueueGrown ==
    ASSUME ShapeOK, NEW n \in Nodes, QueueOK(n), NEW c, Asks(n, c)
    PROVE  QueueOK(n)'
<1>0. /\ Len(tasks[n]) \in Nat /\ Done(n) \in Nat /\ next_peer_id[n] \in Nat
      /\ Done(n) + Len(tasks[n]) = Len(asked[n])
      /\ \A i \in 1 .. Len(tasks[n]) : Done(n) + i \in 1 .. Len(asked[n])
      /\ next_peer_id[n] \notin DOMAIN peers[n]
  BY Lengths DEF ShapeOK
<1>1. /\ Len(tasks'[n]) = Len(tasks[n]) + 1
      /\ Done(n)' = Done(n)
      /\ \A i \in 1 .. Len(tasks[n]) : tasks'[n][i] = tasks[n][i]
      /\ \A i \in 1 .. Len(asked[n]) : asked'[n][i] = asked[n][i]
      /\ tasks'[n][Len(tasks[n]) + 1] = Task(n, c)
      /\ asked'[n][Len(asked[n]) + 1] = c
  BY Added
<1>2. /\ c \in Calls[n] /\ peers' = peers
      /\ next_peer_id'[n] = IF c.op = "connect" THEN next_peer_id[n] + 1 ELSE next_peer_id[n]
  BY DEF Asks
<1>3. /\ c.op # "connect" => Task(n, c) = c
      /\ c.op = "connect" => /\ Task(n, c).op = "connect"
                             /\ Task(n, c).peer = next_peer_id[n]
                             /\ Task(n, c).address = IpAddress(c.name, c.port)
  BY <1>2, AskType DEF Task
<1>4. ASSUME NEW i \in 1 .. Len(tasks[n])
      PROVE  QueuedAs(n, tasks[n][i], asked[n][Done(n) + i])'
  <2> DEFINE t == tasks[n][i]
             a == asked[n][Done(n) + i]
  <2>1. /\ QueuedAs(n, t, a)
        /\ t.op = "connect" => t.peer \in Nat /\ t.peer < next_peer_id[n] /\ t.peer \notin DOMAIN peers'[n]
    BY <1>2, Waits
  <2>2. t' = t /\ a' = a
    BY <1>0, <1>1
  <2>3. next_peer_id'[n] \in Nat /\ next_peer_id[n] <= next_peer_id'[n]
    BY <1>0, <1>2
  <2> HIDE DEF t, a
  <2>4. QueuedAs(n, t, a)'
    BY <1>0, <2>1, <2>2, <2>3 DEF QueuedAs
  <2>5. QED
    BY <2>4 DEF t, a
<1>5. ASSUME NEW i, i = Len(tasks[n]) + 1
      PROVE  QueuedAs(n, tasks[n][i], asked[n][Done(n) + i])'
  <2> DEFINE t == tasks[n][i]
             a == asked[n][Done(n) + i]
             x == Len(tasks[n])
             y == Len(asked[n])
  <2>1. Done(n)' + i = y + 1
    <3>1. /\ Done(n) \in Nat /\ x \in Nat /\ y \in Nat /\ Done(n) + x = y
          /\ Done(n)' = Done(n) /\ i = x + 1
      BY <1>0, <1>1, <1>5, Lengths
    <3> HIDE DEF x, y
    <3>2. QED
      BY <3>1
  <2>2. t' = Task(n, c) /\ a' = c
    BY <1>1, <1>5, <2>1
  <2> HIDE DEF t, a
  <2>3. QueuedAs(n, t, a)'
    BY <1>0, <1>2, <1>3, <2>2 DEF QueuedAs
  <2>4. QED
    BY <2>3 DEF t, a
<1>6. \A i \in 1 .. Len(tasks'[n]) : i \in 1 .. Len(tasks[n]) \/ i = Len(tasks[n]) + 1
  <2> DEFINE x == Len(tasks[n])
             z == Len(tasks'[n])
  <2>1. x \in Nat /\ z = x + 1
    BY <1>0, <1>1
  <2> HIDE DEF x, z
  <2>2. \A i \in 1 .. z : i \in 1 .. x \/ i = x + 1
    BY <2>1
  <2>3. QED
    BY <2>2 DEF x, z
<1>7. \A i \in 1 .. Len(tasks'[n]) : QueuedAs(n, tasks[n][i], asked[n][Done(n) + i])'
  BY <1>4, <1>5, <1>6
<1>8. ASSUME NEW i \in 1 .. Len(tasks[n]), tasks[n][i].op = "connect",
             Task(n, c).op = "connect"
      PROVE  tasks[n][i].peer # Task(n, c).peer
  <2>1. c.op = "connect"
    BY <1>3, <1>8
  <2>2. tasks[n][i].peer \in Nat /\ tasks[n][i].peer < next_peer_id[n]
    BY <1>8, Waits
  <2>3. QED
    BY <1>0, <1>3, <2>1, <2>2
<1>9. ASSUME NEW i \in 1 .. Len(tasks'[n]), NEW j \in 1 .. Len(tasks'[n]), i # j,
             tasks'[n][i].op = "connect", tasks'[n][j].op = "connect"
      PROVE  tasks'[n][i].peer # tasks'[n][j].peer
  <2>1. CASE i \in 1 .. Len(tasks[n]) /\ j \in 1 .. Len(tasks[n])
    BY <1>1, <1>9, <2>1 DEF QueueOK
  <2>2. CASE i \in 1 .. Len(tasks[n]) /\ j = Len(tasks[n]) + 1
    BY <1>1, <1>8, <1>9, <2>2
  <2>3. CASE i = Len(tasks[n]) + 1 /\ j \in 1 .. Len(tasks[n])
    BY <1>1, <1>8, <1>9, <2>3
  <2>4. QED
    BY <1>6, <1>9, <2>1, <2>2, <2>3
<1>10. QED
  BY <1>7, <1>9 DEF QueueOK

LEMMA QueueStep ==
    ASSUME ShapeOK, \A k \in Nodes : QueueOK(k), Next
    PROVE  \A k \in Nodes : QueueOK(k)'
<1>1. PICK n \in Nodes : Step(n)
  BY DEF Next
<1>2. Alone(n) /\ next_peer_id' \in [Nodes -> Nat]
  BY <1>1, StepKinds
<1>3. /\ next_peer_id[n] \in Nat /\ next_peer_id'[n] \in Nat /\ QueueOK(n)
      /\ \A q \in DOMAIN peers[n] : q \in Nat /\ q < next_peer_id[n]
  BY <1>2 DEF ShapeOK
<1>4. ASSUME NEW k \in Nodes, k # n PROVE QueueOK(k)'
  <2>1. UNCHANGED <<next_peer_id[k], peers[k], tasks[k], asked[k]>>
    BY <1>2, <1>4 DEF Alone
  <2>2. next_peer_id[k] \in Nat /\ next_peer_id'[k] \in Nat
    BY <1>2 DEF ShapeOK
  <2>3. QED
    BY <2>1, <2>2, QueueKept
<1>5. ASSUME NEW c, Asks(n, c) PROVE QueueOK(n)'
  BY <1>3, <1>5, QueueGrown
<1>6. ASSUME Dequeues(n), next_peer_id'[n] = next_peer_id[n], DOMAIN peers'[n] = DOMAIN peers[n]
      PROVE  QueueOK(n)'
  BY <1>3, <1>6, Waits, QueueShift
<1>7. ASSUME NEW t, Binds(n, t) PROVE QueueOK(n)'
  BY <1>6, <1>7 DEF Binds
<1>8. ASSUME NEW t, Makes(n, t) PROVE QueueOK(n)'
  <2>1. /\ Dequeues(n) /\ t = tasks[n][1] /\ 1 \in 1 .. Len(tasks[n]) /\ t.op = "connect"
        /\ DOMAIN peers'[n] = DOMAIN peers[n] \cup {t.peer}
        /\ next_peer_id'[n] = next_peer_id[n]
    BY <1>8, Taken DEF Makes
  <2>2. ASSUME NEW i \in 1 .. Len(tasks[n]), i # 1, tasks[n][i].op = "connect"
        PROVE  tasks[n][i].peer \notin DOMAIN peers'[n]
    <3>1. tasks[n][i].peer # t.peer
      BY <1>3, <2>1, <2>2 DEF QueueOK
    <3>2. tasks[n][i].peer \notin DOMAIN peers[n]
      BY <1>3, <2>2, Waits
    <3>3. QED
      BY <2>1, <3>1, <3>2
  <2>3. QED
    BY <1>3, <2>1, <2>2, QueueShift
<1>9. ASSUME Says(n) PROVE QueueOK(n)'
  <2>1. UNCHANGED <<next_peer_id, peers, asked>>
    BY <1>9 DEF Says, Transmits
  <2>2. CASE Dequeues(n)
    BY <1>6, <2>1, <2>2
  <2>3. CASE tasks'[n] = tasks[n]
    BY <1>3, <2>1, <2>3, QueueKept
  <2>4. QED
    BY <1>9, <2>2, <2>3 DEF Says
<1>10. ASSUME NEW d, Hears(n, d) PROVE QueueOK(n)'
  <2>1. UNCHANGED <<tasks, asked>>
    BY <1>10 DEF Hears
  <2>2. /\ next_peer_id[n] <= next_peer_id'[n]
        /\ \A q \in DOMAIN peers'[n] : q \in DOMAIN peers[n] \/ q = next_peer_id[n]
    BY <1>3, <1>10 DEF Hears
  <2>3. QED
    BY <1>3, <2>1, <2>2, QueueKept
<1>a. ASSUME Drops(n) PROVE QueueOK(n)'
  BY <1>6, <1>a DEF Drops
<1>b. ASSUME NEW p, Expires(n, p) PROVE QueueOK(n)'
  <2>1. /\ UNCHANGED <<next_peer_id, tasks, asked>>
        /\ \A q \in DOMAIN peers'[n] : q \in DOMAIN peers[n]
    BY <1>b DEF Expires
  <2>2. QED
    BY <1>3, <2>1, QueueKept
<1>11. QueueOK(n)'
  BY <1>1, <1>5, <1>7, <1>8, <1>9, <1>10, <1>a, <1>b, StepKinds
<1>12. QED
  BY <1>4, <1>11

-----------------------------------------------------------------------------
(***************************************************************************)
(* Where ports and entries come from.  A worker that has a port, or that has  *)
(* had an entry, has begun: it has run a listen or a connect.               *)
(***************************************************************************)
Begun(n) == \E j \in 1 .. Done(n) : asked[n][j].op \in {"listen", "connect"}

PortOK(n) ==
    /\ port[n] # NoPort \/ Had(n) # {} => Begun(n)
    /\ \/ port[n] \in {NoPort, Ephemeral(n)}
       \/ \E i \in Asked(n, "listen") : port[n] = asked[n][i].port

\* The address of an entry is one that was asked for, or that a datagram came from.
Named(n, address) ==
    \/ \E d \in network : d.to = n /\ d.from = address
    \/ \E i \in Asked(n, "connect") : address = IpAddress(asked[n][i].name, asked[n][i].port)

EntryOK(n) == \A a \in Had(n) : Named(n, a)

(***************************************************************************)
(* A datagram came from an entry that its sender had, and from the port that *)
(* it still has, to a node that is still where it was sent to.              *)
(***************************************************************************)
FlightOK(d) ==
    LET k == d.cause.node
    IN  /\ port[k] # NoPort
        /\ port[d.to] # NoPort
        /\ \E a \in Had(k) : d.from = Source(k, a, port[k]) /\ d.to \in Targets(k, a)

TransportInv ==
    /\ ShapeOK
    /\ \A n \in Nodes : QueueOK(n) /\ PortOK(n) /\ EntryOK(n)
    /\ \A d \in network : FlightOK(d)

\* What was asked stays asked.
LEMMA AskedStays ==
    ASSUME NEW k \in Nodes, ShapeOK, Stays(k)
    PROVE  /\ \A op : Asked(k, op) \subseteq Asked(k, op)'
           /\ \A op : \A i \in Asked(k, op) : asked'[k][i] = asked[k][i]
           /\ Begun(k) => Begun(k)'
<1>1. ASSUME NEW op, NEW i \in Asked(k, op)
      PROVE  i \in Asked(k, op)' /\ asked'[k][i] = asked[k][i]
  BY <1>1 DEF Asked, Stays
<1>2. ASSUME Begun(k) PROVE Begun(k)'
  <2>1. PICK j \in 1 .. Done(k) : asked[k][j].op \in {"listen", "connect"}
    BY <1>2 DEF Begun
  <2>2. /\ Done(k) \in Nat /\ Len(tasks[k]) \in Nat /\ Len(asked[k]) \in Nat
        /\ Done(k) + Len(tasks[k]) = Len(asked[k])
        /\ Done(k)' \in Nat /\ Done(k) <= Done(k)'
    BY Lengths DEF Stays
  <2>3. j \in 1 .. Len(asked[k]) /\ j \in 1 .. Done(k)'
    <3> DEFINE x == Len(tasks[k])
               y == Len(asked[k])
    <3>1. x \in Nat /\ y \in Nat /\ Done(k) + x = y
      BY <2>2
    <3> HIDE DEF x, y
    <3>2. j \in 1 .. y /\ j \in 1 .. Done(k)'
      BY <2>1, <2>2, <3>1
    <3>3. QED
      BY <3>2 DEF y
  <2>4. asked'[k][j] = asked[k][j]
    BY <2>3 DEF Stays
  <2>5. QED
    BY <2>1, <2>3, <2>4 DEF Begun
<1>3. QED
  BY <1>1, <1>2

\* The task that a step has run was asked for, and counts as run.
LEMMA RunAsked ==
    ASSUME ShapeOK, NEW n \in Nodes, QueueOK(n), Dequeues(n), NEW op, Head(tasks[n]).op = op
    PROVE  /\ Done(n) + 1 \in Asked(n, op)
           /\ Done(n) + 1 \in 1 .. Done(n)'
           /\ asked'[n] = asked[n]
           /\ asked[n][Done(n) + 1].op = op
<1>1. /\ Done(n) \in Nat
      /\ Done(n)' = Done(n) + 1
      /\ asked'[n] = asked[n]
  BY Lengths, Taken DEF Dequeues
<1>2. Done(n) + 1 \in 1 .. Len(asked[n]) /\ asked[n][Done(n) + 1].op = op
  BY HeadAsked
<1>3. QED
  BY <1>1, <1>2 DEF Asked

LEMMA BegunNow ==
    ASSUME ShapeOK, NEW n \in Nodes, QueueOK(n), Dequeues(n), Head(tasks[n]).op \in {"listen", "connect"}
    PROVE  Begun(n)'
<1>1. /\ Done(n) + 1 \in 1 .. Done(n)'
      /\ asked'[n][Done(n) + 1].op \in {"listen", "connect"}
  BY RunAsked
<1>2. QED
  BY <1>1 DEF Begun

LEMMA PortStep ==
    ASSUME TransportInv, NEW n \in Nodes, Step(n)
    PROVE  PortOK(n)'
<1>1. /\ ShapeOK /\ QueueOK(n) /\ PortOK(n)
      /\ \A d \in network : FlightOK(d)
  BY DEF TransportInv
<1>2. Stays(n)
  BY <1>1, StaysStep
<1>3. port[n] # NoPort \/ Had(n) # {} => Begun(n)'
  BY <1>1, <1>2, AskedStays DEF PortOK
<1> DEFINE First  == port'[n] # NoPort \/ Had(n)' # {} => Begun(n)'
           Second == \/ port'[n] \in {NoPort, Ephemeral(n)}
                     \/ \E i \in Asked(n, "listen")' : port'[n] = asked'[n][i].port
<1>4. ASSUME port'[n] = port[n] PROVE Second
  BY <1>1, <1>2, <1>4, AskedStays DEF PortOK
<1>5. ASSUME NEW c, Asks(n, c) PROVE First /\ Second
  BY <1>3, <1>4, <1>5 DEF Asks, Had
<1>6. ASSUME NEW t, Binds(n, t) PROVE First /\ Second
  <2>1. Dequeues(n) /\ t = Head(tasks[n]) /\ t.op = "listen"
    BY <1>6 DEF Binds
  <2>2. First
    BY <1>1, <2>1, BegunNow
  <2>3. CASE port'[n] = t.port
    <3>1. Done(n) + 1 \in Asked(n, "listen") /\ asked'[n] = asked[n]
      BY <1>1, <2>1, RunAsked
    <3>2. t = asked[n][Done(n) + 1]
      BY <1>1, <2>1, HeadAsked
    <3>3. Done(n) + 1 \in Asked(n, "listen")'
      BY <3>1 DEF Asked
    <3>4. port'[n] = asked'[n][Done(n) + 1].port
      BY <2>3, <3>1, <3>2
    <3>5. QED
      BY <2>2, <3>3, <3>4
  <2>4. CASE port'[n] = port[n]
    BY <1>4, <2>2, <2>4
  <2>5. QED
    BY <1>6, <2>3, <2>4 DEF Binds
<1>7. ASSUME NEW t, Makes(n, t) PROVE First /\ Second
  <2>1. Dequeues(n) /\ t = Head(tasks[n]) /\ t.op = "connect" /\ port'[n] = port[n]
    BY <1>7 DEF Makes
  <2>2. First
    BY <1>1, <2>1, BegunNow
  <2>3. QED
    BY <1>4, <2>1, <2>2
<1>8. ASSUME Says(n) PROVE First /\ Second
  <2>1. Had(n) # {}
    BY <1>8 DEF Says, Transmits, Had
  <2>2. port'[n] = port[n] \/ port'[n] = Ephemeral(n)
    BY <1>8 DEF Says, Transmits
  <2>3. QED
    BY <1>3, <1>4, <2>1, <2>2
<1>9. ASSUME NEW d, Hears(n, d) PROVE First /\ Second
  <2>1. d \in network /\ d.to = n /\ port'[n] = port[n]
    BY <1>9 DEF Hears
  <2>2. port[n] # NoPort
    BY <1>1, <2>1 DEF FlightOK
  <2>3. QED
    BY <1>3, <1>4, <2>1, <2>2
<1>a. ASSUME Drops(n) PROVE First /\ Second
  BY <1>3, <1>4, <1>a DEF Drops, Had
<1>b. ASSUME NEW p, Expires(n, p) PROVE First /\ Second
  <2>1. Had(n) # {} /\ port'[n] = port[n]
    BY <1>b DEF Expires, Had
  <2>2. QED
    BY <1>3, <1>4, <2>1
<1>10. First /\ Second
  BY <1>1, <1>5, <1>6, <1>7, <1>8, <1>9, <1>a, <1>b, StepKinds
<1>11. QED
  BY <1>10 DEF PortOK, Ephemeral

LEMMA EntryStep ==
    ASSUME TransportInv, NEW n \in Nodes, Step(n)
    PROVE  EntryOK(n)'
<1>1. ShapeOK /\ QueueOK(n) /\ EntryOK(n)
  BY DEF TransportInv
<1>2. Stays(n) /\ network \subseteq network'
  BY <1>1, StaysStep
<1>3. ASSUME NEW a, Named(n, a) PROVE Named(n, a)'
  <2>1. CASE \E d \in network : d.to = n /\ d.from = a
    BY <1>2, <2>1 DEF Named
  <2>2. CASE \E i \in Asked(n, "connect") : a = IpAddress(asked[n][i].name, asked[n][i].port)
    <3>1. PICK i \in Asked(n, "connect") : a = IpAddress(asked[n][i].name, asked[n][i].port)
      BY <2>2
    <3>2. i \in Asked(n, "connect")' /\ asked'[n][i] = asked[n][i]
      BY <1>1, <1>2, <3>1, AskedStays
    <3>3. a = IpAddress(asked'[n][i].name, asked'[n][i].port)
      BY <3>1, <3>2
    <3>4. QED
      BY <3>2, <3>3 DEF Named
  <2>3. QED
    BY <1>3, <2>1, <2>2 DEF Named
<1>4. ASSUME NEW a \in Had(n) PROVE Named(n, a)'
  BY <1>1, <1>3 DEF EntryOK
<1>5. ASSUME NEW a, a \in Had(n)', a \notin Had(n) PROVE Named(n, a)'
  <2>1. ASSUME NEW t, Makes(n, t) PROVE Named(n, a)'
    <3>1. /\ Dequeues(n) /\ t = Head(tasks[n]) /\ t.op = "connect"
          /\ a = t.address
      <4>1. /\ Dequeues(n) /\ t = Head(tasks[n]) /\ t.op = "connect" /\ lost' = lost
            /\ DOMAIN peers'[n] = DOMAIN peers[n] \cup {t.peer}
            /\ peers'[n][t.peer] = t.address
            /\ \A q \in DOMAIN peers[n] : q # t.peer => peers'[n][q] = peers[n][q]
        BY <2>1 DEF Makes
      <4>2. PICK q \in DOMAIN peers'[n] : a = peers'[n][q]
        BY <1>5, <4>1 DEF Had
      <4>3. q = t.peer
        BY <1>5, <4>1, <4>2 DEF Had
      <4>4. QED
        BY <4>1, <4>2, <4>3
    <3>2. Done(n) + 1 \in Asked(n, "connect") /\ asked'[n] = asked[n]
          /\ asked[n][Done(n) + 1].op = "connect"
      BY <1>1, <3>1, RunAsked
    <3>3. t.address = IpAddress(asked[n][Done(n) + 1].name, asked[n][Done(n) + 1].port)
      BY <1>1, <3>1, <3>2, HeadAsked DEF QueuedAs
    <3>4. QED
      BY <1>3, <3>1, <3>2, <3>3 DEF Named
  <2>2. ASSUME NEW d, Hears(n, d) PROVE Named(n, a)'
    <3>1. d \in network /\ d.to = n /\ a = d.from
      <4>1. d \in network /\ d.to = n /\ lost' = lost
        BY <2>2 DEF Hears
      <4>2. peers' # peers
        BY <1>5, <4>1 DEF Had
      <4>3. /\ DOMAIN peers'[n] = DOMAIN peers[n] \cup {next_peer_id[n]}
            /\ peers'[n][next_peer_id[n]] = d.from
            /\ \A q \in DOMAIN peers[n] : q # next_peer_id[n] => peers'[n][q] = peers[n][q]
        BY <2>2, <4>2 DEF Hears
      <4>4. PICK q \in DOMAIN peers'[n] : a = peers'[n][q]
        BY <1>5, <4>1 DEF Had
      <4>5. q = next_peer_id[n]
        BY <1>5, <4>3, <4>4 DEF Had
      <4>6. QED
        BY <4>1, <4>3, <4>4, <4>5
    <3>2. QED
      BY <1>3, <3>1 DEF Named
  <2>3. ASSUME UNCHANGED <<peers, lost>> PROVE FALSE
    BY <1>5, <2>3 DEF Had
  <2>4. ASSUME NEW p, Expires(n, p) PROVE FALSE
    BY <1>5, <2>4 DEF Had, Expires
  <2>5. QED
    BY <1>1, <2>1, <2>2, <2>3, <2>4, StepKinds DEF Asks, Binds, Says, Transmits, Drops
<1>6. QED
  BY <1>4, <1>5 DEF EntryOK

\* A datagram that is in flight already.
LEMMA FlightStays ==
    ASSUME ShapeOK, \A k \in Nodes : Stays(k), UNCHANGED host, NEW d \in network, FlightOK(d)
    PROVE  FlightOK(d)'
<1>1. d.cause.node \in Nodes /\ d.to \in Nodes
  BY DEF ShapeOK
<1> DEFINE k == d.cause.node
<1>2. PICK a \in Had(k) : d.from = Source(k, a, port[k]) /\ d.to \in Targets(k, a)
  BY DEF FlightOK
<1>3. port[k] # NoPort /\ port[d.to] # NoPort
  BY DEF FlightOK
<1>4. port'[k] = port[k] /\ port'[d.to] = port[d.to]
  BY <1>1, <1>3 DEF Stays
<1>5. a \in Had(k)'
  BY <1>1, <1>2 DEF Stays
<1>6. d.from = Source(k, a, port[k])'
  BY <1>2, <1>4 DEF Source, Local
<1>7. d.to \in Targets(k, a)'
  BY <1>1, <1>2, <1>4 DEF Targets, Local
<1>8. QED
  BY <1>3, <1>4, <1>5, <1>6, <1>7 DEF FlightOK

LEMMA FlightStep ==
    ASSUME TransportInv, Next
    PROVE  \A d \in network' : FlightOK(d)'
<1>1. PICK n \in Nodes : Step(n)
  BY DEF Next
<1>2. ShapeOK /\ (\A k \in Nodes : QueueOK(k)) /\ \A d \in network : FlightOK(d)
  BY DEF TransportInv
<1>3. \A k \in Nodes : Stays(k)
  BY <1>1, <1>2, StaysStep
<1>4. UNCHANGED host
  BY <1>1, <1>2, StepKinds DEF Alone
<1>5. ASSUME NEW d \in network' PROVE FlightOK(d)'
  <2>1. CASE d \in network
    BY <1>2, <1>3, <1>4, <2>1, FlightStays
  <2>2. CASE d \notin network
    <3>1. Says(n)
      BY <1>1, <1>2, <1>5, <2>2, StepKinds DEF Asks, Binds, Makes, Drops, Expires, Hears
    <3> DEFINE from == IF port[n] = NoPort THEN Ephemeral(n) ELSE port[n]
    <3>2. PICK p \in DOMAIN peers[n] : /\ port'[n] = from
                                       /\ d.to \in Targets(n, peers[n][p])
                                       /\ d.from = Source(n, peers[n][p], from)
                                       /\ d.cause.node = n
      BY <1>5, <2>2, <3>1 DEF Says, Transmits
    <3>z. PICK a : a = peers[n][p]
      OBVIOUS
    <3>a. a \in Had(n)'
      BY <1>3, <3>z DEF Had, Stays
    <3>b. a \in Address
      BY <1>2, <3>2, <3>z DEF ShapeOK
    <3>3. from # NoPort
      BY CallsAssumption DEF Ephemeral, Ports
    <3> HIDE DEF from
    <3>4. d.to \in Nodes /\ port[d.to] = a.port
      BY <3>2, <3>z DEF Targets
    <3>5. port[d.to] # NoPort
      BY <3>4, <3>b, CallsAssumption DEF Address
    <3>6. port'[d.to] = port[d.to]
      BY <1>3, <3>4, <3>5 DEF Stays
    <3>7. d.from = Source(n, a, port[n])'
      BY <1>4, <3>2, <3>z DEF Source, Local
    <3>8. d.to \in Targets(n, a)'
      BY <1>4, <3>2, <3>6, <3>z DEF Targets, Local
    <3>9. QED
      BY <3>2, <3>3, <3>5, <3>6, <3>7, <3>8, <3>a DEF FlightOK
  <2>3. QED
    BY <2>1, <2>2
<1>6. QED
  BY <1>5

LEMMA TransportInvInit ==
    ASSUME Init
    PROVE  TransportInv
<1>1. ShapeOK
  BY ShapeInit
<1>2. ASSUME NEW n \in Nodes
      PROVE  /\ Len(tasks[n]) = 0 /\ Had(n) = {} /\ port[n] = NoPort
  <2>1. tasks[n] = << >> /\ peers[n] = << >> /\ lost[n] = {} /\ port[n] = NoPort
    BY DEF Init
  <2>2. QED
    BY <2>1 DEF Had
<1>3. \A n \in Nodes : QueueOK(n) /\ PortOK(n) /\ EntryOK(n)
  BY <1>2 DEF QueueOK, PortOK, EntryOK
<1>4. network = {}
  BY DEF Init
<1>5. QED
  BY <1>1, <1>3, <1>4 DEF TransportInv

\* Nothing changes at the other nodes.
LEMMA TransportInvStep ==
    ASSUME TransportInv, [Next]_vars
    PROVE  TransportInv'
<1>1. CASE UNCHANGED vars
  <2>1. UNCHANGED <<host, platform, port, next_peer_id, peers, tasks, network, failed, asked,
                    lost, strangers>>
    BY <1>1 DEF vars, nodeVars, historyVars
  <2>2. ShapeOK /\ \A k \in Nodes : QueueOK(k) /\ PortOK(k) /\ EntryOK(k)
    BY DEF TransportInv
  <2>3. ShapeOK'
    BY <2>1, <2>2 DEF ShapeOK
  <2>4. ASSUME NEW k \in Nodes PROVE QueueOK(k)'
    <3>1. next_peer_id[k] \in Nat
      BY <2>2 DEF ShapeOK
    <3>2. QED
      BY <2>1, <2>2, <3>1, QueueKept
  <2>5. ASSUME NEW k \in Nodes PROVE PortOK(k)'
    <3>1. Had(k)' = Had(k) /\ Begun(k)' = Begun(k)
      BY <2>1 DEF Had, Begun, Done
    <3>2. QED
      BY <2>1, <2>2, <3>1 DEF PortOK, Asked, Ephemeral
  <2>6. ASSUME NEW k \in Nodes PROVE EntryOK(k)'
    BY <2>1, <2>2 DEF EntryOK, Named, Asked, Had
  <2>7. ASSUME NEW d \in network' PROVE FlightOK(d)'
    <3>1. d \in network /\ FlightOK(d)
      BY <2>1, <2>7 DEF TransportInv
    <3>2. QED
      BY <2>1, <3>1 DEF FlightOK, Source, Targets, Local, Had
  <2>8. QED
    BY <2>3, <2>4, <2>5, <2>6, <2>7 DEF TransportInv
<1>2. CASE Next
  <2>1. ShapeOK /\ \A k \in Nodes : QueueOK(k) /\ PortOK(k) /\ EntryOK(k)
    BY DEF TransportInv
  <2>2. PICK n \in Nodes : Step(n)
    BY <1>2 DEF Next
  <2>3. ShapeOK'
    BY <1>2, <2>1, ShapeStep
  <2>4. \A k \in Nodes : QueueOK(k)'
    BY <1>2, <2>1, QueueStep
  <2>5. \A d \in network' : FlightOK(d)'
    BY <1>2, FlightStep
  <2>6. ASSUME NEW k \in Nodes, k # n PROVE PortOK(k)' /\ EntryOK(k)'
    <3>1. UNCHANGED <<port[k], peers[k], tasks[k], asked[k], lost[k]>>
      BY <2>1, <2>2, <2>6, StepKinds DEF Alone
    <3>2. network \subseteq network'
      BY <2>1, <2>2, StaysStep
    <3>3. PortOK(k)'
      <4>1. Had(k)' = Had(k) /\ Begun(k)' = Begun(k)
        BY <3>1 DEF Had, Begun, Done
      <4>2. QED
        BY <2>1, <3>1, <4>1 DEF PortOK, Asked, Ephemeral
    <3>4. EntryOK(k)'
      BY <2>1, <3>1, <3>2 DEF EntryOK, Named, Asked, Had
    <3>5. QED
      BY <3>3, <3>4
  <2>7. PortOK(n)' /\ EntryOK(n)'
    BY <2>2, PortStep, EntryStep
  <2>8. QED
    BY <2>3, <2>4, <2>5, <2>6, <2>7 DEF TransportInv
<1>3. QED
  BY <1>1, <1>2

LEMMA TransportInvHolds == Spec => []TransportInv
BY TransportInvInit, TransportInvStep, PTL DEF Spec

-----------------------------------------------------------------------------
\* What a step of n leaves alone.
LEMMA AllStay ==
    ASSUME TransportInv, NEW n \in Nodes, Step(n)
    PROVE  /\ \A k \in Nodes : /\ \A op : Asked(k, op) \subseteq Asked(k, op)'
                               /\ \A op : \A i \in Asked(k, op) : asked'[k][i] = asked[k][i]
           /\ UNCHANGED <<host, platform>>
           /\ \A k \in Nodes : lost[k] \subseteq lost'[k] /\ strangers[k] \subseteq strangers'[k]
           /\ \A k \in Nodes \ {n} : failed'[k] = failed[k] /\ strangers'[k] = strangers[k]
<1>1. ShapeOK /\ QueueOK(n)
  BY DEF TransportInv
<1>2. \A k \in Nodes : Stays(k)
  BY <1>1, StaysStep
<1>3. Alone(n)
  BY <1>1, StepKinds
<1>4. QED
  BY <1>1, <1>2, <1>3, AskedStays DEF Alone, Stays

\* A port that applications name is had by whoever asked to listen on it.
LEMMA ListenPort ==
    ASSUME TransportInv, NEW k \in Nodes, port[k] \in ListenPorts
    PROVE  Asked(k, "listen") # {} /\ port[k] # NoPort
<1>1. PortOK(k)
  BY DEF TransportInv
<1>2. port[k] # NoPort /\ port[k] # Ephemeral(k)
  BY CallsAssumption DEF Ports, Ephemeral
<1>3. QED
  BY <1>1, <1>2 DEF PortOK

\* A port that is the name of a node is the one the system picked for that node.
LEMMA OwnPort ==
    ASSUME TransportInv, NEW k \in Nodes, port[k] \in Nodes
    PROVE  port[k] = k
<1>1. PortOK(k) /\ ShapeOK
  BY DEF TransportInv
<1>2. port[k] # NoPort
  BY CallsAssumption DEF Ports
<1>3. ASSUME NEW i \in Asked(k, "listen") PROVE port[k] # asked[k][i].port
  <2>1. asked[k][i] \in Ask /\ asked[k][i].op = "listen"
    BY <1>1, <1>3, Lengths DEF Asked
  <2>2. asked[k][i].port \in ListenPorts
    BY <2>1, AskType DEF Ask
  <2>3. QED
    BY <2>2, CallsAssumption
<1>4. QED
  BY <1>1, <1>2, <1>3 DEF PortOK, Ephemeral

Explained(n) ==
    \/ \E i \in Asked(n, "listen") : \E j \in Asked(n, "connect") \cup Asked(n, "listen") : j < i
    \/ \E k \in Nodes \ {n} : host[k] = host[n] /\ Asked(k, "listen") # {}

\* A bind that fails has its reason.
LEMMA BindFails ==
    ASSUME TransportInv, NEW n \in Nodes, NEW t, Binds(n, t),
           port[n] # NoPort \/ \E k \in Nodes : host[k] = host[n] /\ port[k] = t.port
    PROVE  Explained(n)
<1>1. ShapeOK /\ QueueOK(n) /\ PortOK(n) /\ Dequeues(n) /\ t = Head(tasks[n]) /\ t.op = "listen"
  BY DEF TransportInv, Binds
<1>2. /\ Done(n) + 1 \in Asked(n, "listen")
      /\ t = asked[n][Done(n) + 1]
      /\ t \in Ask
      /\ Done(n) \in Nat /\ Done(n) + Len(tasks[n]) = Len(asked[n]) /\ Len(tasks[n]) \in Nat
  BY <1>1, RunAsked, HeadAsked, Lengths
<1>3. t.port \in ListenPorts
  BY <1>1, <1>2, AskType DEF Ask
<1>4. CASE port[n] # NoPort
  <2>1. PICK j \in 1 .. Done(n) : asked[n][j].op \in {"listen", "connect"}
    BY <1>1, <1>4 DEF PortOK, Begun
  <2>2. j \in 1 .. Len(asked[n]) /\ j < Done(n) + 1
    <3> DEFINE x == Len(tasks[n])
               y == Len(asked[n])
    <3>1. Done(n) + x = y /\ x \in Nat
      BY <1>2
    <3> HIDE DEF x, y
    <3>2. j \in 1 .. y /\ j < Done(n) + 1
      BY <1>2, <2>1, <3>1
    <3>3. QED
      BY <3>2 DEF y
  <2>3. j \in Asked(n, "connect") \cup Asked(n, "listen")
    BY <2>1, <2>2 DEF Asked
  <2>4. QED
    BY <1>2, <2>2, <2>3 DEF Explained
<1>5. CASE port[n] = NoPort
  <2>1. PICK k \in Nodes : host[k] = host[n] /\ port[k] = t.port
    BY <1>5
  <2>2. Asked(k, "listen") # {} /\ port[k] # NoPort
    BY <1>3, <2>1, ListenPort
  <2>3. QED
    BY <1>5, <2>1, <2>2 DEF Explained
<1>6. QED
  BY <1>4, <1>5

LEMMA BindExplainedStep ==
    ASSUME TransportInv, BindExplained, [Next]_vars
    PROVE  BindExplained'
<1>1. CASE UNCHANGED vars
  BY <1>1 DEF vars, nodeVars, historyVars, BindExplained, Asked
<1>2. CASE Next
  <2>1. PICK m \in Nodes : Step(m)
    BY <1>2 DEF Next
  <2>2. ShapeOK
    BY DEF TransportInv
  <2>3. ASSUME NEW n \in Nodes, failed'[n] = "bind" PROVE Explained(n)
    <3>1. CASE failed[n] = "bind"
      BY <3>1 DEF BindExplained, Explained
    <3>2. CASE failed[n] # "bind"
      <4>1. n = m
        BY <2>1, <2>3, <3>2, AllStay
      <4>2. PICK t : Binds(n, t)
        BY <2>1, <2>2, <2>3, <3>2, <4>1, StepKinds DEF Asks, Makes, Says, Transmits, Drops, Expires, Hears
      <4>3. port[n] # NoPort \/ \E k \in Nodes : host[k] = host[n] /\ port[k] = t.port
        BY <2>3, <3>2, <4>2 DEF Binds
      <4>4. QED
        BY <4>2, <4>3, BindFails
    <3>3. QED
      BY <3>1, <3>2
  <2>4. ASSUME NEW n \in Nodes, Explained(n) PROVE Explained(n)'
    <3>1. /\ \A k \in Nodes : \A op : Asked(k, op) \subseteq Asked(k, op)'
          /\ host' = host
      BY <2>1, AllStay
    <3>2. Asked(n, "listen") \subseteq Asked(n, "listen")' /\ Asked(n, "connect") \subseteq Asked(n, "connect")'
      BY <3>1
    <3>3. \A k \in Nodes : Asked(k, "listen") \subseteq Asked(k, "listen")'
      BY <3>1
    <3>4. QED
      BY <2>4, <3>1, <3>2, <3>3 DEF Explained
  <2>5. QED
    BY <2>3, <2>4 DEF BindExplained, Explained
<1>3. QED
  BY <1>1, <1>2

(***************************************************************************)
(* UdpSocket::bind throws in the worker, and ends the process, only when the *)
(* application asked to listen after it had asked to listen or to connect,   *)
(* or when another node of the host was asked to listen: a socket gets a     *)
(* port in no other way.                                                    *)
(***************************************************************************)
THEOREM BindExplainedHolds == Spec => []BindExplained
<1>1. Init => BindExplained
  BY DEF Init, BindExplained
<1>2. TransportInv /\ BindExplained /\ [Next]_vars => BindExplained'
  BY BindExplainedStep
<1>3. QED
  BY <1>1, <1>2, TransportInvHolds, PTL DEF Spec

-----------------------------------------------------------------------------
(***************************************************************************)
(* What may be sent: a keep alive, or a message with values of its types.   *)
(***************************************************************************)
TypesOf(m) == IF m = KEEP_ALIVE THEN << >> ELSE Schema[m]

Worded(n, m, vs) ==
    \/ m = KEEP_ALIVE /\ vs = << >>
    \/ /\ m \in DOMAIN Schema
       /\ FitsTuple(Layout[platform[n]], Schema[m], vs)
       /\ ~TooLong(m, vs)

LEMMA UintType ==
    ASSUME ShapeOK, NEW n \in Nodes
    PROVE  /\ Layout[platform[n]] \in Platform
           /\ Layout[platform[n]].sizeof["unsigned int"] \in Nat
           /\ 5 * Layout[platform[n]].sizeof["unsigned int"] <= RECV_SIZE
           /\ RECV_SIZE \in Nat
<1>1. platform[n] \in Platforms
  BY DEF ShapeOK
<1>2. Layout[platform[n]] \in Platform
  BY <1>1, TransportAssumption
<1>3. QED
  BY <1>1, <1>2, PlatformType, HeaderAssumption, TransportAssumption

LEMMA HeaderFormat ==
    ASSUME ShapeOK, NEW n \in Nodes, NEW m \in DOMAIN Schema \cup {KEEP_ALIVE}, NEW w \in Windows
    PROVE  /\ HeaderTypes \in Seq(Type) /\ Len(HeaderTypes) = 5
           /\ FitsTuple(Layout[platform[n]], HeaderTypes, Header(m, w))
           /\ PackTuple(Layout[platform[n]], HeaderTypes, Header(m, w)) \in Seq(Byte)
           /\ Len(PackTuple(Layout[platform[n]], HeaderTypes, Header(m, w)))
                  = 5 * Layout[platform[n]].sizeof["unsigned int"]
<1> DEFINE L == Layout[platform[n]]
<1>1. platform[n] \in Platforms /\ L \in Platform
  BY UintType DEF ShapeOK
<1>2. "unsigned int" \in Fundamental /\ Plain("unsigned int") \in Type
  BY DEF Fundamental, Type
<1>3. HeaderTypes \in Seq(Type) /\ Len(HeaderTypes) = 5
  <2>1. HeaderTypes \in [1 .. 5 -> Type]
    BY <1>2 DEF HeaderTypes
  <2>2. QED
    BY <2>1, SeqOfFunction, ZenonT(60)
<1>4. FitsTuple(L, HeaderTypes, Header(m, w))
  BY <1>1, HeaderAssumption
<1> HIDE DEF L
<1>5. PackTuple(L, HeaderTypes, Header(m, w)) \in Seq(Byte)
  BY <1>1, <1>3, <1>4, RoundTrip, SMTT(60)
<1>6. Len(PackTuple(L, HeaderTypes, Header(m, w))) = 5 * L.sizeof["unsigned int"]
  BY <1>1, <1>2, <1>4, PlainTuple DEF HeaderTypes
<1>7. QED
  BY <1>3, <1>4, <1>5, <1>6 DEF L

\* The payload of a message with its values.
LEMMA PayloadFormat ==
    ASSUME ShapeOK, NEW n \in Nodes, NEW m, NEW vs, Worded(n, m, vs), NEW w \in Windows
    PROVE  /\ m \in DOMAIN Schema \cup {KEEP_ALIVE}
           /\ TypesOf(m) \in Seq(Type)
           /\ FitsTuple(Layout[platform[n]], TypesOf(m), vs)
           /\ PackTuple(Layout[platform[n]], TypesOf(m), vs) \in Seq(Byte)
           /\ Payload(n, m, vs, w) =
                  PackTuple(Layout[platform[n]], HeaderTypes, Header(m, w)) \o
                  PackTuple(Layout[platform[n]], TypesOf(m), vs)
           /\ Payload(n, m, vs, w) \in Seq(Byte)
<1> DEFINE L == Layout[platform[n]]
<1>1. L \in Platform
  BY UintType
<1>2. m \in DOMAIN Schema \cup {KEEP_ALIVE}
  BY DEF Worded
<1>3. TypesOf(m) \in Seq(Type) /\ FitsTuple(L, TypesOf(m), vs)
  <2>1. CASE m = KEEP_ALIVE
    <3>1. TypesOf(m) = << >> /\ vs = << >>
      BY <2>1, TransportAssumption DEF Worded, TypesOf
    <3>2. Len(<< >>) = 0 /\ << >> \in Seq(Type)
      BY EmptySeq
    <3>3. << >> = [i \in 1 .. 0 |-> << >>[i]]
      OBVIOUS
    <3>4. QED
      BY <3>1, <3>2, <3>3 DEF FitsTuple
  <2>2. CASE m # KEEP_ALIVE
    BY <2>2, TransportAssumption DEF Worded, TypesOf
  <2>3. QED
    BY <2>1, <2>2
<1> HIDE DEF L
<1>4. PackTuple(L, TypesOf(m), vs) \in Seq(Byte)
  BY <1>1, <1>3, RoundTrip, SMTT(60)
<1>5. PackTuple(L, HeaderTypes, Header(m, w)) \in Seq(Byte)
  BY <1>2, HeaderFormat DEF L
<1>6. Payload(n, m, vs, w) = PackTuple(L, HeaderTypes, Header(m, w)) \o PackTuple(L, TypesOf(m), vs)
  BY DEF Payload, TypesOf, L
<1>7. Payload(n, m, vs, w) \in Seq(Byte)
  BY <1>4, <1>5, <1>6, ConcatType
<1>8. QED
  BY <1>2, <1>3, <1>4, <1>6, <1>7 DEF L

-----------------------------------------------------------------------------
(***************************************************************************)
(* A datagram to a node that has not listened answers one of its own: it     *)
(* comes from where that one was sent to, unless that was INADDR_ANY.       *)
(***************************************************************************)
LEMMA AnswerFrom ==
    ASSUME TransportInv, NEW n \in Nodes, NEW d \in network, d.to = n,
           Asked(n, "listen") = {}, Found(n, d.from) = {}, d.from \notin lost[n]
    PROVE  \E i \in Asked(n, "connect") :
               /\ asked[n][i].name = ""
               /\ d.from = [host |-> LOOPBACK, port |-> asked[n][i].port]
<1>1. /\ ShapeOK
      /\ \A k \in Nodes : PortOK(k) /\ EntryOK(k)
      /\ \A e \in network : FlightOK(e) /\ e.to \in Nodes /\ e.from \in Address /\ e.cause.node \in Nodes
      /\ \A k \in Nodes : Had(k) \subseteq Address
  BY DEF TransportInv, ShapeOK, Had
<1>2. \A k \in Nodes : \A i \in Asked(k, "connect") :
          /\ asked[k][i].name \in Names \cup {""}
          /\ asked[k][i].port \in ListenPorts
  <2>1. SUFFICES ASSUME NEW k \in Nodes, NEW i \in Asked(k, "connect")
                 PROVE  asked[k][i].name \in Names \cup {""} /\ asked[k][i].port \in ListenPorts
    OBVIOUS
  <2>2. asked[k][i] \in Ask /\ asked[k][i].op = "connect"
    BY <1>1, Lengths DEF Asked
  <2>3. PICK m \in Nodes : asked[k][i] \in Calls[m]
    BY <2>2 DEF Ask
  <2>4. QED
    BY <2>2, <2>3, AskType
<1>3. PICK k : k = d.cause.node
  OBVIOUS
<1>4. PICK A \in Had(k) : d.from = Source(k, A, port[k]) /\ n \in Targets(k, A)
  BY <1>1, <1>3 DEF FlightOK
<1>5. port[n] = n
  <2>1. port[n] # NoPort
    BY <1>1 DEF FlightOK
  <2>2. QED
    BY <1>1, <2>1 DEF PortOK, Ephemeral
<1>6. k \in Nodes /\ A.port = n
  BY <1>1, <1>3, <1>4, <1>5 DEF Targets
<1>7. PICK e \in network : e.to = k /\ e.from = A
  <2>1. ASSUME NEW i \in Asked(k, "connect") PROVE A # IpAddress(asked[k][i].name, asked[k][i].port)
    <3>1. IpAddress(asked[k][i].name, asked[k][i].port).port = asked[k][i].port
      BY DEF IpAddress
    <3>2. QED
      BY <1>2, <1>6, <3>1, CallsAssumption
  <2>2. Named(k, A)
    BY <1>1, <1>4, <1>6 DEF EntryOK
  <2>3. QED
    BY <2>1, <2>2 DEF Named
<1>8. PICK s : s = e.cause.node
  OBVIOUS
<1>9. PICK B \in Had(s) : A = Source(s, B, port[s]) /\ k \in Targets(s, B)
  BY <1>1, <1>7, <1>8 DEF FlightOK
<1>10. s = n
  <2>1. s \in Nodes
    BY <1>1, <1>7, <1>8
  <2>2. port[s] = n
    BY <1>6, <1>9 DEF Source
  <2>3. QED
    BY <2>1, <2>2, OwnPort
<1>11. /\ B \in Had(n) /\ B \in Address /\ d.from \in Address
       /\ A = Source(n, B, n)
       /\ k \in Targets(n, B)
  BY <1>1, <1>5, <1>9, <1>10
<1>12. ~(B.host = d.from.host /\ B.port = d.from.port)
  <2>1. CASE B \in lost[n]
    BY <1>11, <2>1 DEF Address
  <2>2. CASE \E q \in DOMAIN peers[n] : B = peers[n][q]
    BY <2>2 DEF Found, Equal
  <2>3. QED
    BY <1>11, <2>1, <2>2 DEF Had
<1>13. d.from.port = B.port
  BY <1>4, <1>11 DEF Source, Targets
<1>14. Local(B)
  <2>1. SUFFICES ASSUME ~Local(B) PROVE FALSE
    OBVIOUS
  <2>2. A.host = host[n] /\ host[n] \in Hosts
    BY <1>1, <1>11, <2>1 DEF Source, ShapeOK
  <2>3. ~Local(A)
    BY <2>2, TransportAssumption DEF Local
  <2>4. d.from.host = host[k]
    BY <1>4, <2>3 DEF Source
  <2>5. host[k] = B.host
    BY <1>11, <2>1 DEF Targets
  <2>6. QED
    BY <1>12, <1>13, <2>4, <2>5
<1>15. A.host = LOOPBACK /\ d.from.host = LOOPBACK
  BY <1>4, <1>11, <1>14 DEF Source, Local
<1>16. B.host = INADDR_ANY
  BY <1>12, <1>13, <1>14, <1>15 DEF Local
<1>17. PICK i \in Asked(n, "connect") : B = IpAddress(asked[n][i].name, asked[n][i].port)
  <2>1. ASSUME NEW f \in network PROVE f.from # B
    <3>1. PICK a : f.from = Source(f.cause.node, a, port[f.cause.node])
      BY <1>1 DEF FlightOK
    <3>2. f.cause.node \in Nodes /\ host[f.cause.node] \in Hosts
      BY <1>1 DEF ShapeOK
    <3>3. f.from.host # INADDR_ANY
      BY <3>1, <3>2, TransportAssumption DEF Source
    <3>4. QED
      BY <1>16, <3>3
  <2>2. Named(n, B)
    BY <1>1, <1>11 DEF EntryOK
  <2>3. QED
    BY <2>1, <2>2 DEF Named
<1>18. /\ asked[n][i].name \in Names \cup {""} /\ Resolve(asked[n][i].name) = INADDR_ANY
       /\ B.port = asked[n][i].port
  BY <1>2, <1>16, <1>17 DEF IpAddress
<1>19. asked[n][i].name = ""
  BY <1>18, ResolveType
<1>20. d.from = [host |-> LOOPBACK, port |-> asked[n][i].port]
  BY <1>11, <1>13, <1>15, <1>18 DEF Address
<1>21. QED
  BY <1>19, <1>20

\* What accounts for a stranger.
Owed(n, a) ==
    \/ a \in lost[n]
    \/ \E i \in Asked(n, "connect") : /\ asked[n][i].name = ""
                                      /\ a = [host |-> LOOPBACK, port |-> asked[n][i].port]

LEMMA AnswersMatchedStep ==
    ASSUME TransportInv, AnswersMatched, [Next]_vars
    PROVE  AnswersMatched'
<1>1. CASE UNCHANGED vars
  <2>1. UNCHANGED <<asked, lost, strangers>>
    BY <1>1 DEF vars, historyVars
  <2>2. \A n, op : Asked(n, op)' = Asked(n, op)
    BY <2>1 DEF Asked
  <2>3. QED
    BY <2>1, <2>2, ZenonT(60) DEF AnswersMatched
<1>2. CASE Next
  <2>1. PICK m \in Nodes : Step(m)
    BY <1>2 DEF Next
  <2>2. ShapeOK
    BY DEF TransportInv
  <2>3. SUFFICES ASSUME NEW n \in Nodes, Asked(n, "listen")' = {}, NEW a \in strangers'[n]
                 PROVE  Owed(n, a)'
    BY DEF AnswersMatched, Owed
  <2>4. /\ Asked(n, "listen") \subseteq Asked(n, "listen")'
        /\ Asked(n, "connect") \subseteq Asked(n, "connect")'
        /\ \A i \in Asked(n, "connect") : asked'[n][i] = asked[n][i]
        /\ lost[n] \subseteq lost'[n]
    BY <2>1, AllStay
  <2>5. Asked(n, "listen") = {}
    BY <2>3, <2>4
  <2>6. Owed(n, a)
    <3>1. CASE a \in strangers[n]
      BY <2>5, <3>1 DEF AnswersMatched, Owed
    <3>2. CASE a \notin strangers[n]
      <4>1. n = m
        BY <2>1, <2>3, <3>2, AllStay
      <4>2. PICK d : Hears(n, d) /\ strangers'[n] # strangers[n]
        BY <2>1, <2>2, <2>3, <3>2, <4>1, StepKinds
           DEF Asks, Binds, Makes, Says, Transmits, Drops, Expires
      <4>3. d \in network /\ d.to = n /\ Found(n, d.from) = {} /\ a = d.from
        BY <2>3, <3>2, <4>2 DEF Hears
      <4>4. QED
        BY <2>5, <4>3, AnswerFrom DEF Owed
    <3>3. QED
      BY <3>1, <3>2
  <2>7. QED
    BY <2>4, <2>6 DEF Owed
<1>3. QED
  BY <1>1, <1>2

(***************************************************************************)
(* A node that has not been asked to listen has no entry but the ones its    *)
(* application connected to, unless such an entry timed out or a host was    *)
(* named by the empty string, whose answers come from the loopback: whoever  *)
(* answers is found by the address that was connected to.                   *)
(***************************************************************************)
THEOREM AnswersMatchedHolds == Spec => []AnswersMatched
<1>1. Init => AnswersMatched
  BY DEF Init, AnswersMatched
<1>2. TransportInv /\ AnswersMatched /\ [Next]_vars => AnswersMatched'
  BY AnswersMatchedStep
<1>3. QED
  BY <1>1, <1>2, TransportInvHolds, PTL DEF Spec

-----------------------------------------------------------------------------
(***************************************************************************)
(* The bytes of a datagram are those of the message that caused it, and what *)
(* an application asks for are its own calls.                               *)
(***************************************************************************)
DataOK(d) ==
    LET c == d.cause
    IN  /\ c.node \in Nodes
        /\ c.window \in Windows
        /\ Worded(c.node, c.msg, c.values)
        /\ d.data = Payload(c.node, c.msg, c.values, c.window)

Deployed == \E d \in Deployments : \A n \in Nodes : platform[n] = d[n].platform

CallOK(n) == \A i \in 1 .. Len(asked[n]) : asked[n][i] \in Calls[n]

ValuesInv ==
    /\ TransportInv
    /\ Deployed /\ DOMAIN called = Nodes
    /\ \A n \in Nodes : CallOK(n)
    /\ \A d \in network : DataOK(d)

\* Two platforms that lay out a message alike, value by value.
LEMMA SameAlike ==
    ASSUME NEW a \in Platform, NEW b \in Platform, NEW m \in DOMAIN Schema, SameLayout(a, b, m)
    PROVE  \A i \in 1 .. Len(Schema[m]) : Alike(b, a, Schema[m][i])
<1>1. SUFFICES ASSUME NEW i \in 1 .. Len(Schema[m]) PROVE Alike(b, a, Schema[m][i])
  OBVIOUS
<1>2. PICK type : type = Schema[m][i]
  OBVIOUS
<1>3. type \in Type
  BY <1>2, TransportAssumption
<1>4. /\ \A t \in Uses(a, type) \cap Uses(b, type) : a.sizeof[t] = b.sizeof[t]
      /\ type.kind = "vector" => a.sizeof[a.size_t] = b.sizeof[b.size_t]
  BY <1>2 DEF SameLayout
<1>5. CASE \E t \in Fundamental : type = Plain(t)
  <2>1. PICK t \in Fundamental : type = Plain(t)
    BY <1>5
  <2>2. type.kind = "plain" /\ type.of = t
    BY <2>1 DEF Plain
  <2>3. Uses(a, type) = {t} /\ Uses(b, type) = {t}
    BY <2>2 DEF Uses
  <2>4. a.sizeof[t] = b.sizeof[t]
    BY <1>4, <2>3
  <2>5. QED
    BY <1>2, <2>2, <2>4 DEF Alike
<1>6. CASE type = String
  <2>1. type.kind = "string"
    BY <1>6 DEF String
  <2>2. Uses(a, type) = {"unsigned int"} /\ Uses(b, type) = {"unsigned int"}
    BY <2>1 DEF Uses
  <2>3. a.sizeof["unsigned int"] = b.sizeof["unsigned int"]
    BY <1>4, <2>2
  <2>4. QED
    BY <1>2, <2>1, <2>3 DEF Alike
<1>7. CASE \E t \in Fundamental : type = Vector(t)
  <2>1. PICK t \in Fundamental : type = Vector(t)
    BY <1>7
  <2>2. type.kind = "vector" /\ type.of = t
    BY <2>1 DEF Vector
  <2>3. t \in Uses(a, type) /\ t \in Uses(b, type)
    BY <2>2 DEF Uses
  <2>4. a.sizeof[t] = b.sizeof[t] /\ a.sizeof[a.size_t] = b.sizeof[b.size_t]
    BY <1>4, <2>2, <2>3
  <2>5. QED
    BY <1>2, <2>2, <2>4 DEF Alike
<1>8. QED
  BY <1>3, <1>5, <1>6, <1>7 DEF Type

\* The header arrives, and if the datagram is whole the payload does.
LEMMA HeaderHeard ==
    ASSUME ShapeOK, NEW n \in Nodes, NEW d, DataOK(d)
    PROVE  \E q \in Seq(Byte) :
               /\ UnpackTuple(Layout[platform[n]], HeaderTypes, Stream(Received(d)), 0)
                      = [values |-> Header(d.cause.msg, d.cause.window), stream |-> Stream(q)]
               /\ Whole(d.cause) =>
                      q = PackTuple(Layout[platform[d.cause.node]], TypesOf(d.cause.msg), d.cause.values)
<1>1. PICK k, m, vs, w : k = d.cause.node /\ m = d.cause.msg /\ vs = d.cause.values /\ w = d.cause.window
  OBVIOUS
<1>2. /\ k \in Nodes /\ w \in Windows /\ Worded(k, m, vs)
      /\ d.data = Payload(k, m, vs, w)
  BY <1>1 DEF DataOK
<1>3. PICK a, b : a = Layout[platform[k]] /\ b = Layout[platform[n]]
  OBVIOUS
<1>4. PICK h, p : h = PackTuple(a, HeaderTypes, Header(m, w)) /\ p = PackTuple(a, TypesOf(m), vs)
  OBVIOUS
<1>5. /\ m \in DOMAIN Schema \cup {KEEP_ALIVE}
      /\ p \in Seq(Byte) /\ d.data = h \o p
  BY <1>2, <1>3, <1>4, PayloadFormat
<1>6. /\ HeaderTypes \in Seq(Type) /\ Len(HeaderTypes) = 5
      /\ FitsTuple(a, HeaderTypes, Header(m, w))
      /\ h \in Seq(Byte) /\ Len(h) = 5 * a.sizeof["unsigned int"]
  BY <1>2, <1>3, <1>4, <1>5, HeaderFormat
<1>7. a \in Platform /\ b \in Platform /\ Len(h) <= RECV_SIZE /\ RECV_SIZE \in Nat
  BY <1>2, <1>3, <1>6, UintType
<1>8. \A i \in 1 .. Len(HeaderTypes) : Alike(a, b, HeaderTypes[i])
  <2>1. platform[k] \in Platforms /\ platform[n] \in Platforms
    BY <1>2 DEF ShapeOK
  <2>2. a.sizeof["unsigned int"] = b.sizeof["unsigned int"]
    BY <1>3, <2>1, HeaderAssumption
  <2>3. \A i \in 1 .. 5 : HeaderTypes[i] = Plain("unsigned int")
    BY DEF HeaderTypes
  <2>4. Alike(a, b, Plain("unsigned int"))
    BY <2>2 DEF Alike, Plain
  <2>5. QED
    BY <1>6, <2>3, <2>4
<1>9. PICK q \in Seq(Byte) : Received(d) = h \o q /\ (Len(d.data) <= RECV_SIZE => q = p)
  <2>1. d.data \in Seq(Byte) /\ Len(d.data) = Len(h) + Len(p)
        /\ Len(d.data) \in Nat /\ Len(h) \in Nat /\ Len(p) \in Nat
    <3>1. h \o p \in Seq(Byte) /\ Len(h \o p) = Len(h) + Len(p)
      BY <1>5, <1>6, ConcatType
    <3>2. Len(h \o p) \in Nat /\ Len(h) \in Nat /\ Len(p) \in Nat
      BY <1>5, <1>6, <3>1, LenProperties
    <3>3. QED
      BY <1>5, <3>1, <3>2
  <2>2. CASE Len(d.data) > RECV_SIZE
    <3>1. Received(d) = SubSeq(h \o p, 1, RECV_SIZE)
      BY <1>5, <2>2 DEF Received
    <3>2. RECV_SIZE <= Len(h \o p)
      BY <1>5, <1>7, <2>1, <2>2
    <3>3. PICK q \in Seq(Byte) : SubSeq(h \o p, 1, RECV_SIZE) = h \o q
      BY <1>5, <1>6, <1>7, <3>2, CutBehind
    <3>4. ~(Len(d.data) <= RECV_SIZE)
      BY <1>7, <2>1, <2>2
    <3>5. QED
      BY <3>1, <3>3, <3>4
  <2>3. CASE ~(Len(d.data) > RECV_SIZE)
    <3>1. Received(d) = SubSeq(d.data, 1, Len(d.data))
      BY <2>3 DEF Received
    <3>2. Received(d) = h \o p
      BY <1>5, <2>1, <3>1, SubSeqFull
    <3>3. QED
      BY <1>5, <3>2
  <2>4. QED
    BY <2>2, <2>3
<1>10. UnpackTuple(b, HeaderTypes, Stream(h \o q), 0) = [values |-> Header(m, w), stream |-> Stream(q)]
  <2>1. 0 \in Nat
    OBVIOUS
  <2>2. PICK types, header : types = HeaderTypes /\ header = Header(m, w)
    OBVIOUS
  <2>3. /\ types \in Seq(Type) /\ FitsTuple(a, types, header)
        /\ \A i \in 1 .. Len(types) : Alike(a, b, types[i])
    BY <1>6, <1>8, <2>2
  <2>4. \A r \in Seq(Byte), junk \in Nat :
            UnpackTuple(b, types, Stream(PackTuple(a, types, header) \o r), junk)
                = [values |-> header, stream |-> Stream(r)]
    BY <1>7, <2>3, RoundTrip, SMTT(60)
  <2>5. QED
    BY <1>4, <2>1, <2>2, <2>4
<1>11. Whole(d.cause) => Len(d.data) <= RECV_SIZE
  BY <1>1, <1>2 DEF Whole
<1>12. QED
  BY <1>1, <1>3, <1>4, <1>9, <1>10, <1>11

\* A message that arrives whole on a platform that lays it out alike.
LEMMA ValuesHeard ==
    ASSUME ShapeOK, NEW n \in Nodes, NEW d, DataOK(d), d.cause.msg \in DOMAIN Schema,
           SameLayout(Layout[platform[n]], Layout[platform[d.cause.node]], d.cause.msg),
           NEW junk \in Junk, NEW q,
           q = PackTuple(Layout[platform[d.cause.node]], TypesOf(d.cause.msg), d.cause.values)
    PROVE  UnpackTuple(Layout[platform[n]], Schema[d.cause.msg], Stream(q), junk).values
               = d.cause.values
<1>1. PICK k, m, vs : k = d.cause.node /\ m = d.cause.msg /\ vs = d.cause.values
  OBVIOUS
<1>2. PICK a, b : a = Layout[platform[k]] /\ b = Layout[platform[n]]
  OBVIOUS
<1>3. k \in Nodes /\ d.cause.window \in Windows /\ Worded(k, m, vs) /\ m \in DOMAIN Schema
  BY <1>1 DEF DataOK
<1>4. TypesOf(m) = Schema[m]
  BY <1>3, TransportAssumption DEF TypesOf
<1>5. /\ Schema[m] \in Seq(Type) /\ FitsTuple(a, Schema[m], vs)
      /\ q = PackTuple(a, Schema[m], vs) /\ q \in Seq(Byte)
  BY <1>1, <1>2, <1>3, <1>4, PayloadFormat
<1>6. a \in Platform /\ b \in Platform
  BY <1>2, <1>3, UintType
<1>7. \A i \in 1 .. Len(Schema[m]) : Alike(a, b, Schema[m][i])
  BY <1>1, <1>2, <1>3, <1>6, SameAlike
<1>8. junk \in Nat /\ << >> \in Seq(Byte) /\ q \o << >> = q
  BY <1>5, ConcatType, TransportAssumption
<1>9. UnpackTuple(b, Schema[m], Stream(q \o << >>), junk) = [values |-> vs, stream |-> Stream(<< >>)]
  <2>1. \A r \in Seq(Byte), j \in Nat :
            UnpackTuple(b, Schema[m], Stream(PackTuple(a, Schema[m], vs) \o r), j)
                = [values |-> vs, stream |-> Stream(r)]
    BY <1>5, <1>6, <1>7, RoundTrip, SMTT(60)
  <2>2. QED
    BY <1>5, <1>8, <2>1
<1>10. QED
  BY <1>1, <1>2, <1>8, <1>9

LEMMA ValuesInit ==
    ASSUME Init
    PROVE  ValuesInv
<1>1. TransportInv
  BY TransportInvInit
<1>2. PICK d \in Deployments : platform = [n \in Nodes |-> d[n].platform]
  BY DEF Init
<1>3. Deployed
  BY <1>2 DEF Deployed
<1>4. ASSUME NEW n \in Nodes PROVE CallOK(n)
  <2>1. asked[n] = << >>
    BY DEF Init
  <2>2. Len(asked[n]) = 0
    BY <2>1
  <2>3. QED
    BY <2>2 DEF CallOK
<1>5. network = {} /\ DOMAIN called = Nodes
  BY DEF Init
<1>6. QED
  BY <1>1, <1>3, <1>4, <1>5 DEF ValuesInv

\* What do_send puts on the way.
LEMMA SentOK ==
    ASSUME NEW n \in Nodes, NEW p, NEW m, NEW vs, Worded(n, m, vs), SocketSend(n, p, m, vs),
           NEW d \in network' \ network
    PROVE  DataOK(d)
<1> DEFINE from == IF port[n] = NoPort THEN Ephemeral(n) ELSE port[n]
           sent(w) == {[to |-> k, from |-> Source(n, peers[n][p], from), data |-> Payload(n, m, vs, w),
                        cause |-> [node |-> n, msg |-> m, values |-> vs, window |-> w]] :
                       k \in Targets(n, peers[n][p])}
<1>1. PICK w \in Windows :
          \/ network' = network
          \/ \E kept \in SUBSET sent(w) : network' = network \cup kept
  BY DEF SocketSend
<1>2. d \in sent(w)
  BY <1>1
<1>3. d.data = Payload(n, m, vs, w) /\ d.cause = [node |-> n, msg |-> m, values |-> vs, window |-> w]
  BY <1>2
<1>4. d.cause.node = n /\ d.cause.msg = m /\ d.cause.values = vs /\ d.cause.window = w
  BY <1>3
<1>5. QED
  BY <1>3, <1>4 DEF DataOK

\* What the application sends has the values of a call.
LEMMA AskedWorded ==
    ASSUME ValuesInv, NEW n \in Nodes, NEW i \in 1 .. Len(asked[n]), asked[n][i].op = "send"
    PROVE  Worded(n, asked[n][i].msg, asked[n][i].values)
<1>1. PICK c : c = asked[n][i]
  OBVIOUS
<1>2. c \in Calls[n] /\ c \in Ask /\ c.op = "send"
  BY <1>1 DEF ValuesInv, CallOK, Ask
<1>3. c.msg \in DOMAIN Schema
  BY <1>2, CallsAssumption
<1>4. PICK d \in Deployments : platform[n] = d[n].platform
  BY DEF ValuesInv, Deployed
<1>5. FitsTuple(Layout[d[n].platform], Schema[c.msg], c.values) /\ ~TooLong(c.msg, c.values)
  BY <1>2, ValuesAssumption
<1>6. QED
  BY <1>1, <1>3, <1>4, <1>5 DEF Worded

\* The task to send that the worker begins was asked for.
LEMMA TaskWorded ==
    ASSUME ValuesInv, NEW n \in Nodes, NEW t, t.op = "send", Dequeue(n, t), UNCHANGED asked
    PROVE  Worded(n, t.msg, t.values)
<1>1. ShapeOK /\ QueueOK(n)
  BY DEF ValuesInv, TransportInv
<1>2. Dequeues(n) /\ t = Head(tasks[n])
  BY <1>1, DequeuesStep
<1>3. t = asked[n][Done(n) + 1] /\ Done(n) + 1 \in 1 .. Len(asked[n])
  BY <1>1, <1>2, HeadAsked
<1>4. QED
  BY <1>3, AskedWorded

LEMMA DataStays ==
    ASSUME NEW d, DataOK(d), UNCHANGED platform
    PROVE  DataOK(d)'
BY DEF DataOK, Worded, Payload

LEMMA ValuesStep ==
    ASSUME ValuesInv, [Next]_vars
    PROVE  ValuesInv'
<1>1. TransportInv'
  BY TransportInvStep DEF ValuesInv
<1>2. CASE UNCHANGED vars
  <2>1. UNCHANGED <<platform, asked, network, called>>
    BY <1>2 DEF vars, nodeVars, historyVars
  <2>2. \A d \in network' : DataOK(d)'
    BY <2>1, DataStays DEF ValuesInv
  <2>3. QED
    BY <1>1, <2>1, <2>2 DEF ValuesInv, Deployed, CallOK
<1>3. CASE Next
  <2>1. PICK n \in Nodes : Step(n)
    BY <1>3 DEF Next
  <2>2. ShapeOK
    BY DEF ValuesInv, TransportInv
  <2>3. platform' = platform
    BY <2>1, AllStay DEF ValuesInv
  <2>4. Deployed'
    BY <2>3 DEF ValuesInv, Deployed
  <2>5. DOMAIN called' = Nodes
    BY <2>1 DEF ValuesInv, Step, Listen, Connect, Send, AppAsks, RunBind, RunConnect, RunSend,
                KeepAlive, Resend, SocketSend, Timeout, HandleIncoming
  <2>6. ASSUME NEW k \in Nodes PROVE CallOK(k)'
    <3>1. CASE asked'[k] = asked[k]
      BY <3>1 DEF ValuesInv, CallOK
    <3>2. CASE asked'[k] # asked[k]
      <4>1. k = n
        BY <2>1, <2>2, <3>2, StepKinds DEF Alone
      <4>2. PICK c : Asks(n, c)
        BY <2>1, <2>2, <3>2, <4>1, StepKinds
           DEF Binds, Makes, Dequeues, Says, Transmits, Drops, Expires, Hears
      <4>3. /\ Len(asked'[n]) = Len(asked[n]) + 1
            /\ \A i \in 1 .. Len(asked[n]) : asked'[n][i] = asked[n][i]
            /\ asked'[n][Len(asked[n]) + 1] = c
            /\ c \in Calls[n] /\ Len(asked[n]) \in Nat
        BY <2>2, <4>2, Added, Lengths DEF Asks
      <4>4. ASSUME NEW i \in 1 .. Len(asked'[n]) PROVE asked'[n][i] \in Calls[n]
        <5> DEFINE x == Len(asked[n])
        <5>1. i \in 1 .. (x + 1) /\ x \in Nat
          BY <4>3
        <5> HIDE DEF x
        <5>2. i \in 1 .. x \/ i = x + 1
          BY <5>1
        <5>3. CASE i = x + 1
          BY <4>3, <5>3 DEF x
        <5>4. CASE i \in 1 .. x
          BY <4>3, <5>4 DEF x, ValuesInv, CallOK
        <5>5. QED
          BY <5>2, <5>3, <5>4
      <4>5. QED
        BY <4>1, <4>4 DEF CallOK
    <3>3. QED
      BY <3>1, <3>2
  <2>7. ASSUME NEW d \in network' PROVE DataOK(d)'
    <3>1. DataOK(d)
      <4>1. CASE d \in network
        BY <4>1 DEF ValuesInv
      <4>2. CASE d \notin network
        <5>1. \/ RunSend(n, Head(tasks[n]))
              \/ \E p : KeepAlive(n, p)
              \/ \E i \in 1 .. Len(asked[n]) : Resend(n, i)
          BY <2>1, <2>7, <4>2 DEF Step, Listen, Connect, Send, AppAsks, RunBind, RunConnect,
                                 Timeout, HandleIncoming
        <5>2. CASE RunSend(n, Head(tasks[n]))
          <6>1. PICK t : t.op = "send" /\ Dequeue(n, t) /\ SocketSend(n, t.peer, t.msg, t.values)
            BY <2>7, <4>2, <5>2 DEF RunSend
          <6>2. UNCHANGED asked
            BY <6>1 DEF SocketSend, historyVars
          <6>3. Worded(n, t.msg, t.values)
            BY <6>1, <6>2, TaskWorded
          <6>4. QED
            BY <2>7, <4>2, <6>1, <6>3, SentOK
        <5>3. CASE \E p : KeepAlive(n, p)
          <6>1. PICK p : SocketSend(n, p, KEEP_ALIVE, << >>)
            BY <5>3 DEF KeepAlive
          <6>2. Worded(n, KEEP_ALIVE, << >>)
            BY DEF Worded
          <6>3. QED
            BY <2>7, <4>2, <6>1, <6>2, SentOK
        <5>4. CASE \E i \in 1 .. Len(asked[n]) : Resend(n, i)
          <6>1. PICK i \in 1 .. Len(asked[n]) :
                    /\ asked[n][i].op = "send"
                    /\ SocketSend(n, asked[n][i].peer, asked[n][i].msg, asked[n][i].values)
            BY <5>4 DEF Resend
          <6>2. Worded(n, asked[n][i].msg, asked[n][i].values)
            BY <6>1, AskedWorded
          <6>3. QED
            BY <2>7, <4>2, <6>1, <6>2, SentOK
        <5>5. QED
          BY <5>1, <5>2, <5>3, <5>4
      <4>3. QED
        BY <4>1, <4>2
    <3>2. QED
      BY <2>3, <3>1, DataStays
  <2>8. QED
    BY <1>1, <2>4, <2>5, <2>6, <2>7 DEF ValuesInv
<1>4. QED
  BY <1>2, <1>3

LEMMA ValuesInvHolds == Spec => []ValuesInv
BY ValuesInit, ValuesStep, PTL DEF Spec

\* A message arrives at n with the values it was sent with.
Arrives(n, c) == SameLayout(Layout[platform[n]], Layout[platform[c.node]], c.msg) /\ Whole(c)

\* What a handler gets, and when the worker cannot make the values for it.
LEMMA Handles ==
    ASSUME ValuesInv, NEW n \in Nodes, NEW d \in network, NEW recived, HandleIncoming(n, d, recived)
    PROVE  /\ UNCHANGED platform
           /\ \/ UNCHANGED <<failed, called>>
              \/ /\ \A k \in Nodes \ {n} : called'[k] = called[k]
                 /\ called'[n].msg = d.cause.msg /\ called'[n].cause = d.cause
                 /\ Arrives(n, d.cause) => called'[n].values = d.cause.values
                 /\ \/ UNCHANGED failed
                    \/ failed' = [failed EXCEPT ![n] = "unpack"] /\ ~Arrives(n, d.cause)
<1>1. ShapeOK /\ DataOK(d) /\ DOMAIN called = Nodes
  BY DEF ValuesInv, TransportInv
<1>2. PICK q \in Seq(Byte) :
          /\ UnpackTuple(Layout[platform[n]], HeaderTypes, Stream(Received(d)), 0)
                 = [values |-> Header(d.cause.msg, d.cause.window), stream |-> Stream(q)]
          /\ Whole(d.cause) =>
                 q = PackTuple(Layout[platform[d.cause.node]], TypesOf(d.cause.msg), d.cause.values)
  BY <1>1, HeaderHeard
<1> DEFINE L      == Layout[platform[n]]
           header == UnpackTuple(L, HeaderTypes, Stream(Received(d)), 0)
           known  == Found(n, d.from)
           p      == IF known # {} THEN CHOOSE x \in known : \A r \in known : x <= r
                     ELSE next_peer_id[n]
           Handed(x, st, junk) ==
               LET got == UnpackTuple(L, Schema[x], st, junk).values
               IN  /\ failed' = IF TooLong(x, got) THEN [failed EXCEPT ![n] = "unpack"]
                                ELSE failed
                   /\ called' = [called EXCEPT ![n] =
                          [peer |-> p, msg |-> x, cause |-> d.cause,
                           values |-> IF TooLong(x, got) THEN << >> ELSE got]]
<1>3. header.values[3] = d.cause.msg /\ header.stream = Stream(q)
  BY <1>2 DEF Header
<1>4. /\ UNCHANGED platform
      /\ IF ~(~recived /\ header.values[3] # KEEP_ALIVE /\ header.values[3] \in DOMAIN Schema)
         THEN UNCHANGED <<failed, called>>
         ELSE \E junk \in Junk : Handed(header.values[3], header.stream, junk)
  BY DEF HandleIncoming
<1> HIDE DEF header, p
<1>5. PICK m : m = d.cause.msg
  OBVIOUS
<1>6. \A junk : Handed(header.values[3], header.stream, junk) <=> Handed(m, Stream(q), junk)
  BY <1>3, <1>5
<1> HIDE DEF Handed
<1>7. \/ UNCHANGED <<failed, called>>
      \/ m \in DOMAIN Schema /\ \E junk \in Junk : Handed(m, Stream(q), junk)
  BY <1>3, <1>5, <1>4, <1>6
<1>8. CASE UNCHANGED <<failed, called>>
  BY <1>4, <1>8
<1>9. CASE ~UNCHANGED <<failed, called>>
  <2>1. m \in DOMAIN Schema
    BY <1>7, <1>9
  <2>2. PICK junk \in Junk : Handed(m, Stream(q), junk)
    BY <1>7, <1>9
  <2>3. PICK got : got = UnpackTuple(Layout[platform[n]], Schema[m], Stream(q), junk).values
    OBVIOUS
  <2>4. /\ failed' = IF TooLong(m, got) THEN [failed EXCEPT ![n] = "unpack"] ELSE failed
        /\ called' = [called EXCEPT ![n] = [peer |-> p, msg |-> m, cause |-> d.cause,
                                            values |-> IF TooLong(m, got) THEN << >> ELSE got]]
    BY <1>5, <2>2, <2>3 DEF Handed
  <2>5. ASSUME Arrives(n, d.cause) PROVE got = d.cause.values /\ ~TooLong(m, got)
    <3>1. /\ SameLayout(Layout[platform[n]], Layout[platform[d.cause.node]], d.cause.msg)
          /\ q = PackTuple(Layout[platform[d.cause.node]], TypesOf(d.cause.msg), d.cause.values)
      BY <1>2, <2>5 DEF Arrives
    <3>2. d.cause.msg \in DOMAIN Schema
      BY <1>5, <2>1
    <3>3. UnpackTuple(Layout[platform[n]], Schema[d.cause.msg], Stream(q), junk).values
              = d.cause.values
      BY <1>1, <3>1, <3>2, ValuesHeard
    <3>4. got = d.cause.values
      BY <1>5, <2>3, <3>3
    <3>5. Worded(d.cause.node, m, got) /\ m # KEEP_ALIVE
      BY <1>1, <1>5, <2>1, <3>4, TransportAssumption DEF DataOK
    <3>6. QED
      BY <3>4, <3>5 DEF Worded
  <2>6. /\ called'[n] = [peer |-> p, msg |-> m, cause |-> d.cause,
                         values |-> IF TooLong(m, got) THEN << >> ELSE got]
        /\ \A k \in Nodes \ {n} : called'[k] = called[k]
    BY <1>1, <2>4
  <2>7. /\ called'[n].msg = m /\ called'[n].cause = d.cause
        /\ called'[n].values = IF TooLong(m, got) THEN << >> ELSE got
    BY <2>6
  <2>8. CASE TooLong(m, got)
    <3>1. ~Arrives(n, d.cause)
      BY <2>5, <2>8
    <3>2. QED
      BY <1>4, <1>5, <2>4, <2>6, <2>7, <2>8, <3>1
  <2>9. CASE ~TooLong(m, got)
    <3>1. UNCHANGED failed /\ called'[n].values = got
      BY <2>4, <2>7, <2>9
    <3>2. QED
      BY <1>4, <1>5, <2>5, <2>6, <2>7, <3>1
  <2>10. QED
    BY <2>8, <2>9
<1>10. QED
  BY <1>8, <1>9

\* Only handle_incoming calls a handler or fails to unpack.
LEMMA OnlyHandles ==
    ASSUME ValuesInv, NEW n \in Nodes, Step(n)
    PROVE  \/ \E d \in network : \E recived \in BOOLEAN : HandleIncoming(n, d, recived)
           \/ /\ UNCHANGED called
              /\ \A k \in Nodes : failed'[k] = "unpack" => failed[k] = "unpack"
<1>1. ShapeOK
  BY DEF ValuesInv, TransportInv
<1>2. CASE \E c \in Calls[n] : Listen(n, c) \/ Connect(n, c) \/ Send(n, c)
  BY <1>2 DEF Listen, Connect, Send, AppAsks
<1>3. CASE RunBind(n, Head(tasks[n])) \/ RunConnect(n, Head(tasks[n]))
  BY <1>1, <1>3 DEF RunBind, RunConnect, ShapeOK
<1>4. CASE \E p, m, vs : SocketSend(n, p, m, vs)
  <2>1. UNCHANGED called /\ (UNCHANGED failed \/ failed' = [failed EXCEPT ![n] = "send"])
    BY <1>4 DEF SocketSend
  <2>2. QED
    BY <1>1, <2>1 DEF ShapeOK
<1>5. CASE RunSend(n, Head(tasks[n]))
  BY <1>4, <1>5 DEF RunSend
<1>6. CASE (\E p : KeepAlive(n, p)) \/ (\E i : Resend(n, i))
  BY <1>4, <1>6 DEF KeepAlive, Resend
<1>7. CASE \E p : Timeout(n, p)
  BY <1>7 DEF Timeout
<1>8. QED
  BY <1>2, <1>3, <1>5, <1>6, <1>7 DEF Step

FaithfulCall(n) == called[n] # NoCall =>
    LET cause == called[n].cause
    IN  /\ called[n].msg = cause.msg
        /\ Arrives(n, cause) => called[n].values = cause.values

LEMMA FaithfulValuesStep ==
    ASSUME ValuesInv, \A n \in Nodes : FaithfulCall(n), [Next]_vars, NEW n \in Nodes
    PROVE  FaithfulCall(n)'
<1>1. CASE UNCHANGED <<platform, called>>
  BY <1>1 DEF FaithfulCall, Arrives, Whole, Payload
<1>2. CASE Next /\ ~UNCHANGED <<platform, called>>
  <2>1. PICK k \in Nodes : Step(k)
    BY <1>2 DEF Next
  <2>2. UNCHANGED platform
    BY <2>1, AllStay DEF ValuesInv
  <2>3. PICK d \in network : \E recived \in BOOLEAN : HandleIncoming(k, d, recived)
    BY <1>2, <2>1, <2>2, OnlyHandles
  <2>4. /\ \A j \in Nodes \ {k} : called'[j] = called[j]
        /\ called'[k].msg = d.cause.msg /\ called'[k].cause = d.cause
        /\ Arrives(k, d.cause) => called'[k].values = d.cause.values
    BY <1>2, <2>2, <2>3, Handles
  <2>5. CASE n # k
    BY <2>2, <2>4, <2>5 DEF FaithfulCall, Arrives, Whole, Payload
  <2>6. CASE n = k
    BY <2>2, <2>4, <2>6 DEF FaithfulCall, Arrives, Whole, Payload
  <2>7. QED
    BY <2>5, <2>6
<1>3. QED
  BY <1>1, <1>2 DEF vars

(***************************************************************************)
(* A handler gets the values that were sent, in every deployment where the   *)
(* two platforms lay out this message alike and the datagram is not cut off. *)
(***************************************************************************)
THEOREM FaithfulValuesHolds == Spec => []FaithfulValues
<1> DEFINE Inv == \A n \in Nodes : FaithfulCall(n)
<1>1. Init => Inv
  BY DEF Init, FaithfulCall
<1>2. ValuesInv /\ Inv /\ [Next]_vars => Inv'
  BY FaithfulValuesStep
<1>3. Inv => FaithfulValues
  BY DEF FaithfulCall, FaithfulValues, Arrives
<1>4. QED
  BY <1>1, <1>2, <1>3, ValuesInvHolds, PTL DEF Spec

UnpackBlamed(n) == failed[n] = "unpack" => ~Arrives(n, called[n].cause)

LEMMA UnpackBlamedStep ==
    ASSUME ValuesInv, \A n \in Nodes : UnpackBlamed(n), [Next]_vars, NEW n \in Nodes
    PROVE  UnpackBlamed(n)'
<1>1. CASE UNCHANGED vars
  BY <1>1 DEF vars, nodeVars, UnpackBlamed, Arrives, Whole, Payload
<1>2. CASE Next
  <2>1. PICK k \in Nodes : Step(k)
    BY <1>2 DEF Next
  <2>2. DOMAIN failed = Nodes
    BY DEF ValuesInv, TransportInv, ShapeOK
  <2>3. UNCHANGED platform
    BY <2>1, AllStay DEF ValuesInv
  <2>4. ASSUME NEW c, Arrives(n, c)' PROVE Arrives(n, c)
    BY <2>3, <2>4 DEF Arrives, Whole, Payload
  <2>5. SUFFICES ASSUME failed'[n] = "unpack" PROVE ~Arrives(n, called'[n].cause)
    BY <2>4 DEF UnpackBlamed
  <2>6. CASE failed[n] = "unpack" /\ called'[n] = called[n]
    BY <2>6 DEF UnpackBlamed
  <2>7. CASE ~(failed[n] = "unpack" /\ called'[n] = called[n])
    <3>1. PICK d \in network, recived \in BOOLEAN : HandleIncoming(k, d, recived)
      BY <2>1, <2>5, <2>7, OnlyHandles
    <3>2. \/ UNCHANGED <<failed, called>>
          \/ /\ \A j \in Nodes \ {k} : called'[j] = called[j]
             /\ called'[k].cause = d.cause
             /\ \/ UNCHANGED failed
                \/ failed' = [failed EXCEPT ![k] = "unpack"] /\ ~Arrives(k, d.cause)
      BY <3>1, Handles
    <3>3. failed[k] = "no"
      BY <3>1 DEF HandleIncoming, Running
    <3>4. n = k
      BY <2>2, <2>5, <2>7, <3>2
    <3>5. QED
      BY <2>2, <2>5, <2>7, <3>2, <3>3, <3>4
  <2>8. QED
    BY <2>6, <2>7
<1>3. QED
  BY <1>1, <1>2

(***************************************************************************)
(* A worker fails to make a string or a vector only of the very message that *)
(* was cut off, or whose sender lays it out differently: the length it reads *)
(* is the one that was sent otherwise.                                      *)
(***************************************************************************)
THEOREM UnpackExplainedHolds == Spec => []UnpackExplained
<1> DEFINE Inv == \A n \in Nodes : UnpackBlamed(n)
<1>1. Init => Inv
  BY DEF Init, UnpackBlamed
<1>2. ValuesInv /\ Inv /\ [Next]_vars => Inv'
  BY UnpackBlamedStep
<1>3. Inv => UnpackExplained
  BY DEF UnpackBlamed, UnpackExplained, Arrives
<1>4. QED
  BY <1>1, <1>2, <1>3, ValuesInvHolds, PTL DEF Spec

(***************************************************************************)
(* The state has its types; in particular what travels are bytes, and no     *)
(* peer id is ever in use that the counter has not handed out.              *)
(***************************************************************************)
THEOREM TypeCorrect == Spec => []TypeOK
<1>1. ValuesInv => TypeOK
  <2>1. SUFFICES ASSUME ValuesInv PROVE TypeOK
    OBVIOUS
  <2>2. ShapeOK
    BY <2>1 DEF ValuesInv, TransportInv
  <2>3. ASSUME NEW d \in network PROVE d.data \in Seq(Byte)
    <3>1. DataOK(d)
      BY <2>1, <2>3 DEF ValuesInv
    <3>2. PICK k, m, vs, w : k = d.cause.node /\ m = d.cause.msg /\ vs = d.cause.values
                             /\ w = d.cause.window
      OBVIOUS
    <3>3. k \in Nodes /\ w \in Windows /\ Worded(k, m, vs) /\ d.data = Payload(k, m, vs, w)
      BY <3>1, <3>2 DEF DataOK
    <3>4. QED
      BY <2>2, <3>3, PayloadFormat
  <2>4. ASSUME NEW n \in Nodes, NEW i \in 1 .. Len(asked[n]) PROVE asked[n][i] \in Ask
    BY <2>2, Lengths
  <2>5. QED
    BY <2>2, <2>3, <2>4 DEF ShapeOK, TypeOK
<1>2. QED
  BY <1>1, ValuesInvHolds, PTL
=============================================================================
