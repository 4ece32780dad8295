-------------------------------- MODULE Chat --------------------------------
(***************************************************************************)
(* The chat example: the callbacks of ChatServer on the threads of Dispatch, *)
(* and what ChatClients send.  A message stands for its kind.               *)
(*                                                                          *)
(* A callback is a lookup in users and a script of what it does after that;  *)
(* the other thread may run between any two steps of it.  The lookups and    *)
(* changes of the std::map are taken as whole, although two threads that     *)
(* make them at the same time race.                                         *)
(***************************************************************************)
EXTENDS Dispatch, FiniteSets

VARIABLES
    users,      \* ChatServer::users, the peer ids in it
    said,       \* what was broadcast about each peer, in order
    outbox,     \* what the client at each address has sent
    overtaken,  \* history: peers with a callback that passed an earlier one
    greeted     \* history: peers whose connect callback has run

historyVars == <<overtaken, greeted>>
serverVars  == <<users, said, historyVars>>
vars == <<threadVars, tableVars, queue, busy, serverVars, outbox>>

Kinds == {"join", "chat"}
Texts == {"joined", "line", "left"}
Ids   == 0 .. (MaxPeers - 1)

Closure  == {Bind} \cup {Connected(p) : p \in Ids}
                   \cup {Received(p, m) : p \in Ids, m \in Kinds}
                   \cup {Broadcast(p, x) : p \in Ids, x \in Texts}
Callback == {Idle} \cup [op : Kinds \cup {"disconnect"}, peer : Ids,
                         todo : Seq(Texts \cup {"insert", "erase"})]

TypeOK ==
    /\ DOMAIN at = Threads /\ at["main"] \in MainAt /\ at["worker"] \in WorkerAt
    /\ {given, handler_id} \subseteq Threads \cup {"none"}
    /\ stop_requested \in BOOLEAN
    /\ bound \in BOOLEAN
    /\ next_peer_id \in 0 .. MaxPeers
    /\ DOMAIN peers \subseteq 0 .. (next_peer_id - 1)
    /\ \A p \in DOMAIN peers : peers[p] \in Addresses
    /\ queue \in [Threads -> Seq(Closure)]
    /\ busy \in [Threads -> Callback]
    /\ received \in 0 .. MaxReceived
    /\ users \subseteq 0 .. (next_peer_id - 1)
    /\ said \in [Ids -> Seq(Texts)]
    /\ outbox \in [Addresses -> SUBSET Kinds]
    /\ overtaken \subseteq Ids
    /\ greeted \subseteq Ids

Init ==
    /\ ThreadsInit
    /\ users = {}
    /\ said = [p \in Ids |-> << >>]
    /\ outbox = [a \in Addresses |-> {}]
    /\ overtaken = {}
    /\ greeted = {}

-----------------------------------------------------------------------------
\* Where callbacks of the peer p wait or run.
Pending(p) ==
    {t \in Threads :
        \/ \E i \in 1 .. Len(queue[t]) : queue[t][i].op = "message" /\ queue[t][i].peer = p
        \/ busy[t] # Idle /\ busy[t].peer = p}

\* Variant: the README's callbacks, "with some error handling omitted".
Script_Unchecked(op, known) ==
    CASE op = "join"       -> <<"insert", "joined">>
      [] op = "chat"       -> <<"line">>
      [] op = "disconnect" -> IF known THEN <<"left", "erase">> ELSE << >>

\* Variant: a user that disconnects is announced and kept.
Script_Kept(op, known) ==
    CASE op = "join"       -> IF known THEN << >> ELSE <<"insert", "joined">>
      [] op = "chat"       -> IF known THEN <<"line">> ELSE << >>
      [] op = "disconnect" -> IF known THEN <<"left">> ELSE << >>

\* What a callback does after it has looked the peer up.
Script(op, known) ==
    CASE op = "join"       -> IF known THEN << >> ELSE <<"insert", "joined">>
      [] op = "chat"       -> IF known THEN <<"line">> ELSE << >>
      [] op = "disconnect" -> IF known THEN <<"left", "erase">> ELSE << >>

Start(t, op, p) ==
    busy' = [busy EXCEPT ![t] = [op |-> op, peer |-> p, todo |-> Script(op, p \in users)]]

\* A thread takes a message callback from its queue and looks the peer up.
RunReceived(t, p, m) ==
    /\ Take(t, Received(p, m))
    /\ Start(t, m, p)
    /\ UNCHANGED <<tableVars, serverVars, outbox>>

(***************************************************************************)
(* timeout of the entry p: the worker calls the disconnect callback, which   *)
(* overtakes what is pending for p.                                         *)
(***************************************************************************)
Timeout(p) ==
    /\ at["worker"] = "timeout"
    /\ busy["worker"] = Idle
    /\ p \in DOMAIN peers
    /\ Start("worker", "disconnect", p)
    /\ overtaken' = IF Pending(p) # {} THEN overtaken \cup {p} ELSE overtaken
    /\ UNCHANGED <<threadVars, tableVars, queue, users, said, outbox, greeted>>

\* The thread t is in a callback about p and goes on with the step x of it.
Do(t, p, x) ==
    /\ busy[t] # Idle
    /\ busy[t].peer = p
    /\ busy[t].todo # << >>
    /\ Head(busy[t].todo) = x
    /\ busy' = [busy EXCEPT ![t].todo = Tail(@)]
    /\ UNCHANGED <<threadVars, tableVars, said, outbox, historyVars>>

Insert(t, p) ==
    /\ Do(t, p, "insert")
    /\ users' = users \cup {p}
    /\ UNCHANGED queue

Erase(t, p) ==
    /\ Do(t, p, "erase")
    /\ users' = users \ {p}
    /\ UNCHANGED queue

\* Variant: the task goes to the thread that broadcasts.
Say_OwnThread(t, p, x) ==
    /\ x \in Texts
    /\ Do(t, p, x)
    /\ queue' = [queue EXCEPT ![t] = Append(@, Broadcast(p, x))]
    /\ UNCHANGED users

\* node.broadcast<ServerMessage>, a task for the worker.
Say(t, p, x) ==
    /\ x \in Texts
    /\ Do(t, p, x)
    /\ queue' = [queue EXCEPT !["worker"] = Append(@, Broadcast(p, x))]
    /\ UNCHANGED users

\* The callback returns; after the disconnect callback the entry is erased.
Return(t) ==
    /\ busy[t] # Idle
    /\ busy[t].todo = << >>
    /\ busy' = [busy EXCEPT ![t] = Idle]
    /\ peers' = IF busy[t].op = "disconnect"
                THEN [q \in DOMAIN peers \ {busy[t].peer} |-> peers[q]] ELSE peers
    /\ UNCHANGED <<threadVars, bound, next_peer_id, received, queue, serverVars, outbox>>

\* do_broadcast sends to all entries of the table.
RunBroadcast(p, x) ==
    /\ Take("worker", Broadcast(p, x))
    /\ said' = [said EXCEPT ![p] = Append(@, x)]
    /\ UNCHANGED <<tableVars, busy, users, outbox, historyVars>>

\* The connect callback, which only writes a log.
Greet(t, p) ==
    /\ RunConnected(t, p)
    /\ greeted' = greeted \cup {p}
    /\ UNCHANGED <<users, said, outbox, overtaken>>

-----------------------------------------------------------------------------
\* ChatClient::run connects and joins, then sends the lines it reads.
ClientRun(a) ==
    /\ outbox[a] = {}
    /\ outbox' = [outbox EXCEPT ![a] = {"join"}]
    /\ UNCHANGED <<threadVars, tableVars, queue, busy, serverVars>>

ClientLine(a) ==
    /\ outbox[a] = {"join"}
    /\ outbox' = [outbox EXCEPT ![a] = @ \cup {"chat"}]
    /\ UNCHANGED <<threadVars, tableVars, queue, busy, serverVars>>

\* The first datagram that arrives from the client at a, whichever it is.
Arrive(a, p) ==
    /\ outbox[a] # {}
    /\ Accept(a, p)
    /\ UNCHANGED <<serverVars, outbox>>

(***************************************************************************)
(* The message of a datagram of the client, in any order and also again:     *)
(* numbers start over when the server has lost the entry.  That a client     *)
(* may send between Arrive and this step is no matter: it might as well have *)
(* sent before.                                                             *)
(***************************************************************************)
Hand(a, ms, p) ==
    /\ \A i \in 1 .. Len(ms) : ms[i] \in outbox[a]
    /\ Deliver(a, ms, p)
    /\ overtaken' = IF ms # << >> /\ Pending(p) \ {handler_id} # {}
                    THEN overtaken \cup {p} ELSE overtaken
    /\ UNCHANGED <<users, said, outbox, greeted>>

Messages == {<< >>} \cup {<<m>> : m \in Kinds}

\* handle_incoming goes on after it has accepted a peer.
Resume ==
    /\ at["worker"] = "accepted"
    /\ \E a \in Addresses, ms \in Messages, p \in Ids : Hand(a, ms, p)

\* A thread goes on with its loop, or with the call or callback it is in.
Continue(t) ==
    \/ Proceed(t) /\ UNCHANGED <<serverVars, outbox>>
    \/ \E p \in Ids :
           \/ Insert(t, p)
           \/ Erase(t, p)
           \/ \E x \in Texts : Say(t, p, x)
    \/ Return(t)
    \/ t = "worker" /\ Resume

\* A thread goes on with the closures in its queue.
Execute(t) ==
    \/ \E p \in Ids, m \in Kinds : RunReceived(t, p, m)
    \/ t = "worker" /\ \E p \in Ids, x \in Texts : RunBroadcast(p, x)
    \/ t = "worker" /\ RunBind /\ UNCHANGED <<serverVars, outbox>>
    \/ \E p \in Ids : Greet(t, p)

Next ==
    \/ Stop /\ UNCHANGED <<serverVars, outbox>>
    \/ \E t \in Threads : Continue(t) \/ Execute(t)
    \/ \E p \in Ids : Timeout(p)
    \/ \E a \in Addresses : ClientRun(a) \/ ClientLine(a)
    \/ \E a \in Addresses, p \in Ids : Arrive(a, p)
    \/ \E a \in Addresses, ms \in Messages, p \in Ids : Hand(a, ms, p)

Spec == Init /\ [][Next]_vars

(***************************************************************************)
(* Fairness.  Both threads are scheduled, calls return, and a sync_point that *)
(* finds closures in the queue runs them.  Nothing has to arrive, and nobody *)
(* has to stop the node or to time out.                                     *)
(***************************************************************************)
Fairness == \A t \in Threads : WF_vars(Continue(t)) /\ SF_vars(Execute(t))

FairSpec == Spec /\ Fairness

-----------------------------------------------------------------------------
(***************************************************************************)
(* A peer that has disconnected stays in users only if its disconnect        *)
(* callback overtook a callback of it: the join that comes later adds a user *)
(* that nobody will remove.                                                 *)
(***************************************************************************)
GhostExplained ==
    \A p \in users : p \in DOMAIN peers \/ p \in overtaken

\* Joined first and once, left last.
WellFormed(s) ==
    \A i \in 1 .. Len(s) : /\ (i = 1) <=> (s[i] = "joined")
                           /\ s[i] = "left" => i = Len(s)

(***************************************************************************)
(* What the chatters are told of a peer, on whichever threads its callbacks  *)
(* ran, is in order unless one of them overtook another.                    *)
(***************************************************************************)
AnnouncedInOrder == \A p \in Ids \ overtaken : WellFormed(said[p])

(***************************************************************************)
(* A peer is announced to on_connect before its messages are handed over,    *)
(* with one exception: when run() takes over from the worker of a node that  *)
(* was constructed without a thread, the connect callback may still wait for *)
(* the worker while a message of the peer already runs on the main thread.   *)
(***************************************************************************)
ConnectFirst ==
    \A t \in Threads : busy[t] # Idle /\ busy[t].op \in Kinds =>
        \/ busy[t].peer \in greeted
        \/ /\ given = "worker" /\ t = "main"
           /\ \E i \in 1 .. Len(queue["worker"]) : queue["worker"][i] = Connected(busy[t].peer)

(***************************************************************************)
(* Callbacks run on the thread that run() named, or on the worker when they  *)
(* were queued before run() took over from it; only the disconnect callback  *)
(* is always the worker's.  A node constructed with the thread that calls    *)
(* run() has no other callback to race with.                                *)
(***************************************************************************)
OnHandlerThread ==
    \A t \in Threads : busy[t] # Idle =>
        \/ t = handler_id
        \/ t = "worker" /\ (given = "worker" \/ busy[t].op = "disconnect")

\* A node has a handler thread before it can receive anything.
HandlerKnown == bound \/ DOMAIN peers # {} => handler_id # "none"

\* A join that was received is announced, unless the peer or the node ends.
JoinAnnounced ==
    \A p \in Ids :
        (\E t \in Threads : \E i \in 1 .. Len(queue[t]) : queue[t][i] = Received(p, "join"))
            ~> ("joined" \in {said[p][i] : i \in 1 .. Len(said[p])}
                \/ p \notin DOMAIN peers \/ stop_requested)

\* A node that is stopped, at any time, returns from run and can be destroyed.
Quits == stop_requested ~> at["main"] = "destroyed"
=============================================================================
