------------------------------ MODULE Dispatch ------------------------------
(***************************************************************************)
(* The two threads of a Node that listens: the worker, which the constructor *)
(* starts, and the application's main thread, which constructs the node,    *)
(* calls run and destroys it.  c9y keeps a queue of closures per thread; the *)
(* callbacks go to the queue of handler_id, which run() rewrites while the    *)
(* worker reads it, except for the disconnect callback, which the worker      *)
(* calls itself.                                                            *)
(*                                                                          *)
(* What a callback does belongs to the application: this module has the      *)
(* actions of the threads around it, and leaves the callback a thread is in  *)
(* (busy) to the module that extends it.                                    *)
(***************************************************************************)
EXTENDS Integers, Sequences

CONSTANTS Addresses,    \* of the other nodes
          MaxPeers,     \* bound: peer ids handed out
          MaxReceived   \* bound: application messages received

ASSUME DispatchAssumption == MaxPeers \in Nat /\ MaxReceived \in Nat

Threads == {"main", "worker"}

VARIABLES
    at,              \* where each thread is
    given,           \* the thread the node was constructed with
    handler_id,      \* "none" until the constructor has set it
    stop_requested,  \* of the worker's stop token
    bound,           \* the socket is bound
    next_peer_id,
    peers,           \* the table: ids in use to addresses
    queue,           \* c9y's queue of each thread
    busy,            \* the callback each thread is in
    received         \* application messages received so far

threadVars == <<at, given, handler_id, stop_requested>>
tableVars  == <<bound, next_peer_id, peers, received>>

MainAt   == {"construct", "setup", "listening", "sync_point", "returned", "destroyed"}
WorkerAt == {"start", "sync_point", "handle_incoming", "accepted", "timeout", "ended"}

\* The closures: of listen, of the callbacks, and of broadcast.
Bind             == [op |-> "bind"]
Connected(p)     == [op |-> "connect", peer |-> p]
Received(p, m)   == [op |-> "message", peer |-> p, msg |-> m]
Broadcast(p, x)  == [op |-> "broadcast", peer |-> p, text |-> x]

Idle == [op |-> "idle"]

ThreadsInit ==
    /\ at = [main |-> "construct", worker |-> "start"]
    /\ given = "none"
    /\ handler_id = "none"
    /\ stop_requested = FALSE
    /\ bound = FALSE
    /\ next_peer_id = 0
    /\ peers = << >>
    /\ queue = [t \in Threads |-> << >>]
    /\ busy = [t \in Threads |-> Idle]
    /\ received = 0

Goto(t, from, to) == at[t] = from /\ at' = [at EXCEPT ![t] = to]

-----------------------------------------------------------------------------
\* Variant: the handler thread is not set before run().
Construct_Unset(h) ==
    /\ Goto("main", "construct", "setup")
    /\ given' = h
    /\ UNCHANGED <<handler_id, stop_requested, tableVars, queue, busy>>

(***************************************************************************)
(* The end of a constructor: the thread of the worker is already running.    *)
(* Without a second argument the handler thread is the worker.              *)
(***************************************************************************)
Construct(h) ==
    /\ Goto("main", "construct", "setup")
    /\ given' = h
    /\ handler_id' = h
    /\ UNCHANGED <<stop_requested, tableVars, queue, busy>>

\* Node::listen
Listen ==
    /\ Goto("main", "setup", "listening")
    /\ queue' = [queue EXCEPT !["worker"] = Append(@, Bind)]
    /\ UNCHANGED <<given, handler_id, stop_requested, tableVars, busy>>

\* The loops of run and of the worker test the stop token before each round.
Test(t) == IF ~stop_requested THEN "sync_point"
           ELSE IF t = "main" THEN "returned" ELSE "ended"

\* Variant: run() forgets an earlier stop().
Run_Restarts ==
    /\ Goto("main", "listening", "sync_point")
    /\ handler_id' = "main"
    /\ stop_requested' = FALSE
    /\ UNCHANGED <<given, tableVars, queue, busy>>

\* Node::run up to its first round.
Run ==
    /\ Goto("main", "listening", Test("main"))
    /\ handler_id' = "main"
    /\ UNCHANGED <<given, stop_requested, tableVars, queue, busy>>

\* The worker's thread comes to its first round.
WorkerStart ==
    /\ Goto("worker", "start", Test("worker"))
    /\ UNCHANGED <<given, handler_id, stop_requested, tableVars, queue, busy>>

\* Node::stop, on any thread, in a callback or not.
Stop ==
    /\ at["main"] # "construct"
    /\ ~stop_requested
    /\ stop_requested' = TRUE
    /\ UNCHANGED <<at, given, handler_id, tableVars, queue, busy>>

\* The destructor waits for the worker; a stop was requested, or run would not return.
Destroy ==
    /\ at["worker"] = "ended"
    /\ Goto("main", "returned", "destroyed")
    /\ UNCHANGED <<given, handler_id, stop_requested, tableVars, queue, busy>>

-----------------------------------------------------------------------------
\* A thread in c9y::sync_point takes the closure k from its queue.
Take(t, k) ==
    /\ at[t] = "sync_point"
    /\ busy[t] = Idle
    /\ queue[t] # << >>
    /\ k = Head(queue[t])
    /\ queue' = [queue EXCEPT ![t] = Tail(@)]
    /\ UNCHANGED threadVars

(***************************************************************************)
(* The end of a sync_point.  How much of the queue one sync_point runs is    *)
(* left open: what is queued meanwhile may wait for the next one.           *)
(***************************************************************************)
Leave(t, to) ==
    /\ busy[t] = Idle
    /\ Goto(t, "sync_point", to)
    /\ UNCHANGED <<given, handler_id, stop_requested, tableVars, queue, busy>>

\* The closure of listen.
RunBind ==
    /\ Take("worker", Bind)
    /\ bound' = TRUE
    /\ UNCHANGED <<next_peer_id, peers, received, busy>>

\* The closure of the connect callback, which only writes a log.
RunConnected(t, p) ==
    /\ Take(t, Connected(p))
    /\ UNCHANGED <<tableVars, busy>>

\* Variant: message callbacks stay with the worker.
Post_Worker(closures) ==
    queue' = [t \in Threads |-> queue[t] \o
        SelectSeq(closures, LAMBDA k : t = IF k.op = "message" THEN "worker" ELSE handler_id)]

\* c9y::sync to handler_id.
Post(closures) ==
    queue' = [t \in Threads |-> IF t = handler_id THEN queue[t] \o closures ELSE queue[t]]

\* Variant: the id is handed out and not counted.
NextId_Kept(p) == p

\* next_peer_id++
NextId(p) == p + 1

Found(a) == {p \in DOMAIN peers : peers[p] = a}

(***************************************************************************)
(* handle_incoming of a datagram from the address a, which has no entry: the *)
(* entry p it makes, and the closure of the connect callback.  handler_id is *)
(* read here and once more for the message, and run() may write it in        *)
(* between: what is left of the call is Deliver.                            *)
(***************************************************************************)
Accept(a, p) ==
    /\ bound
    /\ Found(a) = {}
    /\ p = next_peer_id
    /\ p < MaxPeers
    /\ received < MaxReceived
    /\ Goto("worker", "handle_incoming", "accepted")
    /\ next_peer_id' = NextId(p)
    /\ peers' = [q \in DOMAIN peers \cup {p} |-> IF q = p THEN a ELSE peers[q]]
    /\ received' = received + 1
    /\ Post(<<Connected(p)>>)
    /\ UNCHANGED <<given, handler_id, stop_requested, bound, busy>>

(***************************************************************************)
(* handle_incoming of a datagram from the address a of the entry p: ms is    *)
(* the message it hands over, or nothing.  A keep alive or a duplicate from   *)
(* a known address changes nothing here.                                    *)
(***************************************************************************)
Deliver(a, ms, p) ==
    /\ p \in Found(a)
    /\ \/ /\ at["worker"] = "handle_incoming"
          /\ ms # << >>
          /\ received < MaxReceived
          /\ received' = received + 1
          /\ UNCHANGED at
       \/ /\ Goto("worker", "accepted", "handle_incoming")
          /\ p = next_peer_id - 1
          /\ UNCHANGED received
    /\ Post([i \in 1 .. Len(ms) |-> Received(p, ms[i])])
    /\ UNCHANGED <<given, handler_id, stop_requested, bound, next_peer_id, peers, busy>>

\* recive finds nothing.
IncomingDone ==
    /\ Goto("worker", "handle_incoming", "timeout")
    /\ UNCHANGED <<given, handler_id, stop_requested, tableVars, queue, busy>>

\* timeout finds no further entry, and the round ends.
TimeoutDone ==
    /\ busy["worker"] = Idle
    /\ Goto("worker", "timeout", Test("worker"))
    /\ UNCHANGED <<given, handler_id, stop_requested, tableVars, queue, busy>>

-----------------------------------------------------------------------------
\* The steps of a thread between closures and callbacks.
Proceed(t) ==
    \/ /\ t = "main"
       /\ \/ Construct("worker") \/ Construct("main")
          \/ Listen
          \/ Run
          \/ Leave("main", Test("main"))
          \/ Destroy
    \/ /\ t = "worker"
       /\ \/ WorkerStart
          \/ Leave("worker", "handle_incoming")
          \/ IncomingDone
          \/ TimeoutDone
=============================================================================
