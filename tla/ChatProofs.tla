----------------------------- MODULE ChatProofs -----------------------------
(***************************************************************************)
(* Theorems about the chat server on the threads of Dispatch, for every set  *)
(* of addresses and every bound.                                            *)
(***************************************************************************)
EXTENDS Chat, TLAPS

-----------------------------------------------------------------------------
(***************************************************************************)
(* What a queue holds after each of the things that happen to one.          *)
(***************************************************************************)
Has(q, k) == \E i \in 1 .. Len(q) : q[i] = k

LEMMA HasNone == \A k : ~Has(<< >>, k)
BY DEF Has

LEMMA HasOne ==
    ASSUME NEW e, NEW k
    PROVE  Has(<<e>>, k) <=> k = e
<1>1. Len(<<e>>) = 1 /\ <<e>>[1] = e
  OBVIOUS
<1>2. QED
  BY <1>1 DEF Has

\* The closure that is appended is added to what a queue holds.
LEMMA HasAppend ==
    ASSUME NEW S, NEW q \in Seq(S), NEW e, NEW k
    PROVE  Has(Append(q, e), k) <=> (Has(q, k) \/ k = e)
<1> DEFINE r == Append(q, e)
<1>1. /\ Len(q) \in Nat
      /\ Len(r) = Len(q) + 1
      /\ \A i \in 1 .. Len(q) : r[i] = q[i]
      /\ r[Len(q) + 1] = e
  OBVIOUS
<1> HIDE DEF r
<1>2. 1 .. Len(r) = (1 .. Len(q)) \cup {Len(q) + 1}
  BY <1>1
<1>3. Has(r, k) <=> (Has(q, k) \/ k = e)
  BY <1>1, <1>2 DEF Has
<1>4. QED
  BY <1>3 DEF r

\* The closure that is taken is the only one a queue may lose.
LEMMA HasTail ==
    ASSUME NEW S, NEW q \in Seq(S), q # << >>, NEW k
    PROVE  Has(q, k) <=> (Has(Tail(q), k) \/ k = Head(q))
<1> DEFINE r == Tail(q)
<1>1. /\ Len(q) \in Nat \ {0}
      /\ Len(r) = Len(q) - 1
      /\ \A i \in 1 .. Len(r) : r[i] = q[i + 1]
      /\ Head(q) = q[1]
  OBVIOUS
<1> HIDE DEF r
<1>2. ASSUME Has(q, k) PROVE Has(r, k) \/ k = Head(q)
  <2>1. PICK i \in 1 .. Len(q) : q[i] = k
    BY <1>2 DEF Has
  <2>2. CASE i = 1
    BY <1>1, <2>1, <2>2
  <2>3. CASE i # 1
    <3>1. i - 1 \in 1 .. Len(r) /\ (i - 1) + 1 = i
      BY <1>1, <2>1, <2>3
    <3>2. QED
      BY <1>1, <2>1, <3>1 DEF Has
  <2>4. QED
    BY <2>2, <2>3
<1>3. ASSUME Has(r, k) PROVE Has(q, k)
  <2>1. PICK i \in 1 .. Len(r) : r[i] = k
    BY <1>3 DEF Has
  <2>2. i + 1 \in 1 .. Len(q)
    BY <1>1, <2>1
  <2>3. QED
    BY <1>1, <2>1, <2>2 DEF Has
<1>4. ASSUME k = Head(q) PROVE Has(q, k)
  BY <1>1, <1>4 DEF Has
<1>5. QED
  BY <1>2, <1>3, <1>4 DEF r

\* Closures that are queued together are added to what a queue holds.
LEMMA HasConcat ==
    ASSUME NEW S, NEW q \in Seq(S), NEW r \in Seq(S), NEW k
    PROVE  Has(q \o r, k) <=> (Has(q, k) \/ Has(r, k))
<1> DEFINE s == q \o r
<1>1. /\ Len(q) \in Nat /\ Len(r) \in Nat
      /\ Len(s) = Len(q) + Len(r)
      /\ \A i \in 1 .. Len(q) : s[i] = q[i]
      /\ \A i \in 1 .. Len(s) : i > Len(q) => s[i] = r[i - Len(q)]
  OBVIOUS
<1> HIDE DEF s
<1>2. ASSUME Has(s, k) PROVE Has(q, k) \/ Has(r, k)
  <2>1. PICK i \in 1 .. Len(s) : s[i] = k
    BY <1>2 DEF Has
  <2>2. CASE i \in 1 .. Len(q)
    BY <1>1, <2>1, <2>2 DEF Has
  <2>3. CASE i > Len(q)
    <3>1. i - Len(q) \in 1 .. Len(r)
      BY <1>1, <2>1, <2>3
    <3>2. QED
      BY <1>1, <2>1, <2>3, <3>1 DEF Has
  <2>4. QED
    BY <1>1, <2>1, <2>2, <2>3
<1>3. ASSUME Has(q, k) PROVE Has(s, k)
  <2>1. PICK i \in 1 .. Len(q) : q[i] = k
    BY <1>3 DEF Has
  <2>2. i \in 1 .. Len(s)
    BY <1>1, <2>1
  <2>3. QED
    BY <1>1, <2>1, <2>2 DEF Has
<1>4. ASSUME Has(r, k) PROVE Has(s, k)
  <2>1. PICK i \in 1 .. Len(r) : r[i] = k
    BY <1>4 DEF Has
  <2>2. i + Len(q) \in 1 .. Len(s) /\ i + Len(q) > Len(q) /\ (i + Len(q)) - Len(q) = i
    BY <1>1, <2>1
  <2>3. s[i + Len(q)] = k
    BY <1>1, <2>1, <2>2
  <2>4. QED
    BY <2>2, <2>3 DEF Has
<1>5. QED
  BY <1>2, <1>3, <1>4 DEF s

\* What the queue of the thread t holds.
Held(t, k) == Has(queue[t], k)

\* The closures that handle_incoming queues.
Posted(known, p, ms) ==
    (IF known THEN << >> ELSE <<Connected(p)>>) \o [i \in 1 .. Len(ms) |-> Received(p, ms[i])]

\* They are the connect callback of a new entry and the message, if there is one.
LEMMA PostedHas ==
    ASSUME NEW p \in Ids, NEW ms \in Messages, NEW known \in BOOLEAN, NEW k
    PROVE  /\ Posted(known, p, ms) \in Seq(Closure)
           /\ Has(Posted(known, p, ms), k) <=>
                  \/ ~known /\ k = Connected(p)
                  \/ \E m \in Kinds : ms = <<m>> /\ k = Received(p, m)
<1> DEFINE first == IF known THEN << >> ELSE <<Connected(p)>>
           last  == [i \in 1 .. Len(ms) |-> Received(p, ms[i])]
<1>1. Connected(p) \in Closure /\ \A m \in Kinds : Received(p, m) \in Closure
  BY DEF Closure
<1>2. /\ first \in Seq(Closure)
      /\ Has(first, k) <=> (~known /\ k = Connected(p))
  <2>1. CASE known
    BY <2>1, HasNone
  <2>2. CASE ~known
    BY <1>1, <2>2, HasOne
  <2>3. QED
    BY <2>1, <2>2
<1>3. /\ last \in Seq(Closure)
      /\ Has(last, k) <=> \E m \in Kinds : ms = <<m>> /\ k = Received(p, m)
  <2>1. CASE ms = << >>
    <3>1. last = << >> /\ \A m \in Kinds : ms # <<m>>
      BY <2>1
    <3>2. QED
      BY <3>1, HasNone
  <2>2. ASSUME NEW m \in Kinds, ms = <<m>>
        PROVE  /\ last \in Seq(Closure)
               /\ Has(last, k) <=> \E x \in Kinds : ms = <<x>> /\ k = Received(p, x)
    <3>1. Len(ms) = 1 /\ ms[1] = m
      BY <2>2
    <3>2. last = <<Received(p, m)>>
      BY <3>1
    <3>3. \A x \in Kinds : ms = <<x>> => x = m
      BY <3>1
    <3>4. Has(last, k) <=> k = Received(p, m)
      <4> HIDE DEF last
      <4>1. QED
        BY <3>2, HasOne
    <3>5. last \in Seq(Closure)
      <4>1. Received(p, m) \in Closure
        BY <1>1
      <4> HIDE DEF last
      <4>2. QED
        BY <3>2, <4>1
    <3> HIDE DEF last
    <3>6. QED
      BY <2>2, <3>3, <3>4, <3>5
  <2>3. QED
    BY <2>1, <2>2 DEF Messages
<1>4. Posted(known, p, ms) = first \o last
  BY DEF Posted
<1> HIDE DEF first, last
<1>5. QED
  BY <1>2, <1>3, <1>4, HasConcat

\* A thread takes the first closure of its queue, and the others stay.
LEMMA Taken ==
    ASSUME TypeOK, NEW t \in Threads, NEW k, Take(t, k)
    PROVE  /\ k \in Closure
           /\ queue' \in [Threads -> Seq(Closure)]
           /\ \A u \in Threads : \A j : Held(u, j) <=> (Held(u, j)' \/ (u = t /\ j = k))
<1>1. /\ queue[t] # << >>
      /\ k = Head(queue[t])
      /\ queue' = [queue EXCEPT ![t] = Tail(queue[t])]
  BY DEF Take
<1>2. queue \in [Threads -> Seq(Closure)]
  BY DEF TypeOK
<1>3. queue[t] \in Seq(Closure)
  BY <1>2
<1>4. k \in Closure /\ Tail(queue[t]) \in Seq(Closure)
  BY <1>1, <1>3
<1>5. \A j : Has(queue[t], j) <=> (Has(Tail(queue[t]), j) \/ j = k)
  BY <1>1, <1>3, HasTail
<1>6. queue' \in [Threads -> Seq(Closure)]
  BY <1>1, <1>2, <1>4
<1>7. \A u \in Threads : queue'[u] = IF u = t THEN Tail(queue[t]) ELSE queue[u]
  BY <1>1, <1>2
<1>8. QED
  BY <1>4, <1>5, <1>6, <1>7 DEF Held

\* A closure for the worker is added to its queue.
LEMMA Appended ==
    ASSUME TypeOK, NEW k \in Closure,
           queue' = [queue EXCEPT !["worker"] = Append(@, k)]
    PROVE  /\ queue' \in [Threads -> Seq(Closure)]
           /\ \A u \in Threads : \A j : Held(u, j)' <=> (Held(u, j) \/ (u = "worker" /\ j = k))
<1>1. queue \in [Threads -> Seq(Closure)] /\ "worker" \in Threads
  BY DEF TypeOK, Threads
<1>2. queue["worker"] \in Seq(Closure)
  BY <1>1
<1>3. \A j : Has(Append(queue["worker"], k), j) <=> (Has(queue["worker"], j) \/ j = k)
  BY <1>2, HasAppend
<1>4. Append(queue["worker"], k) \in Seq(Closure)
  BY <1>2
<1>5. \A u \in Threads : queue'[u] = IF u = "worker" THEN Append(queue["worker"], k) ELSE queue[u]
  BY <1>1
<1>6. QED
  BY <1>1, <1>3, <1>4, <1>5 DEF Held

\* Callbacks are added to the queue of the handler thread.
LEMMA PostAdds ==
    ASSUME TypeOK, NEW p \in Ids, NEW ms \in Messages, NEW known \in BOOLEAN,
           Post(Posted(known, p, ms))
    PROVE  /\ queue' \in [Threads -> Seq(Closure)]
           /\ \A u \in Threads : \A j : Held(u, j)' <=>
                  \/ Held(u, j)
                  \/ /\ u = handler_id
                     /\ \/ ~known /\ j = Connected(p)
                        \/ \E m \in Kinds : ms = <<m>> /\ j = Received(p, m)
<1> DEFINE new == Posted(known, p, ms)
<1>1. /\ new \in Seq(Closure)
      /\ \A j : Has(new, j) <=> \/ ~known /\ j = Connected(p)
                                \/ \E m \in Kinds : ms = <<m>> /\ j = Received(p, m)
  BY PostedHas
<1>2. queue \in [Threads -> Seq(Closure)]
  BY DEF TypeOK
<1>3. queue' = [t \in Threads |-> IF t = handler_id THEN queue[t] \o new ELSE queue[t]]
  BY DEF Post
<1> HIDE DEF new
<1>4. \A t \in Threads : queue[t] \in Seq(Closure) /\ queue[t] \o new \in Seq(Closure)
  BY <1>1, <1>2
<1>5. \A t \in Threads : \A j : Has(queue[t] \o new, j) <=> (Has(queue[t], j) \/ Has(new, j))
  BY <1>1, <1>4, HasConcat
<1>6. queue' \in [Threads -> Seq(Closure)]
  BY <1>3, <1>4
<1>7. QED
  BY <1>1, <1>3, <1>5, <1>6 DEF Held

-----------------------------------------------------------------------------
(***************************************************************************)
(* Types.  That a callback inserts only ids that have been handed out rests  *)
(* on the queues and the callbacks that run naming no others.               *)
(***************************************************************************)
About(t, p) == busy[t] # Idle /\ busy[t].peer = p

MessageQueued(t, p) == \E m \in Kinds : Held(t, Received(p, m))

HandedOut ==
    \A t \in Threads, p \in Ids : (MessageQueued(t, p) \/ About(t, p)) => p < next_peer_id

\* A callback does what is left of its script.
Todo(op) ==
    CASE op = "join"       -> {<<"insert", "joined">>, <<"joined">>, << >>}
      [] op = "chat"       -> {<<"line">>, << >>}
      [] op = "disconnect" -> {<<"left", "erase">>, <<"erase">>, << >>}

\* A script, and what is left of it, is a sequence of steps.
LEMMA ScriptTodo ==
    ASSUME NEW op \in Kinds \cup {"disconnect"}
    PROVE  /\ Todo(op) \subseteq Seq(Texts \cup {"insert", "erase"})
           /\ \A known \in BOOLEAN : Script(op, known) \in Todo(op)
           /\ \A todo \in Todo(op) : todo # << >> => Tail(todo) \in Todo(op)
<1>1. /\ <<"insert", "joined">> \in Seq(Texts \cup {"insert", "erase"})
      /\ <<"joined">> \in Seq(Texts \cup {"insert", "erase"})
      /\ <<"line">> \in Seq(Texts \cup {"insert", "erase"})
      /\ <<"left", "erase">> \in Seq(Texts \cup {"insert", "erase"})
      /\ <<"erase">> \in Seq(Texts \cup {"insert", "erase"})
      /\ << >> \in Seq(Texts \cup {"insert", "erase"})
  BY DEF Texts
<1>2. /\ Tail(<<"insert", "joined">>) = <<"joined">>
      /\ Tail(<<"left", "erase">>) = <<"erase">>
      /\ Tail(<<"joined">>) = << >>
      /\ Tail(<<"line">>) = << >>
      /\ Tail(<<"erase">>) = << >>
  OBVIOUS
<1>3. CASE op = "join"
  BY <1>1, <1>2, <1>3 DEF Todo, Script
<1>4. CASE op = "chat"
  BY <1>1, <1>2, <1>4 DEF Todo, Script
<1>5. CASE op = "disconnect"
  BY <1>1, <1>2, <1>5 DEF Todo, Script
<1>6. QED
  BY <1>3, <1>4, <1>5 DEF Kinds

LEMMA InitType == Init => TypeOK /\ HandedOut
<1> SUFFICES ASSUME Init PROVE TypeOK /\ HandedOut
  OBVIOUS
<1> USE DEF Init, ThreadsInit
<1>1. DOMAIN at = Threads /\ at["main"] = "construct" /\ at["worker"] = "start"
  BY DEF Threads
<1>2. busy \in [Threads -> Callback]
  BY DEF Callback
<1>3. \A t \in Threads : queue[t] = << >> /\ busy[t] = Idle
  OBVIOUS
<1>4. HandedOut
  BY <1>3, HasNone DEF HandedOut, MessageQueued, About, Held
<1>5. DOMAIN peers = {} /\ users = {}
  OBVIOUS
<1>6. /\ queue \in [Threads -> Seq(Closure)]
      /\ said \in [Ids -> Seq(Texts)]
      /\ outbox \in [Addresses -> SUBSET Kinds]
  OBVIOUS
<1>7. next_peer_id \in 0 .. MaxPeers /\ received \in 0 .. MaxReceived
  BY DispatchAssumption
<1>8. {given, handler_id} \subseteq Threads \cup {"none"}
  OBVIOUS
<1>9. stop_requested \in BOOLEAN /\ bound \in BOOLEAN /\ overtaken \subseteq Ids
  OBVIOUS
<1> QED
  BY <1>1, <1>2, <1>4, <1>5, <1>6, <1>7, <1>8, <1>9 DEF TypeOK, MainAt, WorkerAt

\* The steps of a thread between closures change where it is, and no table.
LEMMA ProceedType ==
    ASSUME TypeOK, NEW t \in Threads, Proceed(t), UNCHANGED <<serverVars, outbox>>
    PROVE  TypeOK'
<1>1. /\ DOMAIN at' = Threads /\ at'["main"] \in MainAt /\ at'["worker"] \in WorkerAt
      /\ {given', handler_id'} \subseteq Threads \cup {"none"}
      /\ UNCHANGED <<stop_requested, tableVars, busy>>
  BY DEF TypeOK, Proceed, Goto, Construct, Listen, Run, Leave, Destroy, WorkerStart,
         IncomingDone, TimeoutDone, Test, Threads, MainAt, WorkerAt
<1>2. queue' \in [Threads -> Seq(Closure)]
  <2>1. CASE Listen
    <3>1. Bind \in Closure
      BY DEF Closure
    <3>2. QED
      BY <2>1, <3>1, Appended DEF Listen
  <2>2. CASE UNCHANGED queue
    BY <2>2 DEF TypeOK
  <2>3. QED
    BY <2>1, <2>2 DEF Proceed, Construct, Run, Leave, Destroy, WorkerStart, IncomingDone,
                      TimeoutDone
<1>3. QED
  BY <1>1, <1>2 DEF TypeOK, tableVars, serverVars, historyVars

LEMMA TakeType ==
    ASSUME TypeOK, NEW t \in Threads, Execute(t)
    PROVE  TypeOK'
<1>1. ASSUME NEW p \in Ids, NEW m \in Kinds, RunReceived(t, p, m)
      PROVE  TypeOK'
  <2>1. queue' \in [Threads -> Seq(Closure)] /\ UNCHANGED threadVars
    BY <1>1, Taken DEF RunReceived, Take
  <2>2. busy' \in [Threads -> Callback]
    <3>1. (p \in users) \in BOOLEAN
      OBVIOUS
    <3>2. Script(m, p \in users) \in Seq(Texts \cup {"insert", "erase"})
      BY <3>1, ScriptTodo
    <3>3. [op |-> m, peer |-> p, todo |-> Script(m, p \in users)] \in Callback
      BY <3>2 DEF Callback
    <3>4. QED
      BY <1>1, <3>3 DEF RunReceived, Start, TypeOK
  <2>3. QED
    BY <1>1, <2>1, <2>2 DEF RunReceived, TypeOK, threadVars, tableVars, serverVars, historyVars
<1>2. ASSUME NEW p \in Ids, NEW x \in Texts, RunBroadcast(p, x)
      PROVE  TypeOK'
  <2>1. queue' \in [Threads -> Seq(Closure)] /\ UNCHANGED threadVars
    BY <1>2, Taken DEF RunBroadcast, Take, Threads, historyVars
  <2>2. said' \in [Ids -> Seq(Texts)]
    BY <1>2 DEF RunBroadcast, TypeOK, historyVars
  <2>3. QED
    BY <1>2, <2>1, <2>2 DEF RunBroadcast, TypeOK, threadVars, tableVars, historyVars
<1>3. ASSUME RunBind, UNCHANGED <<serverVars, outbox>>
      PROVE  TypeOK'
  <2>1. queue' \in [Threads -> Seq(Closure)] /\ UNCHANGED threadVars
    BY <1>3, Taken DEF RunBind, Take, Threads
  <2>2. QED
    BY <1>3, <2>1 DEF RunBind, TypeOK, threadVars, serverVars, historyVars
<1>4. ASSUME NEW p \in Ids, Greet(t, p)
      PROVE  TypeOK'
  <2>1. queue' \in [Threads -> Seq(Closure)] /\ UNCHANGED threadVars
    BY <1>4, Taken DEF RunConnected, Greet, Take
  <2>2. QED
    BY <1>4, <2>1 DEF RunConnected, Greet, TypeOK, threadVars, tableVars, serverVars, historyVars
<1>5. QED
  BY <1>1, <1>2, <1>3, <1>4 DEF Execute

\* A step of a callback takes it further along its script.
LEMMA DoType ==
    ASSUME TypeOK, NEW t \in Threads, NEW p \in Ids, NEW x, Do(t, p, x)
    PROVE  /\ busy' \in [Threads -> Callback]
           /\ UNCHANGED <<threadVars, tableVars, said, outbox, historyVars>>
<1>1. busy[t] \in [op : Kinds \cup {"disconnect"}, peer : Ids,
                   todo : Seq(Texts \cup {"insert", "erase"})]
  BY DEF Do, TypeOK, Callback, historyVars
<1>2. Tail(busy[t].todo) \in Seq(Texts \cup {"insert", "erase"})
  BY <1>1 DEF Do, historyVars
<1>3. [busy[t] EXCEPT !.todo = Tail(@)] \in Callback
  BY <1>1, <1>2 DEF Callback
<1>4. QED
  BY <1>3 DEF Do, TypeOK, historyVars

LEMMA CallbackType ==
    ASSUME TypeOK, HandedOut, NEW t \in Threads, NEW p \in Ids,
           \/ Insert(t, p)
           \/ Erase(t, p)
           \/ \E x \in Texts : Say(t, p, x)
    PROVE  TypeOK'
<1>1. CASE Insert(t, p)
  <2>1. p \in 0 .. (next_peer_id - 1)
    BY <1>1, DispatchAssumption DEF Insert, Do, HandedOut, About, Ids, TypeOK
  <2>2. QED
    BY <1>1, <2>1, DoType DEF Insert, TypeOK, threadVars, tableVars, historyVars
<1>2. CASE Erase(t, p)
  BY <1>2, DoType DEF Erase, TypeOK, threadVars, tableVars, historyVars
<1>3. ASSUME NEW x \in Texts, Say(t, p, x) PROVE TypeOK'
  <2>1. Broadcast(p, x) \in Closure
    BY DEF Closure
  <2>2. queue' \in [Threads -> Seq(Closure)]
    BY <1>3, <2>1, Appended DEF Say
  <2>3. QED
    BY <1>3, <2>2, DoType DEF Say, TypeOK, threadVars, tableVars, historyVars
<1>4. QED
  BY <1>1, <1>2, <1>3

\* The end of the disconnect callback erases an entry, no other step does.
LEMMA ReturnType ==
    ASSUME TypeOK, NEW t \in Threads, Return(t)
    PROVE  TypeOK'
<1>1. Idle \in Callback
  BY DEF Callback
<1>2. busy' \in [Threads -> Callback]
  BY <1>1 DEF Return, TypeOK
<1>3. /\ DOMAIN peers' \subseteq 0 .. (next_peer_id - 1)
      /\ \A p \in DOMAIN peers' : peers'[p] \in Addresses
  BY DEF Return, TypeOK
<1>4. QED
  BY <1>2, <1>3 DEF Return, TypeOK, threadVars, serverVars, historyVars

LEMMA TimeoutType ==
    ASSUME TypeOK, NEW p \in Ids, Timeout(p)
    PROVE  TypeOK'
<1>1. (p \in users) \in BOOLEAN
  OBVIOUS
<1>2. Script("disconnect", p \in users) \in Seq(Texts \cup {"insert", "erase"})
  BY <1>1, ScriptTodo
<1>3. [op |-> "disconnect", peer |-> p, todo |-> Script("disconnect", p \in users)] \in Callback
  BY <1>2 DEF Callback
<1>4. busy' \in [Threads -> Callback]
  BY <1>3 DEF Timeout, Start, TypeOK, Threads
<1>5. overtaken' \subseteq Ids
  BY DEF Timeout, TypeOK
<1>6. QED
  BY <1>4, <1>5 DEF Timeout, TypeOK, threadVars, tableVars

(***************************************************************************)
(* The two halves of handle_incoming as one: a new entry is announced, and   *)
(* its message is handed over by a step of its own.                         *)
(***************************************************************************)
Incoming(a, ms, p) ==
    \/ Hand(a, ms, p)
    \/ ms = << >> /\ Arrive(a, p)

LEMMA IncomingOvertakes ==
    ASSUME NEW a, NEW p, NEW ms, Incoming(a, ms, p)
    PROVE  /\ overtaken' = IF ms # << >> /\ Pending(p) \ {handler_id} # {}
                           THEN overtaken \cup {p} ELSE overtaken
           /\ UNCHANGED <<users, said, outbox, greeted>>
BY DEF Incoming, Hand, Arrive, serverVars, historyVars

\* handle_incoming: the entry is one of the table or the next one.
LEMMA ArriveEntry ==
    ASSUME TypeOK, NEW a \in Addresses, NEW p \in Ids, NEW ms \in Messages, Incoming(a, ms, p)
    PROVE  /\ at["worker"] \in {"handle_incoming", "accepted"}
           /\ bound \/ DOMAIN peers # {}
           /\ DOMAIN at' = Threads /\ at'["main"] = at["main"]
           /\ at'["worker"] \in {"handle_incoming", "accepted"}
           /\ IF Found(a) # {} THEN p \in DOMAIN peers ELSE p = next_peer_id
           /\ next_peer_id' = IF Found(a) # {} THEN next_peer_id ELSE next_peer_id + 1
           /\ next_peer_id \in Nat /\ next_peer_id' \in 0 .. MaxPeers
           /\ next_peer_id <= next_peer_id' /\ p < next_peer_id'
           /\ DOMAIN peers' = DOMAIN peers \cup {p}
           /\ \A q \in DOMAIN peers' : peers'[q] \in Addresses
           /\ received' \in 0 .. MaxReceived
           /\ Post(Posted(Found(a) # {}, p, ms))
           /\ UNCHANGED <<given, handler_id, stop_requested, bound, busy>>
<1>1. /\ next_peer_id \in 0 .. MaxPeers /\ DOMAIN peers \subseteq 0 .. (next_peer_id - 1)
      /\ \A q \in DOMAIN peers : peers[q] \in Addresses
      /\ received \in 0 .. MaxReceived
      /\ DOMAIN at = Threads /\ "worker" \in Threads /\ "main" \in Threads
  BY DEF TypeOK, Threads
<1>2. CASE Hand(a, ms, p)
  <2>1. Deliver(a, ms, p)
    BY <1>2 DEF Hand
  <2>2. p \in DOMAIN peers /\ Found(a) # {}
    BY <2>1 DEF Deliver, Found
  <2>3. /\ at["worker"] \in {"handle_incoming", "accepted"}
        /\ DOMAIN at' = Threads /\ at'["main"] = at["main"]
        /\ at'["worker"] \in {"handle_incoming", "accepted"}
        /\ received' \in 0 .. MaxReceived
        /\ UNCHANGED <<given, handler_id, stop_requested, bound, next_peer_id, peers, busy>>
    BY <1>1, <2>1, DispatchAssumption DEF Deliver, Goto
  <2>4. Post(Posted(TRUE, p, ms))
    <3> DEFINE f == [i \in 1 .. Len(ms) |-> Received(p, ms[i])]
    <3>1. Post(f)
      BY <2>1 DEF Deliver
    <3>2. Posted(TRUE, p, ms) = << >> \o f
      BY DEF Posted
    <3>3. \A m \in Kinds : Received(p, m) \in Closure
      BY DEF Closure
    <3>4. f \in Seq(Closure)
      BY <3>3 DEF Messages
    <3> HIDE DEF f
    <3>5. << >> \o f = f
      BY <3>4
    <3>6. QED
      BY <3>1, <3>2, <3>5
  <2>5. (Found(a) # {}) = TRUE
    BY <2>2
  <2>6. Post(Posted(Found(a) # {}, p, ms))
    BY <2>4, <2>5
  <2>7. p < next_peer_id /\ next_peer_id \in Nat
    BY <1>1, <2>2, DispatchAssumption
  <2>8. DOMAIN peers' = DOMAIN peers \cup {p}
    BY <2>2, <2>3
  <2>9. QED
    BY <1>1, <2>2, <2>3, <2>6, <2>7, <2>8, DispatchAssumption
<1>3. CASE ms = << >> /\ Arrive(a, p)
  <2>1. Accept(a, p)
    BY <1>3 DEF Arrive
  <2>2. /\ Found(a) = {} /\ p = next_peer_id /\ p < MaxPeers /\ bound
        /\ next_peer_id' = p + 1
        /\ peers' = [q \in DOMAIN peers \cup {p} |-> IF q = p THEN a ELSE peers[q]]
        /\ received < MaxReceived /\ received' = received + 1
        /\ Post(<<Connected(p)>>)
        /\ UNCHANGED <<given, handler_id, stop_requested, bound, busy>>
    BY <2>1 DEF Accept, NextId
  <2>3. /\ at["worker"] = "handle_incoming"
        /\ DOMAIN at' = Threads /\ at'["main"] = at["main"]
        /\ at'["worker"] = "accepted"
    BY <1>1, <2>1 DEF Accept, Goto
  <2>4. Post(Posted(FALSE, p, ms))
    <3>1. [i \in 1 .. Len(ms) |-> Received(p, ms[i])] = << >>
      BY <1>3
    <3>2. Posted(FALSE, p, ms) = <<Connected(p)>> \o << >>
      BY <3>1 DEF Posted
    <3>3. <<Connected(p)>> \o << >> = <<Connected(p)>>
      OBVIOUS
    <3>4. QED
      BY <2>2, <3>2, <3>3
  <2>5. (Found(a) # {}) = FALSE
    BY <2>2
  <2>6. Post(Posted(Found(a) # {}, p, ms))
    BY <2>4, <2>5
  <2>7. received' \in 0 .. MaxReceived /\ next_peer_id' \in 0 .. MaxPeers /\ next_peer_id \in Nat
    BY <1>1, <2>2, DispatchAssumption
  <2>8. DOMAIN peers' = DOMAIN peers \cup {p} /\ \A q \in DOMAIN peers' : peers'[q] \in Addresses
    BY <1>1, <2>2
  <2>9. QED
    BY <2>2, <2>3, <2>5, <2>6, <2>7, <2>8
<1>4. QED
  BY <1>2, <1>3 DEF Incoming

\* An id that has been handed out stays one.
LEMMA MoreIds ==
    ASSUME NEW m \in Nat, NEW n \in Nat, m <= n
    PROVE  0 .. (m - 1) \subseteq 0 .. (n - 1)
OBVIOUS

LEMMA ArriveType ==
    ASSUME TypeOK, NEW a \in Addresses, NEW p \in Ids, NEW ms \in Messages, Incoming(a, ms, p)
    PROVE  TypeOK'
<1>1. (Found(a) # {}) \in BOOLEAN
  OBVIOUS
<1>2. queue' \in [Threads -> Seq(Closure)]
  BY <1>1, ArriveEntry, PostAdds
<1>3. /\ next_peer_id \in Nat /\ next_peer_id' \in 0 .. MaxPeers
      /\ next_peer_id <= next_peer_id' /\ p < next_peer_id'
      /\ DOMAIN peers' = DOMAIN peers \cup {p}
  BY ArriveEntry
<1>4. DOMAIN peers' \subseteq 0 .. (next_peer_id' - 1)
  BY <1>3, DispatchAssumption DEF TypeOK, Ids
<1>5. users' \subseteq 0 .. (next_peer_id' - 1)
  <2>1. users' \subseteq 0 .. (next_peer_id - 1)
    BY IncomingOvertakes DEF TypeOK
  <2>2. next_peer_id \in Nat /\ next_peer_id' \in Nat /\ next_peer_id <= next_peer_id'
    BY <1>3, DispatchAssumption
  <2>3. 0 .. (next_peer_id - 1) \subseteq 0 .. (next_peer_id' - 1)
    BY <2>2, MoreIds
  <2>4. QED
    BY <2>1, <2>3
<1>6. overtaken' \subseteq Ids
  <2>1. overtaken' = overtaken \/ overtaken' = overtaken \cup {p}
    BY IncomingOvertakes
  <2>2. QED
    BY <2>1 DEF TypeOK
<1>7. DOMAIN at' = Threads /\ at'["main"] \in MainAt /\ at'["worker"] \in WorkerAt
  BY ArriveEntry DEF TypeOK, WorkerAt
<1>8. UNCHANGED <<users, said, outbox, greeted>>
  BY IncomingOvertakes
<1>9. QED
  BY <1>2, <1>3, <1>4, <1>5, <1>6, <1>7, <1>8, ArriveEntry DEF TypeOK

LEMMA OutsideType ==
    ASSUME TypeOK,
           \/ Stop /\ UNCHANGED <<serverVars, outbox>>
           \/ \E a \in Addresses : ClientRun(a) \/ ClientLine(a)
    PROVE  TypeOK'
<1>1. CASE Stop /\ UNCHANGED <<serverVars, outbox>>
  BY <1>1 DEF TypeOK, Stop, tableVars, serverVars, historyVars
<1>2. ASSUME NEW a \in Addresses, ClientRun(a) \/ ClientLine(a)
      PROVE  TypeOK'
  <2>1. outbox' \in [Addresses -> SUBSET Kinds]
    BY <1>2 DEF TypeOK, ClientRun, ClientLine, Kinds
  <2>2. UNCHANGED <<threadVars, tableVars, queue, busy, serverVars>>
    BY <1>2 DEF ClientRun, ClientLine
  <2>3. QED
    BY <2>1, <2>2 DEF TypeOK, threadVars, tableVars, serverVars, historyVars
<1>3. QED
  BY <1>1, <1>2

\* Next, with one case for each kind of step.
LEMMA Steps ==
    ASSUME [Next]_vars
    PROVE  \/ UNCHANGED vars
           \/ Stop /\ UNCHANGED <<serverVars, outbox>>
           \/ \E t \in Threads : Proceed(t) /\ UNCHANGED <<serverVars, outbox>>
           \/ \E t \in Threads, p \in Ids :
                  Insert(t, p) \/ Erase(t, p) \/ \E x \in Texts : Say(t, p, x)
           \/ \E t \in Threads : Return(t)
           \/ \E t \in Threads : Execute(t)
           \/ \E p \in Ids : Timeout(p)
           \/ \E a \in Addresses : ClientRun(a) \/ ClientLine(a)
           \/ \E a \in Addresses, p \in Ids, ms \in Messages : Incoming(a, ms, p)
<1>1. ASSUME NEW t \in Threads, Continue(t)
      PROVE  \/ Proceed(t) /\ UNCHANGED <<serverVars, outbox>>
             \/ \E p \in Ids : Insert(t, p) \/ Erase(t, p) \/ \E x \in Texts : Say(t, p, x)
             \/ Return(t)
             \/ \E a \in Addresses, p \in Ids, ms \in Messages : Incoming(a, ms, p)
  BY <1>1, Zenon DEF Continue, Resume, Incoming
<1>2. ASSUME NEW a \in Addresses, NEW p \in Ids, Arrive(a, p)
      PROVE  \E ms \in Messages : Incoming(a, ms, p)
  <2>1. Incoming(a, << >>, p) /\ << >> \in Messages
    BY <1>2 DEF Incoming, Messages
  <2>2. QED
    BY <2>1
<1>3. ASSUME NEW a \in Addresses, NEW p \in Ids, NEW ms \in Messages, Hand(a, ms, p)
      PROVE  Incoming(a, ms, p)
  BY <1>3 DEF Incoming
<1>4. QED
  BY <1>1, <1>2, <1>3, Zenon DEF Next

LEMMA TypeStep == TypeOK /\ HandedOut /\ [Next]_vars => TypeOK'
<1> SUFFICES ASSUME TypeOK, HandedOut, [Next]_vars PROVE TypeOK'
  OBVIOUS
<1>1. CASE UNCHANGED vars
  BY <1>1 DEF TypeOK, vars, threadVars, tableVars, serverVars, historyVars
<1>2. QED
  BY <1>1, Steps, OutsideType, ProceedType, CallbackType, ReturnType, TakeType, TimeoutType,
     ArriveType

-----------------------------------------------------------------------------
(***************************************************************************)
(* What each kind of step does to the closures in the queues.               *)
(***************************************************************************)

\* Closures of different kinds, or about different peers, are different.
LEMMA ClosuresDiffer ==
    \A p, q, m, l, x, y :
        /\ Received(p, m) # Bind /\ Broadcast(p, x) # Bind
        /\ Received(p, m) # Connected(q) /\ Broadcast(p, x) # Connected(q)
        /\ Received(p, m) # Broadcast(q, x)
        /\ Received(p, m) = Received(q, l) => p = q /\ m = l
        /\ Broadcast(p, x) = Broadcast(q, y) => p = q /\ x = y
BY DEF Received, Broadcast, Connected, Bind

\* What is queued about the peer p has not changed.
SameMessages(p)   == \A t \in Threads : MessageQueued(t, p)' <=> MessageQueued(t, p)
SameBroadcasts(p) == \A x \in Texts : Held("worker", Broadcast(p, x))' <=>
                                          Held("worker", Broadcast(p, x))

LEMMA ProceedQueues ==
    ASSUME TypeOK, NEW t \in Threads, Proceed(t), NEW q
    PROVE  SameMessages(q) /\ SameBroadcasts(q)
<1>1. CASE Listen
  <2>1. Bind \in Closure
    BY DEF Closure
  <2>2. \A u \in Threads : \A j : Held(u, j)' <=> (Held(u, j) \/ (u = "worker" /\ j = Bind))
    BY <1>1, <2>1, Appended DEF Listen
  <2>3. QED
    BY <2>2, ClosuresDiffer DEF SameMessages, SameBroadcasts, MessageQueued, Threads
<1>2. CASE UNCHANGED queue
  BY <1>2 DEF SameMessages, SameBroadcasts, MessageQueued, Held
<1>3. QED
  BY <1>1, <1>2 DEF Proceed, Construct, Run, Leave, Destroy, WorkerStart, IncomingDone,
                    TimeoutDone

\* Closures about no peer, and those of the connect callback, say nothing about one.
LEMMA TakeOtherQueues ==
    ASSUME TypeOK, NEW t \in Threads, NEW q,
           (RunBind /\ t = "worker") \/ \E p \in Ids : RunConnected(t, p)
    PROVE  SameMessages(q) /\ SameBroadcasts(q)
<1>1. PICK k : Take(t, k) /\ (k = Bind \/ \E p \in Ids : k = Connected(p))
  BY DEF RunBind, RunConnected, Greet
<1>2. \A u \in Threads : \A j : Held(u, j) <=> (Held(u, j)' \/ (u = t /\ j = k))
  BY <1>1, Taken
<1>3. QED
  BY <1>1, <1>2, ClosuresDiffer DEF SameMessages, SameBroadcasts, MessageQueued, Threads

LEMMA RunReceivedQueues ==
    ASSUME TypeOK, NEW t \in Threads, NEW p \in Ids, NEW m \in Kinds, RunReceived(t, p, m)
    PROVE  /\ MessageQueued(t, p)
           /\ \A u \in Threads, q \in Ids : MessageQueued(u, q)' => MessageQueued(u, q)
           /\ \A q \in Ids : SameBroadcasts(q)
           /\ \A q \in Ids : q # p => SameMessages(q)
<1>1. \A u \in Threads : \A j : Held(u, j) <=> (Held(u, j)' \/ (u = t /\ j = Received(p, m)))
  BY Taken DEF RunReceived
<1>2. QED
  BY <1>1, ClosuresDiffer DEF SameMessages, SameBroadcasts, MessageQueued, Threads

LEMMA RunBroadcastQueues ==
    ASSUME TypeOK, NEW p \in Ids, NEW x \in Texts, RunBroadcast(p, x)
    PROVE  /\ \A q \in Ids : SameMessages(q)
           /\ \A q \in Ids, y \in Texts : Held("worker", Broadcast(q, y)) <=>
                  \/ Held("worker", Broadcast(q, y))'
                  \/ q = p /\ y = x
<1>1. \A u \in Threads : \A j : Held(u, j) <=> (Held(u, j)' \/ (u = "worker" /\ j = Broadcast(p, x)))
  BY Taken DEF RunBroadcast, Threads, historyVars
<1>2. QED
  BY <1>1, ClosuresDiffer DEF SameMessages, MessageQueued, Threads

LEMMA SayQueues ==
    ASSUME TypeOK, NEW t \in Threads, NEW p \in Ids, NEW x \in Texts, Say(t, p, x)
    PROVE  /\ \A q \in Ids : SameMessages(q)
           /\ \A q \in Ids, y \in Texts : Held("worker", Broadcast(q, y))' <=>
                  \/ Held("worker", Broadcast(q, y))
                  \/ q = p /\ y = x
<1>1. Broadcast(p, x) \in Closure
  BY DEF Closure
<1>2. \A u \in Threads : \A j : Held(u, j)' <=> (Held(u, j) \/ (u = "worker" /\ j = Broadcast(p, x)))
  BY <1>1, Appended DEF Say
<1>3. QED
  BY <1>2, ClosuresDiffer DEF SameMessages, MessageQueued, Threads

LEMMA ArriveQueues ==
    ASSUME TypeOK, NEW a \in Addresses, NEW p \in Ids, NEW ms \in Messages, Incoming(a, ms, p)
    PROVE  /\ \A q \in Ids : SameBroadcasts(q)
           /\ \A q \in Ids : q # p => SameMessages(q)
           /\ \A u \in Threads : MessageQueued(u, p)' <=>
                  \/ MessageQueued(u, p)
                  \/ u = handler_id /\ ms # << >>
<1> DEFINE known == Found(a) # {}
<1>1. known \in BOOLEAN /\ Post(Posted(known, p, ms))
  BY ArriveEntry
<1> HIDE DEF known
<1>2. \A u \in Threads : \A j : Held(u, j)' <=>
          \/ Held(u, j)
          \/ /\ u = handler_id
             /\ \/ ~known /\ j = Connected(p)
                \/ \E m \in Kinds : ms = <<m>> /\ j = Received(p, m)
  BY <1>1, PostAdds
<1>3. ms # << >> <=> \E m \in Kinds : ms = <<m>>
  BY DEF Messages
<1>4. QED
  BY <1>2, <1>3, ClosuresDiffer DEF SameMessages, SameBroadcasts, MessageQueued, Threads

\* Steps outside the threads leave the queues and the callbacks alone.
LEMMA IdleQueues ==
    ASSUME UNCHANGED queue, NEW q
    PROVE  SameMessages(q) /\ SameBroadcasts(q)
BY DEF SameMessages, SameBroadcasts, MessageQueued, Held

-----------------------------------------------------------------------------
LEMMA HandedOutStep == TypeOK /\ HandedOut /\ [Next]_vars => HandedOut'
<1> SUFFICES ASSUME TypeOK, HandedOut, [Next]_vars,
                    NEW u \in Threads, NEW q \in Ids, MessageQueued(u, q)' \/ About(u, q)'
             PROVE  q < next_peer_id'
  BY DEF HandedOut
<1>1. ASSUME MessageQueued(u, q) \/ About(u, q), next_peer_id' = next_peer_id
      PROVE  q < next_peer_id'
  BY <1>1 DEF HandedOut
<1>2. CASE UNCHANGED <<queue, busy, next_peer_id>>
  BY <1>1, <1>2, IdleQueues DEF SameMessages, About
<1>3. ASSUME NEW t \in Threads, Proceed(t)
      PROVE  q < next_peer_id'
  <2>1. UNCHANGED <<busy, next_peer_id>>
    BY <1>3 DEF Proceed, Construct, Listen, Run, Leave, Destroy, WorkerStart, IncomingDone,
                TimeoutDone, tableVars
  <2>2. QED
    BY <1>1, <1>3, <2>1, ProceedQueues DEF SameMessages, About
<1>4. ASSUME NEW t \in Threads, NEW p \in Ids,
             Insert(t, p) \/ Erase(t, p) \/ \E x \in Texts : Say(t, p, x)
      PROVE  q < next_peer_id'
  <2>1. SameMessages(q)
    BY <1>4, SayQueues, IdleQueues DEF Insert, Erase
  <2>2. About(u, q)' => About(u, q)
    <3>1. busy \in [Threads -> Callback]
      BY DEF TypeOK
    <3>2. /\ busy[t] # Idle
          /\ busy' = [busy EXCEPT ![t].todo = Tail(@)]
          /\ next_peer_id' = next_peer_id
      BY <1>4 DEF Insert, Erase, Say, Do, tableVars, historyVars
    <3>3. busy[t] \in [op : Kinds \cup {"disconnect"}, peer : Ids,
                       todo : Seq(Texts \cup {"insert", "erase"})]
      BY <3>1, <3>2 DEF Callback
    <3>4. busy'[u] = busy[u] \/ (u = t /\ busy'[u].peer = busy[u].peer)
      BY <3>1, <3>2, <3>3
    <3>5. QED
      BY <3>2, <3>4 DEF About
  <2>3. next_peer_id' = next_peer_id
    BY <1>4 DEF Insert, Erase, Say, Do, tableVars, historyVars
  <2>4. QED
    BY <1>1, <2>1, <2>2, <2>3 DEF SameMessages
<1>5. ASSUME NEW t \in Threads, Return(t)
      PROVE  q < next_peer_id'
  <2>1. UNCHANGED <<queue, next_peer_id>> /\ (About(u, q)' => About(u, q))
    BY <1>5 DEF Return, About, TypeOK
  <2>2. QED
    BY <1>1, <2>1, IdleQueues DEF SameMessages
<1>6. ASSUME NEW t \in Threads, Execute(t)
      PROVE  q < next_peer_id'
  <2>1. ASSUME NEW p \in Ids, NEW m \in Kinds, RunReceived(t, p, m)
        PROVE  q < next_peer_id'
    <3>1. MessageQueued(t, p) /\ (MessageQueued(u, q)' => MessageQueued(u, q))
      BY <2>1, RunReceivedQueues
    <3>2. About(u, q)' => (About(u, q) \/ (u = t /\ q = p))
      BY <2>1 DEF RunReceived, Start, About, TypeOK
    <3>3. next_peer_id' = next_peer_id
      BY <2>1 DEF RunReceived, tableVars
    <3>4. QED
      BY <1>1, <3>1, <3>2, <3>3 DEF HandedOut
  <2>2. ASSUME NEW p \in Ids, NEW x \in Texts, RunBroadcast(p, x)
        PROVE  q < next_peer_id'
    BY <1>1, <2>2, RunBroadcastQueues DEF RunBroadcast, SameMessages, About, tableVars, historyVars
  <2>3. ASSUME (RunBind /\ t = "worker") \/ \E p \in Ids : RunConnected(t, p)
        PROVE  q < next_peer_id'
    BY <1>1, <2>3, TakeOtherQueues DEF RunBind, RunConnected, Greet, SameMessages, About, tableVars
  <2>4. QED
    BY <1>6, <2>1, <2>2, <2>3 DEF Execute, Greet
<1>7. ASSUME NEW p \in Ids, Timeout(p)
      PROVE  q < next_peer_id'
  <2>1. UNCHANGED <<queue, next_peer_id>>
    BY <1>7 DEF Timeout, tableVars
  <2>2. About(u, q)' => (About(u, q) \/ q = p)
    BY <1>7 DEF Timeout, Start, About, TypeOK
  <2>3. p < next_peer_id
    BY <1>7 DEF Timeout, TypeOK
  <2>4. QED
    BY <1>1, <2>1, <2>2, <2>3, IdleQueues DEF SameMessages
<1>8. ASSUME NEW a \in Addresses, NEW p \in Ids, NEW ms \in Messages, Incoming(a, ms, p)
      PROVE  q < next_peer_id'
  <2>1. next_peer_id \in Nat /\ next_peer_id <= next_peer_id' /\ p < next_peer_id'
        /\ next_peer_id' \in 0 .. MaxPeers
    BY <1>8, ArriveEntry
  <2>2. UNCHANGED busy
    BY <1>8, ArriveEntry
  <2>3. q = p \/ MessageQueued(u, q) \/ About(u, q)
    BY <1>8, <2>2, ArriveQueues DEF SameMessages, About
  <2>4. CASE q = p
    BY <2>1, <2>4
  <2>5. CASE MessageQueued(u, q) \/ About(u, q)
    BY <2>1, <2>5, DispatchAssumption DEF HandedOut, Ids
  <2>6. QED
    BY <2>3, <2>4, <2>5
<1>9. CASE Stop \/ \E a \in Addresses : ClientRun(a) \/ ClientLine(a)
  BY <1>2, <1>9 DEF Stop, ClientRun, ClientLine, tableVars
<1>10. CASE UNCHANGED vars
  BY <1>2, <1>10 DEF vars, tableVars
<1>11. QED
  BY <1>3, <1>4, <1>5, <1>6, <1>7, <1>8, <1>9, <1>10, Steps

(***************************************************************************)
(* What is queued, running and announced in the chat server has the types    *)
(* the module states: a callback only inserts and announces peers that the   *)
(* node has handed out an id for.                                           *)
(***************************************************************************)
THEOREM TypeCorrect == Spec => []TypeOK
<1>1. Init => TypeOK /\ HandedOut
  BY InitType
<1>2. (TypeOK /\ HandedOut) /\ [Next]_vars => (TypeOK /\ HandedOut)'
  BY TypeStep, HandedOutStep
<1>3. QED
  BY <1>1, <1>2, PTL DEF Spec

-----------------------------------------------------------------------------
(***************************************************************************)
(* The threads.  Nothing can be queued before listen; handler_id is the      *)
(* thread that the node was given, and main once run() has been entered; and *)
(* a node that was given main never has a message callback in the worker's   *)
(* queue.                                                                   *)
(***************************************************************************)
Before ==
    at["main"] \in {"construct", "setup"} =>
        /\ ~bound
        /\ DOMAIN peers = {}
        /\ \A t \in Threads : queue[t] = << >> /\ busy[t] = Idle

Handler ==
    /\ at["main"] = "construct" => given = "none" /\ handler_id = "none"
    /\ at["main"] # "construct" => given \in Threads
    /\ at["main"] \in {"setup", "listening"} => handler_id = given
    /\ at["main"] \in {"sync_point", "returned", "destroyed"} => handler_id = "main"

Running ==
    /\ busy["main"] # Idle => at["main"] = "sync_point" /\ busy["main"].op \in Kinds
    /\ busy["worker"] # Idle =>
           at["worker"] = IF busy["worker"].op = "disconnect" THEN "timeout" ELSE "sync_point"
    /\ \A t \in Threads : busy[t] # Idle => busy[t].todo \in Todo(busy[t].op)

GivenMain ==
    given = "main" =>
        /\ \A p \in Ids : ~MessageQueued("worker", p)
        /\ busy["worker"] # Idle => busy["worker"].op = "disconnect"

ThreadsOK == Before /\ Handler /\ Running /\ GivenMain

LEMMA InitThreads == Init => ThreadsOK
<1> SUFFICES ASSUME Init PROVE ThreadsOK
  OBVIOUS
<1>1. /\ at["main"] = "construct" /\ given = "none" /\ handler_id = "none"
      /\ ~bound /\ DOMAIN peers = {}
      /\ \A t \in Threads : queue[t] = << >> /\ busy[t] = Idle
  BY DEF Init, ThreadsInit
<1>2. QED
  BY <1>1 DEF ThreadsOK, Before, Handler, Running, GivenMain, Threads

\* A step of one thread between closures.
LEMMA ProceedThreads ==
    ASSUME TypeOK, ThreadsOK, NEW t \in Threads, Proceed(t)
    PROVE  ThreadsOK'
<1>1. UNCHANGED <<bound, peers, busy>>
  BY DEF Proceed, Construct, Listen, Run, Leave, Destroy, WorkerStart, IncomingDone,
         TimeoutDone, tableVars
<1>2. CASE t = "main"
  <2>1. at'["worker"] = at["worker"]
    BY <1>2 DEF Proceed, Construct, Listen, Run, Leave, Destroy, Goto, TypeOK, Threads
  <2>2. CASE Construct("worker") \/ Construct("main")
    <3>1. /\ at["main"] = "construct" /\ at'["main"] = "setup"
          /\ given' \in Threads /\ handler_id' = given'
          /\ UNCHANGED queue
      BY <2>2 DEF Construct, Goto, TypeOK, Threads
    <3>2. \A p \in Ids : ~MessageQueued("worker", p)'
      BY <3>1, HasNone DEF ThreadsOK, Before, MessageQueued, Held, Threads
    <3>3. QED
      BY <1>1, <2>1, <3>1, <3>2 DEF ThreadsOK, Before, Handler, Running, GivenMain, Threads
  <2>3. CASE Listen
    <3>1. /\ at["main"] = "setup" /\ at'["main"] = "listening"
          /\ UNCHANGED <<given, handler_id>>
      BY <2>3 DEF Listen, Goto, TypeOK, Threads
    <3>2. \A p \in Ids : SameMessages(p)
      BY ProceedQueues
    <3>3. QED
      BY <1>1, <2>1, <3>1, <3>2
         DEF ThreadsOK, Before, Handler, Running, GivenMain, Threads, SameMessages
  <2>4. CASE Run
    <3>1. /\ at["main"] = "listening" /\ at'["main"] \in {"sync_point", "returned"}
          /\ handler_id' = "main"
          /\ UNCHANGED <<given, queue>>
      BY <2>4 DEF Run, Test, Goto, TypeOK, Threads
    <3>2. QED
      BY <1>1, <2>1, <3>1
         DEF ThreadsOK, Before, Handler, Running, GivenMain, Threads, MessageQueued, Held
  <2>5. CASE Leave("main", Test("main")) \/ Destroy
    <3>1. /\ at["main"] \in {"sync_point", "returned"}
          /\ at'["main"] \in {"sync_point", "returned", "destroyed"}
          /\ at["main"] = "sync_point" => busy["main"] = Idle
          /\ UNCHANGED <<given, handler_id, queue>>
      BY <2>5 DEF Leave, Destroy, Test, Goto, TypeOK, Threads
    <3>2. QED
      BY <1>1, <2>1, <3>1
         DEF ThreadsOK, Before, Handler, Running, GivenMain, Threads, MessageQueued, Held
  <2>6. QED
    BY <1>2, <2>2, <2>3, <2>4, <2>5 DEF Proceed
<1>3. CASE t = "worker"
  <2>1. /\ at'["main"] = at["main"]
        /\ at["worker"] \in {"start", "handle_incoming"} \/ busy["worker"] = Idle
        /\ UNCHANGED <<given, handler_id, queue>>
    BY <1>3 DEF Proceed, WorkerStart, Leave, IncomingDone, TimeoutDone, Goto, TypeOK, Threads
  <2>2. busy["worker"] = Idle
    BY <2>1 DEF ThreadsOK, Running
  <2>3. QED
    BY <1>1, <2>1, <2>2
       DEF ThreadsOK, Before, Handler, Running, GivenMain, Threads, MessageQueued, Held
<1>4. QED
  BY <1>2, <1>3 DEF Threads

\* A thread takes a closure, which it can only after listen.
LEMMA ExecuteThreads ==
    ASSUME TypeOK, ThreadsOK, NEW t \in Threads, Execute(t)
    PROVE  ThreadsOK'
<1>1. /\ UNCHANGED threadVars /\ peers' = peers
      /\ at[t] = "sync_point" /\ queue[t] # << >>
  BY DEF Execute, RunReceived, RunBroadcast, RunBind, RunConnected, Greet, Take, tableVars, Threads, historyVars
<1>2. at["main"] \notin {"construct", "setup"}
  BY <1>1 DEF ThreadsOK, Before
<1>3. \A q \in Ids : \A u \in Threads : MessageQueued(u, q)' => MessageQueued(u, q)
  BY RunReceivedQueues, RunBroadcastQueues, TakeOtherQueues DEF Execute, Greet, SameMessages
<1>4. CASE UNCHANGED busy
  BY <1>1, <1>2, <1>3, <1>4
     DEF ThreadsOK, Before, Handler, Running, GivenMain, Threads, threadVars
<1>5. ASSUME NEW p \in Ids, NEW m \in Kinds, RunReceived(t, p, m)
      PROVE  ThreadsOK'
  <2>1. MessageQueued(t, p)
    BY <1>5, RunReceivedQueues
  <2>2. busy' = [busy EXCEPT ![t] = [op |-> m, peer |-> p, todo |-> Script(m, p \in users)]]
    BY <1>5 DEF RunReceived, Start
  <2>3. Script(m, p \in users) \in Todo(m)
    <3>1. (p \in users) \in BOOLEAN
      OBVIOUS
    <3>2. QED
      BY <3>1, ScriptTodo
  <2>4. /\ busy'[t].op = m /\ busy'[t].todo \in Todo(busy'[t].op)
        /\ \A u \in Threads : u # t => busy'[u] = busy[u]
    BY <2>2, <2>3 DEF TypeOK
  <2>5. given = "main" => t = "main"
    BY <2>1 DEF ThreadsOK, GivenMain, Threads
  <2>6. m # "disconnect"
    BY DEF Kinds
  <2>7. QED
    BY <1>1, <1>2, <1>3, <2>4, <2>5, <2>6
       DEF ThreadsOK, Before, Handler, Running, GivenMain, Threads, threadVars
<1>6. QED
  BY <1>4, <1>5 DEF Execute, RunBroadcast, RunBind, RunConnected, Greet, historyVars

LEMMA CallbackThreads ==
    ASSUME TypeOK, ThreadsOK, NEW t \in Threads, NEW p \in Ids,
           Insert(t, p) \/ Erase(t, p) \/ \E x \in Texts : Say(t, p, x)
    PROVE  ThreadsOK'
<1>1. /\ busy[t] # Idle /\ busy[t].todo # << >>
      /\ busy' = [busy EXCEPT ![t].todo = Tail(@)]
      /\ UNCHANGED <<threadVars, bound, peers>>
  BY DEF Insert, Erase, Say, Do, tableVars, historyVars
<1>2. busy \in [Threads -> Callback]
  BY DEF TypeOK
<1>3. busy[t] \in [op : Kinds \cup {"disconnect"}, peer : Ids,
                   todo : Seq(Texts \cup {"insert", "erase"})]
  BY <1>1, <1>2 DEF Callback
<1>4. Tail(busy[t].todo) \in Todo(busy[t].op)
  BY <1>1, <1>3, ScriptTodo DEF ThreadsOK, Running
<1>5. /\ busy'[t].op = busy[t].op /\ busy'[t].todo \in Todo(busy'[t].op)
      /\ \A u \in Threads : u # t => busy'[u] = busy[u]
  BY <1>1, <1>2, <1>3, <1>4
<1>6. at["main"] \notin {"construct", "setup"}
  BY <1>1 DEF ThreadsOK, Before
<1>7. \A q \in Ids : SameMessages(q)
  BY SayQueues, IdleQueues DEF Insert, Erase
<1>8. QED
  BY <1>1, <1>5, <1>6, <1>7
     DEF ThreadsOK, Before, Handler, Running, GivenMain, Threads, threadVars, SameMessages

LEMMA ReturnThreads ==
    ASSUME TypeOK, ThreadsOK, NEW t \in Threads, Return(t)
    PROVE  ThreadsOK'
<1>1. /\ busy[t] # Idle
      /\ \A u \in Threads : busy'[u] = IF u = t THEN Idle ELSE busy[u]
      /\ UNCHANGED <<threadVars, bound, queue>>
  BY DEF Return, TypeOK
<1>2. at["main"] \notin {"construct", "setup"}
  BY <1>1 DEF ThreadsOK, Before
<1>3. QED
  BY <1>1, <1>2
     DEF ThreadsOK, Before, Handler, Running, GivenMain, Threads, threadVars, MessageQueued, Held

LEMMA TimeoutThreads ==
    ASSUME TypeOK, ThreadsOK, NEW p \in Ids, Timeout(p)
    PROVE  ThreadsOK'
<1>1. /\ at["worker"] = "timeout"
      /\ DOMAIN peers # {}
      /\ busy' = [busy EXCEPT !["worker"] =
             [op |-> "disconnect", peer |-> p, todo |-> Script("disconnect", p \in users)]]
      /\ UNCHANGED <<threadVars, bound, peers, queue>>
  BY DEF Timeout, Start, tableVars
<1>2. Script("disconnect", p \in users) \in Todo("disconnect")
  <2>1. (p \in users) \in BOOLEAN
    OBVIOUS
  <2>2. QED
    BY <2>1, ScriptTodo
<1>3. /\ busy'["worker"].op = "disconnect"
      /\ busy'["worker"].todo \in Todo(busy'["worker"].op)
      /\ busy'["main"] = busy["main"]
  BY <1>1, <1>2 DEF TypeOK, Threads
<1>4. at["main"] \notin {"construct", "setup"}
  BY <1>1 DEF ThreadsOK, Before
<1>5. QED
  BY <1>1, <1>3, <1>4
     DEF ThreadsOK, Before, Handler, Running, GivenMain, Threads, threadVars, MessageQueued, Held

\* Message callbacks go to the thread that the node was given or that is in run.
LEMMA ArriveThreads ==
    ASSUME TypeOK, ThreadsOK, NEW a \in Addresses, NEW p \in Ids, NEW ms \in Messages,
           Incoming(a, ms, p)
    PROVE  ThreadsOK'
<1>1. /\ bound \/ DOMAIN peers # {}
      /\ at'["main"] = at["main"]
      /\ at["worker"] \in {"handle_incoming", "accepted"}
      /\ UNCHANGED <<given, handler_id, bound, busy>>
  BY ArriveEntry
<1>2. at["main"] \notin {"construct", "setup"}
  BY <1>1 DEF ThreadsOK, Before
<1>3. given = "main" => handler_id = "main"
  BY <1>2 DEF ThreadsOK, Handler, TypeOK, MainAt
<1>4. ASSUME given = "main", NEW q \in Ids
      PROVE  ~MessageQueued("worker", q)'
  <2>1. "worker" \in Threads /\ ~MessageQueued("worker", q)
    BY <1>4 DEF ThreadsOK, GivenMain, Threads
  <2>2. QED
    BY <1>3, <1>4, <2>1, ArriveQueues DEF SameMessages
<1>5. QED
  BY <1>1, <1>2, <1>4 DEF ThreadsOK, Before, Handler, Running, GivenMain

LEMMA ThreadsStep == TypeOK /\ ThreadsOK /\ [Next]_vars => ThreadsOK'
<1> SUFFICES ASSUME TypeOK, ThreadsOK, [Next]_vars PROVE ThreadsOK'
  OBVIOUS
<1>1. ASSUME UNCHANGED <<at, given, handler_id, tableVars, queue, busy>>
      PROVE  ThreadsOK'
  BY <1>1 DEF ThreadsOK, Before, Handler, Running, GivenMain, MessageQueued, Held, tableVars
<1>2. CASE Stop \/ \E a \in Addresses : ClientRun(a) \/ ClientLine(a)
  BY <1>1, <1>2 DEF Stop, ClientRun, ClientLine, threadVars
<1>3. CASE UNCHANGED vars
  BY <1>1, <1>3 DEF vars, threadVars
<1>4. QED
  BY <1>2, <1>3, Steps, ProceedThreads, CallbackThreads, ReturnThreads, ExecuteThreads,
     TimeoutThreads, ArriveThreads

LEMMA ThreadsInvariant == Spec => [](TypeOK /\ HandedOut /\ ThreadsOK)
<1>1. Init => TypeOK /\ HandedOut /\ ThreadsOK
  BY InitType, InitThreads
<1>2. (TypeOK /\ HandedOut /\ ThreadsOK) /\ [Next]_vars => (TypeOK /\ HandedOut /\ ThreadsOK)'
  BY TypeStep, HandedOutStep, ThreadsStep
<1>3. QED
  BY <1>1, <1>2, PTL DEF Spec

(***************************************************************************)
(* The constructor sets handler_id after it has started the worker, but no   *)
(* datagram is handled and no entry exists before it has.                   *)
(***************************************************************************)
THEOREM HandlerKnownHolds == Spec => []HandlerKnown
<1>1. TypeOK /\ ThreadsOK => HandlerKnown
  BY DEF TypeOK, ThreadsOK, Before, Handler, HandlerKnown, MainAt, Threads
<1>2. QED
  BY <1>1, ThreadsInvariant, PTL

(***************************************************************************)
(* Whenever run() takes over, and whatever was queued before: only a node    *)
(* that was constructed without a thread has message callbacks that the      *)
(* worker runs.                                                             *)
(***************************************************************************)
THEOREM OnHandlerThreadHolds == Spec => []OnHandlerThread
<1>1. TypeOK /\ ThreadsOK => OnHandlerThread
  <2> SUFFICES ASSUME TypeOK, ThreadsOK, NEW t \in Threads, busy[t] # Idle
               PROVE  \/ t = handler_id
                      \/ t = "worker" /\ (given = "worker" \/ busy[t].op = "disconnect")
    BY DEF OnHandlerThread
  <2>1. CASE t = "main"
    BY <2>1 DEF ThreadsOK, Running, Handler
  <2>2. CASE t = "worker"
    <3>1. given \in Threads
      BY DEF ThreadsOK, Before, Handler
    <3>2. QED
      BY <2>2, <3>1 DEF ThreadsOK, GivenMain, Threads
  <2>3. QED
    BY <2>1, <2>2 DEF Threads
<1>2. QED
  BY <1>1, ThreadsInvariant, PTL

-----------------------------------------------------------------------------
(***************************************************************************)
(* A peer none of whose callbacks has overtaken another: its callbacks are   *)
(* on one thread at a time, they are over when its entry is gone, and what   *)
(* is told about it follows what they do to users.                          *)
(***************************************************************************)

\* A callback of p waits for the thread t or runs on it.
Acts(t, p) == MessageQueued(t, p) \/ About(t, p)

\* The text x has been told about p, or waits to be.
Told(p, x)   == Has(said[p], x) \/ Held("worker", Broadcast(p, x))
Announced(p) == \E x \in Texts : Told(p, x)
Gone(p)      == Told(p, "left")

Disconnecting(p) == About("worker", p) /\ busy["worker"].op = "disconnect"

\* What is true between two steps of a callback about p.
Halfway(t, p) ==
    /\ busy[t].todo = <<"insert", "joined">> => p \notin users /\ ~Announced(p)
    /\ busy[t].todo = <<"joined">>           => p \in users /\ ~Announced(p)
    /\ busy[t].todo = <<"line">>             => p \in users /\ Announced(p)
    /\ busy[t].todo = <<"left", "erase">>    => p \in users /\ Announced(p) /\ ~Gone(p)
    /\ busy[t].todo = <<"erase">>            => Gone(p)
    /\ (busy[t].todo = << >> /\ busy[t].op = "disconnect") => p \notin users

PeerOK(p) ==
    /\ \A t, u \in Threads : (Acts(t, p) /\ Acts(u, p)) => t = u
    /\ p \notin DOMAIN peers => p \notin users /\ \A t \in Threads : ~Acts(t, p)
    /\ p >= next_peer_id => ~Announced(p)
    /\ Disconnecting(p) => ~MessageQueued("worker", p)
    /\ Announced(p) => p \in users \/ Gone(p)
    /\ p \in users => Announced(p) \/ \E t \in Threads : About(t, p) /\ busy[t].todo = <<"joined">>
    /\ (Gone(p) /\ p \in DOMAIN peers) =>
           Disconnecting(p) /\ busy["worker"].todo \in {<<"erase">>, << >>}
    /\ \A t \in Threads : About(t, p) => Halfway(t, p)

SameTold(p) == \A x \in Texts : Told(p, x)' <=> Told(p, x)

\* A step that has nothing to do with p.
Untouched(p) ==
    /\ SameMessages(p)
    /\ SameTold(p)
    /\ \A t \in Threads : About(t, p)' <=> About(t, p)
    /\ \A t \in Threads : About(t, p) => busy'[t] = busy[t]
    /\ p \in users' <=> p \in users
    /\ p \in DOMAIN peers' <=> p \in DOMAIN peers
    /\ p >= next_peer_id' => p >= next_peer_id

LEMMA UntouchedPeer ==
    ASSUME NEW p \in Ids, PeerOK(p), Untouched(p)
    PROVE  PeerOK(p)'
<1>1. /\ \A t \in Threads : Acts(t, p)' <=> Acts(t, p)
      /\ Announced(p)' <=> Announced(p)
      /\ Gone(p)' <=> Gone(p)
      /\ Disconnecting(p)' <=> Disconnecting(p)
  BY DEF Untouched, SameMessages, SameTold, Acts, Announced, Gone, Disconnecting, Texts, Threads
<1>2. \A t \in Threads : About(t, p)' => Halfway(t, p)'
  BY <1>1 DEF PeerOK, Untouched, Halfway
<1>3. "worker" \in Threads
  BY DEF Threads
<1>4. Disconnecting(p) => busy'["worker"] = busy["worker"]
  BY <1>3 DEF Disconnecting, Untouched
<1>5. MessageQueued("worker", p)' <=> MessageQueued("worker", p)
  BY <1>3 DEF Untouched, SameMessages
<1>6. QED
  BY <1>1, <1>2, <1>4, <1>5 DEF PeerOK, Untouched

\* Where callbacks of p wait or run, in the words of the module.
LEMMA PendingActs ==
    ASSUME TypeOK, NEW p \in Ids
    PROVE  Pending(p) = {t \in Threads : Acts(t, p)}
<1> SUFFICES ASSUME NEW t \in Threads
             PROVE  (\E i \in 1 .. Len(queue[t]) :
                        queue[t][i].op = "message" /\ queue[t][i].peer = p) <=>
                    MessageQueued(t, p)
  BY DEF Pending, Acts, About
<1>1. queue[t] \in Seq(Closure)
  BY DEF TypeOK
<1>2. \A i \in 1 .. Len(queue[t]) : queue[t][i] \in Closure
  BY <1>1
<1>3. \A k \in Closure : (k.op = "message" /\ k.peer = p) <=> \E m \in Kinds : k = Received(p, m)
  BY DEF Closure, Received, Bind, Connected, Broadcast
<1>4. QED
  BY <1>2, <1>3 DEF MessageQueued, Held, Has

\* What is told of p changes only with broadcasts about it.
LEMMA ToldKept ==
    ASSUME TypeOK, NEW p \in Ids, SameBroadcasts(p), said'[p] = said[p]
    PROVE  SameTold(p)
BY DEF SameBroadcasts, SameTold, Told

\* The stages of the scripts are different.
LEMMA TodosDiffer ==
    /\ <<"insert", "joined">> \notin {<<"joined">>, <<"line">>, <<"left", "erase">>, <<"erase">>, << >>}
    /\ <<"joined">> \notin {<<"line">>, <<"left", "erase">>, <<"erase">>, << >>}
    /\ <<"line">> \notin {<<"left", "erase">>, <<"erase">>, << >>}
    /\ <<"left", "erase">> \notin {<<"erase">>, << >>}
    /\ <<"erase">> # << >>
<1>1. /\ Len(<<"insert", "joined">>) = 2 /\ <<"insert", "joined">>[1] = "insert"
      /\ Len(<<"left", "erase">>) = 2 /\ <<"left", "erase">>[1] = "left"
      /\ Len(<<"joined">>) = 1 /\ <<"joined">>[1] = "joined"
      /\ Len(<<"line">>) = 1 /\ <<"line">>[1] = "line"
      /\ Len(<<"erase">>) = 1 /\ <<"erase">>[1] = "erase"
      /\ Len(<< >>) = 0
  OBVIOUS
<1>2. QED
  BY <1>1

\* The next step of a callback tells which script it is in, and where.
LEMMA Stage ==
    ASSUME NEW op \in Kinds \cup {"disconnect"}, NEW todo \in Todo(op), todo # << >>
    PROVE  /\ Head(todo) = "insert" => /\ todo = <<"insert", "joined">> /\ op = "join"
                                       /\ Tail(todo) = <<"joined">>
           /\ Head(todo) = "joined" => todo = <<"joined">> /\ op = "join" /\ Tail(todo) = << >>
           /\ Head(todo) = "line"   => todo = <<"line">> /\ op = "chat" /\ Tail(todo) = << >>
           /\ Head(todo) = "left"   => /\ todo = <<"left", "erase">> /\ op = "disconnect"
                                       /\ Tail(todo) = <<"erase">>
           /\ Head(todo) = "erase"  => todo = <<"erase">> /\ op = "disconnect" /\ Tail(todo) = << >>
<1>1. /\ Head(<<"insert", "joined">>) = "insert" /\ Tail(<<"insert", "joined">>) = <<"joined">>
      /\ Head(<<"left", "erase">>) = "left" /\ Tail(<<"left", "erase">>) = <<"erase">>
      /\ Head(<<"joined">>) = "joined" /\ Tail(<<"joined">>) = << >>
      /\ Head(<<"line">>) = "line" /\ Tail(<<"line">>) = << >>
      /\ Head(<<"erase">>) = "erase" /\ Tail(<<"erase">>) = << >>
  OBVIOUS
<1>2. CASE op = "join"
  BY <1>1, <1>2 DEF Todo
<1>3. CASE op = "chat"
  BY <1>1, <1>3 DEF Todo
<1>4. CASE op = "disconnect"
  BY <1>1, <1>4 DEF Todo
<1>5. QED
  BY <1>2, <1>3, <1>4 DEF Kinds

\* The step x of a callback about p: what it leaves alone, and the stages before and after.
LEMMA DoStep ==
    ASSUME TypeOK, ThreadsOK, NEW t \in Threads, NEW p \in Ids, NEW x, Do(t, p, x)
    PROVE  /\ About(t, p) /\ About(t, p)'
           /\ \A u \in Threads : u # t => busy'[u] = busy[u]
           /\ \A u \in Threads : \A q : About(u, q)' <=> About(u, q)
           /\ \A q : q # p => ~About(t, q)
           /\ busy'[t].op = busy[t].op
           /\ busy[t].op = "disconnect" => t = "worker"
           /\ busy'[t].todo = Tail(busy[t].todo)
           /\ x = "insert" => /\ busy[t].todo = <<"insert", "joined">> /\ busy[t].op = "join"
                              /\ busy'[t].todo = <<"joined">>
           /\ x = "joined" => /\ busy[t].todo = <<"joined">> /\ busy[t].op = "join"
                              /\ busy'[t].todo = << >>
           /\ x = "line"   => /\ busy[t].todo = <<"line">> /\ busy[t].op = "chat"
                              /\ busy'[t].todo = << >>
           /\ x = "left"   => /\ busy[t].todo = <<"left", "erase">> /\ busy[t].op = "disconnect"
                              /\ busy'[t].todo = <<"erase">>
           /\ x = "erase"  => /\ busy[t].todo = <<"erase">> /\ busy[t].op = "disconnect"
                              /\ busy'[t].todo = << >>
<1>1. busy \in [Threads -> Callback]
  BY DEF TypeOK
<1>2. /\ busy[t] # Idle /\ busy[t].peer = p
      /\ busy[t].todo # << >> /\ Head(busy[t].todo) = x
      /\ busy' = [busy EXCEPT ![t].todo = Tail(@)]
  BY DEF Do, historyVars
<1>3. busy[t] \in [op : Kinds \cup {"disconnect"}, peer : Ids,
                   todo : Seq(Texts \cup {"insert", "erase"})]
  BY <1>1, <1>2 DEF Callback
<1>4. busy[t].todo \in Todo(busy[t].op) /\ busy[t].op \in Kinds \cup {"disconnect"}
  BY <1>2, <1>3 DEF ThreadsOK, Running
<1>5. /\ busy'[t].op = busy[t].op /\ busy'[t].peer = p
      /\ busy'[t].todo = Tail(busy[t].todo)
      /\ \A u \in Threads : u # t => busy'[u] = busy[u]
  BY <1>1, <1>2, <1>3
<1>6. busy'[t] # Idle
  <2>1. busy'[t].op # "idle"
    BY <1>4, <1>5 DEF Kinds
  <2>2. QED
    BY <2>1 DEF Idle
<1>7. busy[t].op = "disconnect" => t = "worker"
  BY <1>2 DEF ThreadsOK, Running, Kinds, Threads
<1>8. /\ \A u \in Threads : \A q : About(u, q)' <=> About(u, q)
      /\ About(t, p) /\ \A q : q # p => ~About(t, q)
  BY <1>2, <1>5, <1>6 DEF About
<1>9. QED
  BY <1>2, <1>4, <1>5, <1>7, <1>8, Stage, ZenonT(60)

\* The peer a callback acts on is in the table, and no other callback is about it.
LEMMA OnlyActor ==
    ASSUME NEW t \in Threads, NEW p \in Ids, PeerOK(p), Acts(t, p)
    PROVE  /\ p \in DOMAIN peers
           /\ \A u \in Threads : u # t => ~Acts(u, p) /\ ~About(u, p) /\ ~MessageQueued(u, p)
           /\ Disconnecting(p) => t = "worker"
BY DEF PeerOK, Acts, Disconnecting, Threads

LEMMA InsertPeer ==
    ASSUME TypeOK, ThreadsOK, NEW t \in Threads, NEW p \in Ids, Insert(t, p),
           NEW q \in Ids, PeerOK(q)
    PROVE  PeerOK(q)'
<1>1. /\ Do(t, p, "insert") /\ users' = users \cup {p}
      /\ UNCHANGED <<queue, said, next_peer_id, peers>>
  BY DEF Insert, Do, tableVars, historyVars
<1>2. SameMessages(q) /\ SameTold(q)
  BY <1>1, IdleQueues, ToldKept
<1>3. CASE q # p
  <2>1. Untouched(q)
    BY <1>1, <1>2, <1>3, DoStep DEF Untouched
  <2>2. QED
    BY <2>1, UntouchedPeer
<1>4. CASE q = p
  <2>1. /\ About(t, p) /\ busy[t].todo = <<"insert", "joined">> /\ busy[t].op = "join"
        /\ busy'[t].todo = <<"joined">> /\ busy'[t].op = "join"
        /\ \A u \in Threads : About(u, p)' <=> About(u, p)
    BY <1>1, DoStep
  <2>2. /\ p \in DOMAIN peers
        /\ \A u \in Threads : u # t => ~Acts(u, p) /\ ~About(u, p)
        /\ ~Disconnecting(p)
    BY <1>4, <2>1, OnlyActor DEF Acts, Disconnecting
  <2>3. ~Announced(p)
    BY <1>4, <2>1 DEF PeerOK, Halfway
  <2>4. /\ \A u \in Threads : Acts(u, p)' <=> Acts(u, p)
        /\ ~Announced(p)' /\ ~Gone(p)'
        /\ ~Disconnecting(p)'
    BY <1>2, <1>4, <2>1, <2>2, <2>3
       DEF SameMessages, SameTold, Acts, Announced, Gone, Disconnecting, Texts, Threads
  <2>5. Halfway(t, p)'
    BY <1>1, <2>1, <2>4, TodosDiffer DEF Halfway
  <2>6. QED
    BY <1>1, <1>4, <2>1, <2>2, <2>4, <2>5 DEF PeerOK
<1>5. QED
  BY <1>3, <1>4

LEMMA ErasePeer ==
    ASSUME TypeOK, ThreadsOK, NEW t \in Threads, NEW p \in Ids, Erase(t, p),
           NEW q \in Ids, PeerOK(q)
    PROVE  PeerOK(q)'
<1>1. /\ Do(t, p, "erase") /\ users' = users \ {p}
      /\ UNCHANGED <<queue, said, next_peer_id, peers>>
  BY DEF Erase, Do, tableVars, historyVars
<1>2. SameMessages(q) /\ SameTold(q)
  BY <1>1, IdleQueues, ToldKept
<1>3. CASE q # p
  <2>1. Untouched(q)
    BY <1>1, <1>2, <1>3, DoStep DEF Untouched
  <2>2. QED
    BY <2>1, UntouchedPeer
<1>4. CASE q = p
  <2>1. /\ About(t, p) /\ busy[t].todo = <<"erase">> /\ busy[t].op = "disconnect"
        /\ busy'[t].todo = << >> /\ busy'[t].op = "disconnect"
        /\ t = "worker"
        /\ \A u \in Threads : About(u, p)' <=> About(u, p)
    BY <1>1, DoStep
  <2>2. /\ p \in DOMAIN peers
        /\ \A u \in Threads : u # t => ~Acts(u, p) /\ ~About(u, p)
        /\ Disconnecting(p)
    BY <1>4, <2>1, OnlyActor DEF Acts, Disconnecting
  <2>3. Gone(p)
    BY <1>4, <2>1 DEF PeerOK, Halfway
  <2>4. /\ \A u \in Threads : Acts(u, p)' <=> Acts(u, p)
        /\ Gone(p)' /\ (Announced(p)' <=> Announced(p))
        /\ Disconnecting(p)'
        /\ ~MessageQueued("worker", p)'
    BY <1>2, <1>4, <2>1, <2>2, <2>3
       DEF PeerOK, SameMessages, SameTold, Acts, Announced, Gone, Disconnecting, Texts, Threads
  <2>5. Halfway(t, p)'
    BY <1>1, <2>1, <2>4, TodosDiffer DEF Halfway
  <2>6. QED
    BY <1>1, <1>4, <2>1, <2>2, <2>4, <2>5 DEF PeerOK
<1>5. QED
  BY <1>3, <1>4

LEMMA SayPeer ==
    ASSUME TypeOK, ThreadsOK, NEW t \in Threads, NEW p \in Ids, NEW x \in Texts, Say(t, p, x),
           NEW q \in Ids, PeerOK(q)
    PROVE  PeerOK(q)'
<1>1. /\ Do(t, p, x)
      /\ UNCHANGED <<users, said, next_peer_id, peers>>
  BY DEF Say, Do, tableVars, historyVars
<1>2. SameMessages(q)
  BY SayQueues
<1>3. \A y \in Texts : Told(q, y)' <=> (Told(q, y) \/ (q = p /\ y = x))
  BY <1>1, SayQueues DEF Told
<1>4. CASE q # p
  <2>1. Untouched(q)
    BY <1>1, <1>2, <1>3, <1>4, DoStep DEF Untouched, SameTold
  <2>2. QED
    BY <2>1, UntouchedPeer
<1>5. CASE q = p
  <2>1. /\ About(t, p) /\ About(t, p)' /\ busy'[t].op = busy[t].op
        /\ busy[t].op = "disconnect" => t = "worker"
        /\ \A u \in Threads : About(u, p)' <=> About(u, p)
    BY <1>1, DoStep
  <2>2. /\ p \in DOMAIN peers
        /\ \A u \in Threads : u # t => ~Acts(u, p) /\ ~About(u, p)
        /\ Disconnecting(p) <=> busy[t].op = "disconnect"
    BY <1>5, <2>1, OnlyActor DEF Acts, Disconnecting
  <2>3. /\ \A u \in Threads : Acts(u, p)' <=> Acts(u, p)
        /\ Announced(p)'
        /\ Gone(p)' <=> (Gone(p) \/ x = "left")
        /\ Disconnecting(p)' <=> Disconnecting(p)
        /\ MessageQueued("worker", p)' <=> MessageQueued("worker", p)
    BY <1>2, <1>3, <1>5, <2>1, <2>2
       DEF SameMessages, Acts, Announced, Gone, Disconnecting, Texts, Threads
  <2>4. p \in users
    <3>1. \/ busy[t].todo = <<"joined">>
          \/ busy[t].todo = <<"line">>
          \/ busy[t].todo = <<"left", "erase">>
      BY <1>1, DoStep DEF Texts
    <3>2. QED
      BY <1>5, <2>1, <3>1 DEF PeerOK, Halfway
  <2>5. ~(p >= next_peer_id)
    BY <2>2 DEF TypeOK
  <2>6. CASE x = "left"
    <3>1. busy'[t].todo = <<"erase">> /\ busy[t].op = "disconnect"
      BY <1>1, <2>6, DoStep
    <3>2. Halfway(t, p)'
      BY <2>3, <2>6, <3>1, TodosDiffer DEF Halfway
    <3>3. QED
      BY <1>1, <1>5, <2>1, <2>2, <2>3, <2>4, <2>5, <3>1, <3>2 DEF PeerOK
  <2>7. CASE x # "left"
    <3>1. busy'[t].todo = << >> /\ busy[t].op # "disconnect"
      BY <1>1, <2>7, DoStep DEF Texts
    <3>2. ~Gone(p)'
      BY <1>5, <2>2, <2>3, <2>7, <3>1 DEF PeerOK
    <3>3. Halfway(t, p)'
      BY <2>1, <3>1, TodosDiffer DEF Halfway
    <3>4. QED
      BY <1>1, <1>5, <2>1, <2>2, <2>3, <2>4, <2>5, <3>1, <3>2, <3>3 DEF PeerOK
  <2>8. QED
    BY <2>6, <2>7
<1>6. QED
  BY <1>4, <1>5

\* A callback about p starts when no other one runs, and none waits elsewhere.
LEMMA StartPeer ==
    ASSUME TypeOK, NEW t \in Threads, NEW p \in Ids, NEW op \in Kinds \cup {"disconnect"},
           Start(t, op, p), busy[t] = Idle, p \in DOMAIN peers, PeerOK(p),
           \A u \in Threads : Acts(u, p) => u = t,
           \A u \in Threads : MessageQueued(u, p)' => MessageQueued(u, p),
           op = "disconnect" => t = "worker" /\ ~MessageQueued("worker", p)',
           SameBroadcasts(p),
           UNCHANGED <<users, said, next_peer_id, peers>>
    PROVE  PeerOK(p)'
<1> DEFINE known == p \in users
<1>1. known \in BOOLEAN
  OBVIOUS
<1>2. SameTold(p)
  BY ToldKept
<1>3. \A u \in Threads : ~About(u, p)
  BY DEF Acts, About
<1>4. ~Disconnecting(p) /\ ~Gone(p)
  BY <1>3 DEF PeerOK, Disconnecting, Threads
<1>5. known <=> Announced(p)
  BY <1>3, <1>4 DEF PeerOK
<1>6. Announced(p)' <=> Announced(p)
  BY <1>2 DEF SameTold, Announced, Texts
<1>7. ~Gone(p)'
  BY <1>2, <1>4 DEF SameTold, Gone, Texts
<1>8. ~(p >= next_peer_id)
  BY DEF TypeOK
<1>9. busy' = [busy EXCEPT ![t] = [op |-> op, peer |-> p, todo |-> Script(op, known)]]
  BY DEF Start
<1>10. /\ busy'[t].op = op /\ busy'[t].todo = Script(op, known)
       /\ \A u \in Threads : u # t => busy'[u] = busy[u]
  BY <1>9 DEF TypeOK
<1>11. \A u \in Threads : About(u, p)' => u = t
  BY <1>3, <1>10 DEF About
<1>12. \A u \in Threads : Acts(u, p)' => u = t
  BY <1>11 DEF Acts
<1>13. Disconnecting(p)' => ~MessageQueued("worker", p)'
  BY <1>10, <1>11 DEF Disconnecting, Kinds, Threads
<1>14. Halfway(t, p)'
  <2> HIDE DEF known
  <2>1. CASE op = "join"
    <3>1. Script(op, known) = IF known THEN << >> ELSE <<"insert", "joined">>
      BY <2>1 DEF Script
    <3>2. QED
      BY <1>1, <1>5, <1>6, <1>10, <2>1, <3>1, TodosDiffer DEF Halfway, known
  <2>2. CASE op = "chat"
    <3>1. Script(op, known) = IF known THEN <<"line">> ELSE << >>
      BY <2>2 DEF Script
    <3>2. QED
      BY <1>1, <1>5, <1>6, <1>10, <2>2, <3>1, TodosDiffer DEF Halfway, known
  <2>3. CASE op = "disconnect"
    <3>1. Script(op, known) = IF known THEN <<"left", "erase">> ELSE << >>
      BY <2>3 DEF Script
    <3>2. QED
      BY <1>1, <1>5, <1>6, <1>7, <1>10, <2>3, <3>1, TodosDiffer DEF Halfway, known
  <2>4. QED
    BY <2>1, <2>2, <2>3 DEF Kinds
<1>15. QED
  BY <1>5, <1>6, <1>7, <1>8, <1>11, <1>12, <1>13, <1>14 DEF PeerOK

\* Starting a callback about one peer leaves the others alone.
LEMMA StartOthers ==
    ASSUME TypeOK, NEW t \in Threads, NEW p \in Ids, NEW op \in Kinds \cup {"disconnect"},
           Start(t, op, p), busy[t] = Idle,
           NEW q \in Ids, q # p, SameMessages(q), SameTold(q),
           UNCHANGED <<users, next_peer_id, peers>>
    PROVE  Untouched(q)
<1>1. /\ busy'[t].peer = p
      /\ \A u \in Threads : u # t => busy'[u] = busy[u]
  BY DEF TypeOK, Start
<1>2. \A u \in Threads : /\ About(u, q)' <=> About(u, q)
                         /\ About(u, q) => busy'[u] = busy[u]
  BY <1>1 DEF About
<1>3. QED
  BY <1>2 DEF Untouched

LEMMA RunReceivedPeer ==
    ASSUME TypeOK, NEW t \in Threads, NEW p \in Ids, NEW m \in Kinds, RunReceived(t, p, m),
           NEW q \in Ids, PeerOK(q)
    PROVE  PeerOK(q)'
<1>1. /\ Start(t, m, p) /\ busy[t] = Idle
      /\ UNCHANGED <<users, said, next_peer_id, peers>>
  BY DEF RunReceived, Take, tableVars, serverVars, historyVars
<1>2. /\ MessageQueued(t, p)
      /\ \A u \in Threads : MessageQueued(u, p)' => MessageQueued(u, p)
      /\ SameBroadcasts(q)
      /\ q # p => SameMessages(q)
  BY RunReceivedQueues
<1>3. m \in Kinds \cup {"disconnect"} /\ m # "disconnect"
  BY DEF Kinds
<1>4. CASE q # p
  <2>1. SameTold(q)
    BY <1>1, <1>2, ToldKept
  <2>2. QED
    BY <1>1, <1>2, <1>3, <1>4, <2>1, StartOthers, UntouchedPeer
<1>5. CASE q = p
  <2>1. p \in DOMAIN peers /\ \A u \in Threads : Acts(u, p) => u = t
    BY <1>2, <1>5, OnlyActor DEF Acts
  <2>2. QED
    BY <1>1, <1>2, <1>3, <1>5, <2>1, StartPeer
<1>6. QED
  BY <1>4, <1>5

\* The disconnect callback overtakes nothing, or its peer is no longer considered.
LEMMA TimeoutPeer ==
    ASSUME TypeOK, NEW p \in Ids, Timeout(p), NEW q \in Ids \ overtaken', PeerOK(q)
    PROVE  PeerOK(q)'
<1>1. /\ Start("worker", "disconnect", p) /\ busy["worker"] = Idle /\ "worker" \in Threads
      /\ p \in DOMAIN peers
      /\ UNCHANGED <<queue, users, said, next_peer_id, peers>>
  BY DEF Timeout, tableVars, Threads
<1>2. SameMessages(q) /\ SameBroadcasts(q) /\ SameTold(q)
  BY <1>1, IdleQueues, ToldKept
<1>3. CASE q # p
  BY <1>1, <1>2, <1>3, StartOthers, UntouchedPeer
<1>4. CASE q = p
  <2>1. Pending(p) = {}
    BY <1>4 DEF Timeout
  <2>2. \A u \in Threads : ~Acts(u, p)
    BY <2>1, PendingActs
  <2>3. \A u \in Threads : ~MessageQueued(u, p)'
    BY <1>2, <1>4, <2>2 DEF SameMessages, Acts
  <2>4. QED
    BY <1>1, <1>2, <1>4, <2>2, <2>3, StartPeer
<1>5. QED
  BY <1>3, <1>4

\* A callback returns, and with the disconnect callback the entry goes.
LEMMA ReturnPeer ==
    ASSUME TypeOK, ThreadsOK, NEW t \in Threads, Return(t), NEW q \in Ids, PeerOK(q)
    PROVE  PeerOK(q)'
<1> DEFINE p == busy[t].peer
<1>1. /\ busy[t] # Idle /\ busy[t].todo = << >>
      /\ \A u \in Threads : busy'[u] = IF u = t THEN Idle ELSE busy[u]
      /\ DOMAIN peers' = IF busy[t].op = "disconnect" THEN DOMAIN peers \ {p} ELSE DOMAIN peers
      /\ UNCHANGED <<queue, users, said, next_peer_id>>
  BY DEF Return, TypeOK, serverVars, historyVars
<1> HIDE DEF p
<1>2. busy[t].op = "disconnect" => t = "worker"
  BY <1>1 DEF ThreadsOK, Running, Kinds, Threads
<1>3. SameMessages(q) /\ SameTold(q)
  BY <1>1, IdleQueues, ToldKept
<1>4. \A u \in Threads : About(u, q)' <=> About(u, q) /\ u # t
  BY <1>1 DEF About
<1>5. CASE q # p
  <2>1. ~About(t, q)
    BY <1>5 DEF About, p
  <2>2. Untouched(q)
    BY <1>1, <1>3, <1>4, <1>5, <2>1 DEF Untouched, About
  <2>3. QED
    BY <2>2, UntouchedPeer
<1>6. CASE q = p
  <2>1. About(t, q)
    BY <1>1, <1>6 DEF About, p
  <2>2. /\ q \in DOMAIN peers /\ \A u \in Threads : u # t => ~Acts(u, q)
        /\ Disconnecting(q) <=> busy[t].op = "disconnect"
    BY <1>2, <2>1, OnlyActor DEF Acts, Disconnecting
  <2>3. /\ \A u \in Threads : ~About(u, q)'
        /\ \A u \in Threads : Acts(u, q)' => u = t /\ MessageQueued(t, q)
    BY <1>3, <1>4, <2>2 DEF Acts, SameMessages
  <2>4. ~Disconnecting(q)'
    BY <2>3 DEF Disconnecting, Threads
  <2>5. /\ Announced(q)' <=> Announced(q)
        /\ Gone(q)' <=> Gone(q)
    BY <1>3 DEF SameTold, Announced, Gone, Texts
  <2>6. ~(q >= next_peer_id)
    BY <2>2 DEF TypeOK
  <2>7. q \in users => Announced(q)
    <3>1. ASSUME NEW u \in Threads, About(u, q) PROVE busy[u].todo # <<"joined">>
      BY <1>1, <2>2, <3>1, TodosDiffer DEF Acts
    <3>2. QED
      BY <3>1 DEF PeerOK
  <2>8. CASE busy[t].op = "disconnect"
    <3>1. /\ q \notin users
          /\ ~MessageQueued("worker", q)
      BY <1>1, <2>1, <2>2, <2>8 DEF PeerOK, Halfway
    <3>2. \A u \in Threads : ~Acts(u, q)'
      BY <1>2, <2>3, <2>8, <3>1
    <3>3. Announced(q) => Gone(q)
      BY <3>1 DEF PeerOK
    <3>4. q \notin DOMAIN peers'
      BY <1>1, <1>6, <2>8
    <3>5. QED
      BY <1>1, <2>3, <2>4, <2>5, <2>6, <3>1, <3>2, <3>3, <3>4 DEF PeerOK
  <2>9. CASE busy[t].op # "disconnect"
    <3>1. ~Gone(q)
      BY <2>2, <2>9 DEF PeerOK
    <3>2. q \in DOMAIN peers'
      BY <1>1, <2>2, <2>9
    <3>3. Announced(q) => q \in users
      BY <3>1 DEF PeerOK
    <3>4. QED
      BY <1>1, <2>3, <2>4, <2>5, <2>6, <2>7, <3>1, <3>2, <3>3 DEF PeerOK
  <2>10. QED
    BY <2>8, <2>9
<1>7. QED
  BY <1>5, <1>6

\* A text that waited to be told has been told.
LEMMA RunBroadcastPeer ==
    ASSUME TypeOK, NEW p \in Ids, NEW x \in Texts, RunBroadcast(p, x),
           NEW q \in Ids, PeerOK(q)
    PROVE  PeerOK(q)'
<1>1. /\ UNCHANGED <<busy, users, next_peer_id, peers>>
      /\ said[q] \in Seq(Texts)
      /\ said'[q] = IF q = p THEN Append(said[q], x) ELSE said[q]
  BY DEF RunBroadcast, tableVars, TypeOK, historyVars
<1>2. \A y : Has(said'[q], y) <=> (Has(said[q], y) \/ (q = p /\ y = x))
  BY <1>1, HasAppend
<1>3. SameTold(q)
  BY <1>2, RunBroadcastQueues DEF SameTold, Told
<1>4. Untouched(q)
  BY <1>1, <1>3, RunBroadcastQueues DEF Untouched, About
<1>5. QED
  BY <1>4, UntouchedPeer

\* A message for a known peer overtakes nothing; a new peer has the next id.
LEMMA ArrivePeer ==
    ASSUME TypeOK, ThreadsOK, NEW a \in Addresses, NEW p \in Ids, NEW ms \in Messages,
           Incoming(a, ms, p), NEW q \in Ids \ overtaken', PeerOK(q)
    PROVE  PeerOK(q)'
<1>1. /\ at["worker"] \in {"handle_incoming", "accepted"}
      /\ DOMAIN peers' = DOMAIN peers \cup {p}
      /\ next_peer_id \in Nat /\ next_peer_id' \in Nat
      /\ next_peer_id <= next_peer_id' /\ p < next_peer_id'
      /\ p \in DOMAIN peers \/ p = next_peer_id
      /\ q \in Nat
      /\ UNCHANGED <<handler_id, busy, users, said>>
  <2>1. /\ at["worker"] \in {"handle_incoming", "accepted"}
        /\ IF Found(a) # {} THEN p \in DOMAIN peers ELSE p = next_peer_id
        /\ DOMAIN peers' = DOMAIN peers \cup {p}
        /\ next_peer_id \in Nat /\ next_peer_id' \in 0 .. MaxPeers
        /\ next_peer_id <= next_peer_id' /\ p < next_peer_id'
        /\ UNCHANGED <<handler_id, busy>>
    BY ArriveEntry
  <2>2. UNCHANGED <<users, said>>
    BY IncomingOvertakes
  <2>3. next_peer_id' \in Nat /\ q \in Nat
    BY <2>1, DispatchAssumption DEF Ids
  <2>4. QED
    BY <2>1, <2>2, <2>3
<1>2. \A u \in Threads : About(u, q)' <=> About(u, q)
  BY <1>1 DEF About
<1>3. SameTold(q)
  BY <1>1, ArriveQueues, ToldKept
<1>4. q # p => SameMessages(q)
  BY ArriveQueues
<1>5. CASE q # p
  <2>1. Untouched(q)
    BY <1>1, <1>2, <1>3, <1>4, <1>5 DEF Untouched
  <2>2. QED
    BY <2>1, UntouchedPeer
<1>6. CASE q = p
  <2>1. /\ Announced(q)' <=> Announced(q)
        /\ Gone(q)' <=> Gone(q)
    BY <1>3 DEF SameTold, Announced, Gone, Texts
  <2>2. ~About("worker", q) \/ busy["worker"].op # "disconnect"
    BY <1>1 DEF ThreadsOK, Running, About
  <2>3. ~Disconnecting(q) /\ ~Disconnecting(q)'
    BY <1>1, <2>2 DEF Disconnecting, About
  <2>4. ~Gone(q)
    <3>1. CASE q \in DOMAIN peers
      BY <2>3, <3>1 DEF PeerOK
    <3>2. CASE q = next_peer_id
      BY <1>1, <3>2 DEF PeerOK, Announced, Gone, Texts
    <3>3. QED
      BY <1>1, <1>6, <3>1, <3>2
  <2>5. ~(q >= next_peer_id')
    BY <1>1, <1>6
  <2>6. \A u \in Threads : About(u, q)' => Halfway(u, q)'
    BY <1>1, <1>2, <2>1 DEF PeerOK, Halfway
  <2>7. \A u, v \in Threads : (Acts(u, q)' /\ Acts(v, q)') => u = v
    <3>1. CASE ms = << >>
      <4>1. \A u \in Threads : Acts(u, q)' <=> Acts(u, q)
        BY <1>2, <1>6, <3>1, ArriveQueues DEF Acts
      <4>2. QED
        BY <4>1 DEF PeerOK
    <3>2. CASE ms # << >>
      <4>1. Pending(q) \ {handler_id} = {}
        BY <1>6, <3>2, IncomingOvertakes
      <4>2. \A u \in Threads : Acts(u, q) => u = handler_id
        BY <4>1, PendingActs
      <4>3. \A u \in Threads : Acts(u, q)' => u = handler_id
        BY <1>2, <1>6, <4>2, ArriveQueues DEF Acts
      <4>4. QED
        BY <4>3
    <3>3. QED
      BY <3>1, <3>2
  <2>8. q \in DOMAIN peers'
    BY <1>1, <1>6
  <2>9. QED
    BY <1>1, <1>2, <2>1, <2>3, <2>4, <2>5, <2>6, <2>7, <2>8 DEF PeerOK
<1>7. QED
  BY <1>5, <1>6

\* The steps that are about no peer.
LEMMA OtherPeer ==
    ASSUME TypeOK, NEW q \in Ids, PeerOK(q),
           \/ UNCHANGED vars
           \/ Stop /\ UNCHANGED <<serverVars, outbox>>
           \/ \E t \in Threads : Proceed(t) /\ UNCHANGED <<serverVars, outbox>>
           \/ RunBind /\ UNCHANGED <<serverVars, outbox>>
           \/ \E t \in Threads, p \in Ids : Greet(t, p)
           \/ \E a \in Addresses : ClientRun(a) \/ ClientLine(a)
    PROVE  PeerOK(q)'
<1>1. UNCHANGED <<busy, users, said, next_peer_id, peers>>
  BY DEF vars, Stop, Proceed, Construct, Listen, Run, Leave, Destroy, WorkerStart, IncomingDone,
         TimeoutDone, RunBind, RunConnected, Greet, ClientRun, ClientLine, tableVars, serverVars, historyVars
<1>2. SameMessages(q) /\ SameBroadcasts(q)
  <2>1. CASE UNCHANGED queue
    BY <2>1, IdleQueues
  <2>2. CASE \E t \in Threads : Proceed(t)
    BY <2>2, ProceedQueues
  <2>3. CASE RunBind \/ \E t \in Threads, p \in Ids : RunConnected(t, p)
    BY <2>3, TakeOtherQueues DEF Threads
  <2>4. QED
    BY <2>1, <2>2, <2>3 DEF vars, Stop, ClientRun, ClientLine, Greet
<1>3. SameTold(q)
  BY <1>1, <1>2, ToldKept
<1>4. Untouched(q)
  BY <1>1, <1>2, <1>3 DEF Untouched, About
<1>5. QED
  BY <1>4, UntouchedPeer

PeersOK == \A p \in Ids \ overtaken : PeerOK(p)

LEMMA InitPeers == Init => PeersOK
<1> SUFFICES ASSUME Init, NEW p \in Ids PROVE PeerOK(p)
  BY DEF PeersOK
<1>1. /\ \A t \in Threads : queue[t] = << >> /\ busy[t] = Idle
      /\ said[p] = << >> /\ users = {} /\ DOMAIN peers = {}
  BY DEF Init, ThreadsInit
<1>2. /\ \A t \in Threads : ~About(t, p) /\ ~MessageQueued(t, p)
      /\ \A x : ~Told(p, x)
  BY <1>1, HasNone DEF About, MessageQueued, Held, Told, Threads
<1>3. QED
  BY <1>1, <1>2 DEF PeerOK, Acts, Announced, Gone, Disconnecting, Threads

\* What has been overtaken stays so.
LEMMA OvertakenGrows ==
    ASSUME [Next]_vars
    PROVE  overtaken \subseteq overtaken'
BY Steps, IncomingOvertakes
   DEF vars, serverVars, historyVars, Insert, Erase, Say, Do, Return, Execute, RunReceived,
       RunBroadcast, Greet, Timeout, ClientRun, ClientLine

LEMMA PeersStep == TypeOK /\ ThreadsOK /\ PeersOK /\ [Next]_vars => PeersOK'
<1> SUFFICES ASSUME TypeOK, ThreadsOK, PeersOK, [Next]_vars, NEW q \in Ids \ overtaken'
             PROVE  PeerOK(q)'
  BY DEF PeersOK
<1>1. q \in Ids /\ PeerOK(q)
  BY OvertakenGrows DEF PeersOK
<1>2. CASE \E t \in Threads, p \in Ids :
               Insert(t, p) \/ Erase(t, p) \/ \E x \in Texts : Say(t, p, x)
  BY <1>1, <1>2, InsertPeer, ErasePeer, SayPeer
<1>3. CASE \E t \in Threads : Return(t)
  BY <1>1, <1>3, ReturnPeer
<1>4. CASE \E t \in Threads : Execute(t)
  BY <1>1, <1>4, RunReceivedPeer, RunBroadcastPeer, OtherPeer DEF Execute
<1>5. CASE \E p \in Ids : Timeout(p)
  BY <1>5, <1>1, TimeoutPeer
<1>6. CASE \E a \in Addresses, p \in Ids, ms \in Messages : Incoming(a, ms, p)
  BY <1>6, <1>1, ArrivePeer
<1>7. QED
  BY <1>1, <1>2, <1>3, <1>4, <1>5, <1>6, Steps, OtherPeer

LEMMA PeersInvariant == Spec => [](TypeOK /\ ThreadsOK /\ PeersOK)
<1>1. Init => PeersOK
  BY InitPeers
<1>2. (TypeOK /\ HandedOut /\ ThreadsOK) /\ PeersOK /\ [Next]_vars => PeersOK'
  BY PeersStep
<1>3. QED
  BY <1>1, <1>2, ThreadsInvariant, PTL DEF Spec

(***************************************************************************)
(* Whatever the two threads do between the steps of the callbacks: a user    *)
(* that stays when its peer is gone was added by a callback that the         *)
(* disconnect callback had overtaken, or that had overtaken another one.    *)
(***************************************************************************)
THEOREM GhostExplainedHolds == Spec => []GhostExplained
<1>1. TypeOK /\ PeersOK => GhostExplained
  <2> SUFFICES ASSUME TypeOK, PeersOK, NEW p \in users, p \notin overtaken
               PROVE  p \in DOMAIN peers
    BY DEF GhostExplained
  <2>1. p \in Ids
    <3>1. next_peer_id \in 0 .. MaxPeers /\ p \in 0 .. (next_peer_id - 1)
      BY DEF TypeOK
    <3>2. QED
      BY <3>1, DispatchAssumption DEF Ids
  <2>2. QED
    BY <2>1 DEF PeersOK, PeerOK
<1>2. QED
  BY <1>1, PeersInvariant, PTL

-----------------------------------------------------------------------------
(***************************************************************************)
(* What has been told about p and what waits in the queue q to be told is    *)
(* one announcement: joined first and once, left last.                      *)
(***************************************************************************)
Tells(k, p) == \E x \in Texts : k = Broadcast(p, x)

Ordered(p, q, s) ==
    /\ WellFormed(s)
    /\ \A i \in 1 .. Len(q), x \in Texts : q[i] = Broadcast(p, x) =>
           /\ ~Has(s, "left")
           /\ x = "joined" <=> (s = << >> /\ \A j \in 1 .. (i - 1) : ~Tells(q[j], p))
           /\ x = "left" => \A j \in (i + 1) .. Len(q) : ~Tells(q[j], p)

\* It stays so when the queue grows by other closures.
LEMMA OrderedMore ==
    ASSUME NEW p, NEW s, NEW q, NEW r, Len(q) \in Nat, Len(r) \in Nat,
           Ordered(p, q, s), Len(q) <= Len(r),
           \A i \in 1 .. Len(q) : r[i] = q[i],
           \A i \in (Len(q) + 1) .. Len(r) : ~Tells(r[i], p)
    PROVE  Ordered(p, r, s)
<1> SUFFICES ASSUME NEW i \in 1 .. Len(r), NEW x \in Texts, r[i] = Broadcast(p, x)
             PROVE  /\ ~Has(s, "left")
                    /\ x = "joined" <=> (s = << >> /\ \A j \in 1 .. (i - 1) : ~Tells(r[j], p))
                    /\ x = "left" => \A j \in (i + 1) .. Len(r) : ~Tells(r[j], p)
  BY DEF Ordered
<1>1. Tells(r[i], p)
  BY DEF Tells
<1>2. i \in 1 .. Len(q)
  BY <1>1
<1>3. /\ ~Has(s, "left")
      /\ x = "joined" <=> (s = << >> /\ \A j \in 1 .. (i - 1) : ~Tells(q[j], p))
      /\ x = "left" => \A j \in (i + 1) .. Len(q) : ~Tells(q[j], p)
  BY <1>2 DEF Ordered
<1>4. \A j \in 1 .. (i - 1) : r[j] = q[j]
  BY <1>2
<1>5. ASSUME x = "left", NEW j \in (i + 1) .. Len(r) PROVE ~Tells(r[j], p)
  BY <1>2, <1>3, <1>5
<1>6. QED
  BY <1>3, <1>4, <1>5

\* It stays so when another closure is taken.
LEMMA OrderedTail ==
    ASSUME NEW p, NEW s, NEW q \in Seq(Closure), q # << >>,
           Ordered(p, q, s), ~Tells(Head(q), p)
    PROVE  Ordered(p, Tail(q), s)
<1> DEFINE r == Tail(q)
<1>1. /\ Len(q) \in Nat \ {0} /\ Len(r) = Len(q) - 1
      /\ \A i \in 1 .. Len(r) : r[i] = q[i + 1]
      /\ Head(q) = q[1]
  OBVIOUS
<1> HIDE DEF r
<1> SUFFICES ASSUME NEW i \in 1 .. Len(r), NEW x \in Texts, r[i] = Broadcast(p, x)
             PROVE  /\ ~Has(s, "left")
                    /\ x = "joined" <=> (s = << >> /\ \A j \in 1 .. (i - 1) : ~Tells(r[j], p))
                    /\ x = "left" => \A j \in (i + 1) .. Len(r) : ~Tells(r[j], p)
  BY DEF Ordered, r
<1>2. i + 1 \in 1 .. Len(q) /\ q[i + 1] = Broadcast(p, x)
  BY <1>1
<1>3. /\ ~Has(s, "left")
      /\ x = "joined" <=> (s = << >> /\ \A j \in 1 .. i : ~Tells(q[j], p))
      /\ x = "left" => \A j \in (i + 2) .. Len(q) : ~Tells(q[j], p)
  <2>1. (i + 1) - 1 = i /\ (i + 1) + 1 = i + 2
    BY <1>1
  <2>2. QED
    BY <1>2, <2>1 DEF Ordered
<1>4. (\A j \in 1 .. i : ~Tells(q[j], p)) <=> (\A j \in 1 .. (i - 1) : ~Tells(r[j], p))
  <2>1. ASSUME \A j \in 1 .. i : ~Tells(q[j], p), NEW j \in 1 .. (i - 1)
        PROVE  ~Tells(r[j], p)
    BY <1>1, <2>1
  <2>2. ASSUME \A j \in 1 .. (i - 1) : ~Tells(r[j], p), NEW j \in 1 .. i
        PROVE  ~Tells(q[j], p)
    <3>1. CASE j = 1
      BY <1>1, <3>1
    <3>2. CASE j # 1
      <4>1. j - 1 \in 1 .. (i - 1) /\ j - 1 \in 1 .. Len(r) /\ (j - 1) + 1 = j
        BY <1>1, <3>2
      <4>2. QED
        BY <1>1, <2>2, <4>1
    <3>3. QED
      BY <3>1, <3>2
  <2>3. QED
    BY <2>1, <2>2
<1>5. ASSUME x = "left", NEW j \in (i + 1) .. Len(r) PROVE ~Tells(r[j], p)
  <2>1. j + 1 \in (i + 2) .. Len(q) /\ j \in 1 .. Len(r)
    BY <1>1
  <2>2. QED
    BY <1>1, <1>3, <1>5, <2>1
<1>6. QED
  BY <1>3, <1>4, <1>5

\* It stays so when the first of what waits is told.
LEMMA OrderedTell ==
    ASSUME NEW p, NEW x \in Texts, NEW s \in Seq(Texts), NEW q \in Seq(Closure), q # << >>,
           Ordered(p, q, s), Head(q) = Broadcast(p, x)
    PROVE  Ordered(p, Tail(q), Append(s, x))
<1> DEFINE r == Tail(q)
           w == Append(s, x)
<1>1. /\ Len(q) \in Nat \ {0} /\ Len(r) = Len(q) - 1
      /\ \A i \in 1 .. Len(r) : r[i] = q[i + 1]
      /\ Head(q) = q[1]
  OBVIOUS
<1>2. /\ Len(s) \in Nat /\ Len(w) = Len(s) + 1
      /\ \A i \in 1 .. Len(s) : w[i] = s[i]
      /\ w[Len(s) + 1] = x
      /\ s = << >> <=> Len(s) = 0
      /\ w # << >>
  OBVIOUS
<1>3. Has(w, "left") <=> Has(s, "left") \/ x = "left"
  BY HasAppend
<1> HIDE DEF r, w
<1>4. /\ ~Has(s, "left")
      /\ x = "joined" <=> s = << >>
      /\ x = "left" => \A j \in 2 .. Len(q) : ~Tells(q[j], p)
  <2>1. 1 \in 1 .. Len(q) /\ q[1] = Broadcast(p, x)
    BY <1>1
  <2>2. 1 .. (1 - 1) = {} /\ 1 + 1 = 2
    OBVIOUS
  <2>3. QED
    BY <2>1, <2>2 DEF Ordered
<1>5. WellFormed(w)
  <2> SUFFICES ASSUME NEW i \in 1 .. Len(w)
               PROVE  /\ (i = 1) <=> (w[i] = "joined")
                      /\ w[i] = "left" => i = Len(w)
    BY DEF WellFormed
  <2>1. CASE i \in 1 .. Len(s)
    <3>1. /\ w[i] = s[i]
          /\ (i = 1) <=> (s[i] = "joined")
          /\ s[i] # "left"
      BY <1>2, <1>4, <2>1 DEF Ordered, WellFormed, Has
    <3>2. QED
      BY <3>1
  <2>2. CASE i = Len(s) + 1
    BY <1>2, <1>4, <2>2
  <2>3. QED
    BY <1>2, <2>1, <2>2
<1>6. ASSUME NEW i \in 1 .. Len(r), NEW y \in Texts, r[i] = Broadcast(p, y)
      PROVE  /\ ~Has(w, "left")
             /\ y # "joined"
             /\ y = "left" => \A j \in (i + 1) .. Len(r) : ~Tells(r[j], p)
  <2>1. /\ i + 1 \in 1 .. Len(q) /\ i + 1 \in 2 .. Len(q) /\ q[i + 1] = Broadcast(p, y)
        /\ (i + 1) - 1 = i /\ (i + 1) + 1 = i + 2 /\ 1 \in 1 .. i
    BY <1>1, <1>6
  <2>2. Tells(q[i + 1], p) /\ Tells(q[1], p)
    BY <1>1, <2>1 DEF Tells
  <2>3. x # "left"
    BY <1>4, <2>1, <2>2
  <2>4. /\ y = "joined" => \A j \in 1 .. i : ~Tells(q[j], p)
        /\ y = "left" => \A j \in (i + 2) .. Len(q) : ~Tells(q[j], p)
    BY <2>1 DEF Ordered
  <2>5. ASSUME y = "left", NEW j \in (i + 1) .. Len(r) PROVE ~Tells(r[j], p)
    <3>1. j + 1 \in (i + 2) .. Len(q) /\ j \in 1 .. Len(r)
      BY <1>1
    <3>2. QED
      BY <1>1, <2>4, <2>5, <3>1
  <2>6. QED
    BY <1>3, <1>4, <2>1, <2>2, <2>3, <2>4, <2>5
<1>7. Ordered(p, r, w)
  BY <1>2, <1>5, <1>6 DEF Ordered
<1>8. QED
  BY <1>7 DEF r, w

\* It stays so when the next text is the one that is due.
LEMMA OrderedSay ==
    ASSUME NEW p, NEW x \in Texts, NEW s, NEW q \in Seq(Closure),
           Ordered(p, q, s), ~Has(s, "left"), ~Has(q, Broadcast(p, "left")),
           x = "joined" <=> (s = << >> /\ \A y \in Texts : ~Has(q, Broadcast(p, y)))
    PROVE  Ordered(p, Append(q, Broadcast(p, x)), s)
<1> DEFINE r == Append(q, Broadcast(p, x))
<1>1. /\ Len(q) \in Nat /\ Len(r) = Len(q) + 1
      /\ \A i \in 1 .. Len(q) : r[i] = q[i]
      /\ r[Len(q) + 1] = Broadcast(p, x)
  OBVIOUS
<1> HIDE DEF r
<1>2. (\A j \in 1 .. Len(q) : ~Tells(r[j], p)) <=> \A y \in Texts : ~Has(q, Broadcast(p, y))
  BY <1>1 DEF Tells, Has
<1> SUFFICES ASSUME NEW i \in 1 .. Len(r), NEW y \in Texts, r[i] = Broadcast(p, y)
             PROVE  /\ ~Has(s, "left")
                    /\ y = "joined" <=> (s = << >> /\ \A j \in 1 .. (i - 1) : ~Tells(r[j], p))
                    /\ y = "left" => \A j \in (i + 1) .. Len(r) : ~Tells(r[j], p)
  BY DEF Ordered, r
<1>3. CASE i = Len(q) + 1
  <2>1. y = x
    BY <1>1, <1>3, ClosuresDiffer
  <2>2. i - 1 = Len(q) /\ (i + 1) .. Len(r) = {}
    BY <1>1, <1>3
  <2>3. QED
    BY <1>2, <2>1, <2>2
<1>4. CASE i \in 1 .. Len(q)
  <2>1. q[i] = Broadcast(p, y)
    BY <1>1, <1>4
  <2>2. y # "left"
    BY <1>4, <2>1 DEF Has
  <2>3. y = "joined" <=> (s = << >> /\ \A j \in 1 .. (i - 1) : ~Tells(q[j], p))
    BY <1>4, <2>1 DEF Ordered
  <2>4. \A j \in 1 .. (i - 1) : r[j] = q[j]
    BY <1>1, <1>4
  <2>5. QED
    BY <2>2, <2>3, <2>4
<1>5. QED
  BY <1>1, <1>3, <1>4

AllOrdered == \A p \in Ids \ overtaken : Ordered(p, queue["worker"], said[p])

LEMMA InitOrdered == Init => AllOrdered
<1> SUFFICES ASSUME Init, NEW p \in Ids PROVE Ordered(p, queue["worker"], said[p])
  BY DEF AllOrdered
<1>1. queue["worker"] = << >> /\ said[p] = << >> /\ Len(<< >>) = 0
  BY DEF Init, ThreadsInit, Threads
<1>2. QED
  BY <1>1 DEF Ordered, WellFormed

\* A callback says what is due: its peer is announced, or this is the announcement.
LEMMA SayOrdered ==
    ASSUME TypeOK, ThreadsOK, NEW t \in Threads, NEW p \in Ids, NEW x \in Texts, Say(t, p, x),
           NEW q \in Ids, PeerOK(q), Ordered(q, queue["worker"], said[q])
    PROVE  Ordered(q, queue["worker"], said[q])'
<1>1. /\ Do(t, p, x) /\ UNCHANGED said
      /\ queue["worker"] \in Seq(Closure)
      /\ queue'["worker"] = Append(queue["worker"], Broadcast(p, x))
  BY DEF Say, Do, TypeOK, Threads, historyVars
<1>2. CASE q # p
  <2>1. ~Tells(Broadcast(p, x), q)
    BY <1>2, ClosuresDiffer DEF Tells
  <2> DEFINE old == queue["worker"]
             new == queue'["worker"]
  <2>2. /\ Len(old) \in Nat /\ Len(new) = Len(old) + 1
        /\ \A i \in 1 .. Len(old) : new[i] = old[i]
        /\ new[Len(old) + 1] = Broadcast(p, x)
    BY <1>1
  <2> HIDE DEF old, new
  <2>3. \A i \in (Len(old) + 1) .. Len(new) : ~Tells(new[i], q)
    BY <2>1, <2>2
  <2>4. Ordered(q, old, said[q])
    BY DEF old
  <2>5. Ordered(q, new, said[q])
    BY <2>2, <2>3, <2>4, OrderedMore
  <2>6. QED
    BY <1>1, <2>5 DEF new
<1>3. CASE q = p
  <2>1. About(t, p)
    BY <1>1, DoStep
  <2>2. ~Gone(p) /\ (x = "joined" <=> ~Announced(p))
    <3>1. CASE x = "joined"
      <4>1. busy[t].todo = <<"joined">>
        BY <1>1, <3>1, DoStep
      <4>2. ~Announced(p)
        BY <1>3, <2>1, <4>1 DEF PeerOK, Halfway
      <4>3. QED
        BY <3>1, <4>2 DEF Announced, Gone, Texts
    <3>2. CASE x = "line"
      <4>1. busy[t].todo = <<"line">> /\ busy[t].op = "chat"
        BY <1>1, <3>2, DoStep
      <4>2. p \in DOMAIN peers /\ ~Disconnecting(p)
        BY <1>3, <2>1, <4>1, OnlyActor DEF Acts, Disconnecting
      <4>3. QED
        BY <1>3, <2>1, <3>2, <4>1, <4>2 DEF PeerOK, Halfway
    <3>3. CASE x = "left"
      <4>1. busy[t].todo = <<"left", "erase">>
        BY <1>1, <3>3, DoStep
      <4>2. QED
        BY <1>3, <2>1, <3>3, <4>1 DEF PeerOK, Halfway
    <3>4. QED
      BY <3>1, <3>2, <3>3 DEF Texts
  <2>3. ~Has(said[p], "left") /\ ~Has(queue["worker"], Broadcast(p, "left"))
    BY <2>2 DEF Gone, Told, Held
  <2>4. (\A y \in Texts : ~Has(said[p], y)) <=> said[p] = << >>
    <3>1. said[p] \in Seq(Texts)
      BY DEF TypeOK
    <3>2. ASSUME said[p] # << >> PROVE \E y \in Texts : Has(said[p], y)
      <4>1. 1 \in 1 .. Len(said[p]) /\ said[p][1] \in Texts
        BY <3>1, <3>2
      <4>2. QED
        BY <4>1 DEF Has
    <3>3. QED
      BY <3>2, HasNone
  <2>5. x = "joined" <=> (said[p] = << >> /\ \A y \in Texts : ~Has(queue["worker"], Broadcast(p, y)))
    BY <2>2, <2>4 DEF Announced, Told, Held
  <2>6. Ordered(p, Append(queue["worker"], Broadcast(p, x)), said[p])
    BY <1>1, <1>3, <2>3, <2>5, OrderedSay
  <2>7. QED
    BY <1>1, <1>3, <2>6
<1>4. QED
  BY <1>2, <1>3

\* A thread takes a closure, which is a text to tell or none.
LEMMA TakeOrdered ==
    ASSUME TypeOK, NEW t \in Threads, Execute(t),
           NEW q \in Ids, Ordered(q, queue["worker"], said[q])
    PROVE  Ordered(q, queue["worker"], said[q])'
<1>1. queue["worker"] \in Seq(Closure) /\ said[q] \in Seq(Texts)
  BY DEF TypeOK, Threads
<1>2. ASSUME NEW k, Take(t, k), ~Tells(k, q), said'[q] = said[q]
      PROVE  Ordered(q, queue["worker"], said[q])'
  <2>1. CASE t = "worker"
    <3>1. /\ queue["worker"] # << >> /\ k = Head(queue["worker"])
          /\ queue'["worker"] = Tail(queue["worker"])
      BY <1>2, <2>1 DEF Take, TypeOK, Threads
    <3>2. QED
      BY <1>1, <1>2, <3>1, OrderedTail
  <2>2. CASE t # "worker"
    <3>1. queue'["worker"] = queue["worker"]
      BY <1>2, <2>2 DEF Take, TypeOK, Threads
    <3>2. QED
      BY <1>2, <3>1
  <2>3. QED
    BY <2>1, <2>2
<1>3. ASSUME NEW p \in Ids, NEW x \in Texts, RunBroadcast(p, x), t = "worker"
      PROVE  Ordered(q, queue["worker"], said[q])'
  <2>1. said'[q] = IF q = p THEN Append(said[q], x) ELSE said[q]
    BY <1>3 DEF RunBroadcast, TypeOK, historyVars
  <2>2. CASE q # p
    <3>1. ~Tells(Broadcast(p, x), q)
      BY <2>2, ClosuresDiffer DEF Tells
    <3>2. QED
      BY <1>2, <1>3, <2>1, <2>2, <3>1 DEF RunBroadcast, historyVars
  <2>3. CASE q = p
    <3>1. /\ queue["worker"] # << >> /\ Broadcast(q, x) = Head(queue["worker"])
          /\ queue'["worker"] = Tail(queue["worker"])
      BY <1>3, <2>3 DEF RunBroadcast, Take, TypeOK, Threads, historyVars
    <3>2. Ordered(q, Tail(queue["worker"]), Append(said[q], x))
      BY <1>1, <3>1, OrderedTell
    <3>3. QED
      BY <2>1, <2>3, <3>1, <3>2
  <2>4. QED
    BY <2>2, <2>3
<1>4. ASSUME NEW p \in Ids, NEW m \in Kinds, RunReceived(t, p, m)
      PROVE  Ordered(q, queue["worker"], said[q])'
  <2>1. ~Tells(Received(p, m), q)
    BY ClosuresDiffer DEF Tells
  <2>2. QED
    BY <1>2, <1>4, <2>1 DEF RunReceived, serverVars, historyVars
<1>5. ASSUME RunBind, t = "worker", UNCHANGED serverVars
      PROVE  Ordered(q, queue["worker"], said[q])'
  <2>1. ~Tells(Bind, q)
    BY ClosuresDiffer DEF Tells
  <2>2. QED
    BY <1>2, <1>5, <2>1 DEF RunBind, serverVars, historyVars
<1>6. ASSUME NEW p \in Ids, Greet(t, p)
      PROVE  Ordered(q, queue["worker"], said[q])'
  <2>1. ~Tells(Connected(p), q)
    BY ClosuresDiffer DEF Tells
  <2>2. QED
    BY <1>2, <1>6, <2>1 DEF RunConnected, Greet, serverVars, historyVars
<1>7. QED
  BY <1>3, <1>4, <1>5, <1>6 DEF Execute

\* The closures of listen and of the callbacks tell nothing.
LEMMA GrowOrdered ==
    ASSUME TypeOK, NEW q \in Ids, Ordered(q, queue["worker"], said[q]), said'[q] = said[q],
           NEW more \in Seq(Closure), \A k : Has(more, k) => ~Tells(k, q),
           queue'["worker"] = queue["worker"] \o more
    PROVE  Ordered(q, queue["worker"], said[q])'
<1> DEFINE old == queue["worker"]
           new == queue'["worker"]
<1>1. old \in Seq(Closure) /\ new = old \o more
  BY DEF TypeOK, Threads
<1> HIDE DEF old, new
<1>2. /\ Len(old) \in Nat /\ Len(more) \in Nat /\ Len(new) = Len(old) + Len(more)
      /\ \A i \in 1 .. Len(old) : new[i] = old[i]
      /\ \A i \in (Len(old) + 1) .. Len(new) : new[i] = more[i - Len(old)]
  BY <1>1
<1>3. ASSUME NEW i \in (Len(old) + 1) .. Len(new) PROVE ~Tells(new[i], q)
  <2>1. i - Len(old) \in 1 .. Len(more)
    BY <1>2
  <2>2. QED
    BY <1>2, <2>1 DEF Has
<1>4. Ordered(q, new, said[q])
  <2>1. Ordered(q, old, said[q])
    BY DEF old
  <2>2. Len(new) \in Nat /\ Len(old) <= Len(new)
    BY <1>2
  <2>3. QED
    BY <1>2, <1>3, <2>1, <2>2, OrderedMore
<1>5. QED
  BY <1>4 DEF new

LEMMA ArriveOrdered ==
    ASSUME TypeOK, NEW a \in Addresses, NEW p \in Ids, NEW ms \in Messages, Incoming(a, ms, p),
           NEW q \in Ids, Ordered(q, queue["worker"], said[q])
    PROVE  Ordered(q, queue["worker"], said[q])'
<1> DEFINE known == Found(a) # {}
<1>1. known \in BOOLEAN /\ Post(Posted(known, p, ms)) /\ said' = said
  BY ArriveEntry, IncomingOvertakes
<1> HIDE DEF known
<1>2. /\ Posted(known, p, ms) \in Seq(Closure)
      /\ \A k : Has(Posted(known, p, ms), k) => ~Tells(k, q)
  <2>1. ASSUME NEW k
        PROVE  /\ Posted(known, p, ms) \in Seq(Closure)
               /\ Has(Posted(known, p, ms), k) =>
                      k = Connected(p) \/ \E m \in Kinds : k = Received(p, m)
    BY <1>1, PostedHas
  <2>2. \A x : ~Tells(Connected(x), q) /\ \A m : ~Tells(Received(x, m), q)
    BY ClosuresDiffer DEF Tells
  <2>3. QED
    BY <2>1, <2>2
<1>3. CASE handler_id = "worker"
  <2>1. queue'["worker"] = queue["worker"] \o Posted(known, p, ms)
    BY <1>1, <1>3 DEF Post, Threads
  <2>2. QED
    BY <1>1, <1>2, <2>1, GrowOrdered
<1>4. CASE handler_id # "worker"
  <2>1. queue'["worker"] = queue["worker"]
    BY <1>1, <1>4 DEF Post, Threads
  <2>2. QED
    BY <1>1, <2>1
<1>5. QED
  BY <1>3, <1>4

LEMMA ProceedOrdered ==
    ASSUME TypeOK, NEW t \in Threads, Proceed(t), UNCHANGED said,
           NEW q \in Ids, Ordered(q, queue["worker"], said[q])
    PROVE  Ordered(q, queue["worker"], said[q])'
<1>1. CASE Listen
  <2>1. queue'["worker"] = queue["worker"] \o <<Bind>>
    BY <1>1 DEF Listen, TypeOK, Threads
  <2>2. <<Bind>> \in Seq(Closure) /\ \A k : Has(<<Bind>>, k) => ~Tells(k, q)
    <3>1. Bind \in Closure
      BY DEF Closure
    <3>2. \A k : Has(<<Bind>>, k) => k = Bind
      BY HasOne
    <3>3. QED
      BY <3>1, <3>2, ClosuresDiffer DEF Tells
  <2>3. QED
    BY <2>1, <2>2, GrowOrdered
<1>2. CASE ~Listen
  BY <1>2 DEF Proceed, Construct, Run, Leave, Destroy, WorkerStart, IncomingDone, TimeoutDone
<1>3. QED
  BY <1>1, <1>2

LEMMA OrderedStep ==
    TypeOK /\ ThreadsOK /\ PeersOK /\ AllOrdered /\ [Next]_vars => AllOrdered'
<1> SUFFICES ASSUME TypeOK, ThreadsOK, PeersOK, AllOrdered, [Next]_vars, NEW q \in Ids \ overtaken'
             PROVE  Ordered(q, queue["worker"], said[q])'
  BY DEF AllOrdered
<1>1. q \in Ids /\ PeerOK(q) /\ Ordered(q, queue["worker"], said[q])
  BY OvertakenGrows DEF PeersOK, AllOrdered
<1>2. ASSUME UNCHANGED <<queue, said>> PROVE Ordered(q, queue["worker"], said[q])'
  BY <1>1, <1>2
<1>3. CASE \/ UNCHANGED vars
           \/ Stop /\ UNCHANGED <<serverVars, outbox>>
           \/ \E t \in Threads, p \in Ids : Insert(t, p) \/ Erase(t, p)
           \/ \E t \in Threads : Return(t)
           \/ \E p \in Ids : Timeout(p)
           \/ \E a \in Addresses : ClientRun(a) \/ ClientLine(a)
  BY <1>2, <1>3 DEF vars, Stop, Insert, Erase, Do, Return, Timeout, ClientRun, ClientLine, serverVars, historyVars
<1>4. CASE \E t \in Threads : Proceed(t) /\ UNCHANGED <<serverVars, outbox>>
  BY <1>1, <1>4, ProceedOrdered DEF serverVars, historyVars
<1>5. CASE \E t \in Threads, p \in Ids, x \in Texts : Say(t, p, x)
  BY <1>1, <1>5, SayOrdered
<1>6. CASE \E t \in Threads : Execute(t)
  BY <1>1, <1>6, TakeOrdered
<1>7. CASE \E a \in Addresses, p \in Ids, ms \in Messages : Incoming(a, ms, p)
  BY <1>1, <1>7, ArriveOrdered
<1>8. QED
  BY <1>3, <1>4, <1>5, <1>6, <1>7, Steps

(***************************************************************************)
(* On whichever threads the callbacks of a peer run, and however the         *)
(* broadcasts they make interleave with those of others: what the chatters   *)
(* are told of a peer none of whose callbacks overtook another begins with   *)
(* joined, says it once, and ends with left.                                *)
(***************************************************************************)
THEOREM AnnouncedInOrderHolds == Spec => []AnnouncedInOrder
<1>1. Init => AllOrdered
  BY InitOrdered
<1>2. (TypeOK /\ ThreadsOK /\ PeersOK) /\ AllOrdered /\ [Next]_vars => AllOrdered'
  BY OrderedStep
<1>3. AllOrdered => AnnouncedInOrder
  BY DEF AllOrdered, Ordered, AnnouncedInOrder
<1>4. QED
  BY <1>1, <1>2, <1>3, PeersInvariant, PTL DEF Spec

-----------------------------------------------------------------------------
(***************************************************************************)
(* Connect callbacks and message callbacks.  While a peer has not been       *)
(* greeted, its connect callback waits in front of its messages, or for the  *)
(* worker while run() has taken over.                                       *)
(***************************************************************************)
InFront(q, p) ==
    \A i \in 1 .. Len(q), m \in Kinds : q[i] = Received(p, m) =>
        \E j \in 1 .. (i - 1) : q[j] = Connected(p)

Excused(p) == given = "worker" /\ handler_id = "main" /\ Held("worker", Connected(p))

InMessage(t, p) == busy[t] # Idle /\ busy[t].op \in Kinds /\ busy[t].peer = p

Waiting(p) ==
    /\ p \in DOMAIN peers => Held(handler_id, Connected(p)) \/ Excused(p)
    /\ \A t \in Threads : InFront(queue[t], p) \/ (t = "main" /\ Excused(p))
    /\ \A t \in Threads : InMessage(t, p) => t = "main" /\ Excused(p)

GreetOK(p) == p \in greeted \/ Waiting(p)

\* The closures behind the one that is taken.
LEMMA InFrontTail ==
    ASSUME NEW S, NEW q \in Seq(S), q # << >>, NEW p, Head(q) # Connected(p), InFront(q, p)
    PROVE  InFront(Tail(q), p)
<1> DEFINE r == Tail(q)
<1>1. /\ Len(q) \in Nat \ {0}
      /\ Len(r) = Len(q) - 1
      /\ \A i \in 1 .. Len(r) : r[i] = q[i + 1]
      /\ Head(q) = q[1]
  OBVIOUS
<1> HIDE DEF r
<1>2. ASSUME NEW i \in 1 .. Len(r), NEW m \in Kinds, r[i] = Received(p, m)
      PROVE  \E j \in 1 .. (i - 1) : r[j] = Connected(p)
  <2>1. i + 1 \in 1 .. Len(q) /\ q[i + 1] = Received(p, m)
    BY <1>1, <1>2
  <2>2. PICK j \in 1 .. ((i + 1) - 1) : q[j] = Connected(p)
    BY <2>1 DEF InFront
  <2>3. j # 1
    BY <1>1, <2>2
  <2>4. j - 1 \in 1 .. (i - 1) /\ j - 1 \in 1 .. Len(r) /\ (j - 1) + 1 = j
    BY <1>1, <2>2, <2>3
  <2>5. r[j - 1] = Connected(p)
    BY <1>1, <2>2, <2>4
  <2>6. QED
    BY <2>4, <2>5
<1>3. QED
  BY <1>2 DEF InFront, r

\* Closures queued behind others.
LEMMA InFrontMore ==
    ASSUME NEW S, NEW q \in Seq(S), NEW r \in Seq(S), NEW p, InFront(q, p),
           Has(q, Connected(p)) \/ \A m \in Kinds : ~Has(r, Received(p, m))
    PROVE  InFront(q \o r, p)
<1> DEFINE s == q \o r
<1>1. /\ Len(q) \in Nat /\ Len(r) \in Nat
      /\ Len(s) = Len(q) + Len(r)
      /\ \A i \in 1 .. Len(q) : s[i] = q[i]
      /\ \A i \in 1 .. Len(s) : i > Len(q) => s[i] = r[i - Len(q)]
  OBVIOUS
<1> HIDE DEF s
<1>2. ASSUME NEW i \in 1 .. Len(s), NEW m \in Kinds, s[i] = Received(p, m)
      PROVE  \E j \in 1 .. (i - 1) : s[j] = Connected(p)
  <2>1. CASE i \in 1 .. Len(q)
    <3>1. PICK j \in 1 .. (i - 1) : q[j] = Connected(p)
      BY <1>1, <1>2, <2>1 DEF InFront
    <3>2. j \in 1 .. Len(q)
      BY <1>1, <2>1, <3>1
    <3>3. QED
      BY <1>1, <3>1, <3>2
  <2>2. CASE i > Len(q)
    <3>1. i - Len(q) \in 1 .. Len(r) /\ r[i - Len(q)] = Received(p, m)
      BY <1>1, <1>2, <2>2
    <3>2. Has(r, Received(p, m))
      BY <3>1 DEF Has
    <3>3. PICK j \in 1 .. Len(q) : q[j] = Connected(p)
      BY <3>2 DEF Has
    <3>4. s[j] = Connected(p) /\ j \in 1 .. (i - 1)
      BY <1>1, <2>2, <3>3
    <3>5. QED
      BY <3>4
  <2>3. QED
    BY <1>1, <2>1, <2>2
<1>3. QED
  BY <1>2 DEF InFront, s

\* A step that takes nothing from the queues that the peer waits for.
LEMMA GreetKept ==
    ASSUME TypeOK, NEW p \in Ids, GreetOK(p),
           p \notin greeted' => p \notin greeted,
           UNCHANGED <<given, handler_id>>,
           p \in DOMAIN peers' => p \in DOMAIN peers /\ handler_id \in Threads,
           \A t \in Threads : InFront(queue[t], p) => InFront(queue'[t], p),
           \A t \in Threads : Held(t, Connected(p)) => Held(t, Connected(p))',
           \A t \in Threads : InMessage(t, p)' => InMessage(t, p)
    PROVE  GreetOK(p)'
<1>1. CASE p \in greeted'
  BY <1>1 DEF GreetOK
<1>2. CASE p \notin greeted'
  <2>1. Waiting(p)
    BY <1>2 DEF GreetOK
  <2>2. Excused(p) => Excused(p)'
    BY DEF Excused, Threads
  <2>3. p \in DOMAIN peers' => Held(handler_id, Connected(p))' \/ Excused(p)'
    BY <2>1, <2>2 DEF Waiting
  <2>4. \A t \in Threads : InFront(queue'[t], p) \/ (t = "main" /\ Excused(p)')
    BY <2>1, <2>2 DEF Waiting
  <2>5. \A t \in Threads : InMessage(t, p)' => t = "main" /\ Excused(p)'
    BY <2>1, <2>2 DEF Waiting
  <2>6. (Held(handler_id, Connected(p)))' <=> Held(handler_id, Connected(p))'
    OBVIOUS
  <2>7. QED
    BY <2>3, <2>4, <2>5, <2>6 DEF GreetOK, Waiting, InFront
<1>3. QED
  BY <1>1, <1>2

\* A closure for the worker that is not about the peer, at the end of the queue.
LEMMA GreetAppend ==
    ASSUME TypeOK, NEW p \in Ids, NEW k \in Closure,
           queue' = [queue EXCEPT !["worker"] = Append(@, k)],
           \A m \in Kinds : k # Received(p, m)
    PROVE  /\ \A t \in Threads : InFront(queue[t], p) => InFront(queue'[t], p)
           /\ \A t \in Threads : Held(t, Connected(p)) => Held(t, Connected(p))'
<1>1. queue \in [Threads -> Seq(Closure)] /\ "worker" \in Threads
  BY DEF TypeOK, Threads
<1>2. \A m \in Kinds : ~Has(<<k>>, Received(p, m))
  BY HasOne
<1>3. queue["worker"] \in Seq(Closure) /\ <<k>> \in Seq(Closure)
  BY <1>1
<1>4. InFront(queue["worker"], p) => InFront(queue["worker"] \o <<k>>, p)
  BY <1>2, <1>3, InFrontMore
<1>5. queue'["worker"] = queue["worker"] \o <<k>>
  BY <1>1, <1>3
<1>6. \A t \in Threads : t # "worker" => queue'[t] = queue[t]
  BY <1>1
<1>7. \A t \in Threads : Held(t, Connected(p)) => Held(t, Connected(p))'
  BY Appended
<1>8. QED
  BY <1>4, <1>5, <1>6, <1>7

\* A thread takes a closure that is not the connect callback of the peer.
LEMMA GreetTake ==
    ASSUME TypeOK, NEW p \in Ids, NEW t \in Threads, NEW k, Take(t, k), k # Connected(p)
    PROVE  /\ UNCHANGED <<given, handler_id>>
           /\ \A u \in Threads : InFront(queue[u], p) => InFront(queue'[u], p)
           /\ \A u \in Threads : Held(u, Connected(p)) => Held(u, Connected(p))'
<1>1. queue \in [Threads -> Seq(Closure)]
  BY DEF TypeOK
<1>2. /\ queue[t] # << >> /\ k = Head(queue[t])
      /\ \A u \in Threads : queue'[u] = IF u = t THEN Tail(queue[t]) ELSE queue[u]
      /\ UNCHANGED <<given, handler_id>>
  BY <1>1 DEF Take, threadVars
<1>3. InFront(queue[t], p) => InFront(Tail(queue[t]), p)
  BY <1>1, <1>2, InFrontTail
<1>4. \A u \in Threads : Held(u, Connected(p)) => Held(u, Connected(p))'
  BY Taken
<1>5. QED
  BY <1>2, <1>3, <1>4

\* The steps between closures: listen queues a closure, run() writes handler_id.
LEMMA GreetProceed ==
    ASSUME TypeOK, ThreadsOK, NEW p \in Ids, GreetOK(p), NEW t \in Threads, Proceed(t),
           UNCHANGED greeted
    PROVE  GreetOK(p)'
<1>1. UNCHANGED <<busy, peers>>
  BY DEF Proceed, Construct, Listen, Run, Leave, Destroy, WorkerStart, IncomingDone,
         TimeoutDone, tableVars
<1>2. \A u \in Threads : InMessage(u, p)' <=> InMessage(u, p)
  BY <1>1 DEF InMessage
<1>3. p \in DOMAIN peers => handler_id \in Threads
  BY DEF ThreadsOK, Before, Handler, TypeOK, MainAt, Threads
<1>4. CASE Listen
  <2>1. Bind \in Closure /\ \A m \in Kinds : Bind # Received(p, m)
    BY ClosuresDiffer DEF Closure
  <2>2. /\ \A u \in Threads : InFront(queue[u], p) => InFront(queue'[u], p)
        /\ \A u \in Threads : Held(u, Connected(p)) => Held(u, Connected(p))'
        /\ UNCHANGED <<given, handler_id>>
    BY <1>4, <2>1, GreetAppend DEF Listen
  <2>3. QED
    BY <1>1, <1>2, <1>3, <2>2, GreetKept
<1>5. CASE UNCHANGED <<queue, given, handler_id>>
  <2>1. /\ \A u \in Threads : InFront(queue[u], p) => InFront(queue'[u], p)
        /\ \A u \in Threads : Held(u, Connected(p)) => Held(u, Connected(p))'
    BY <1>5 DEF Held
  <2>2. QED
    BY <1>1, <1>2, <1>3, <1>5, <2>1, GreetKept
<1>6. CASE Construct("worker") \/ Construct("main")
  <2>1. at["main"] = "construct" /\ UNCHANGED queue
    BY <1>6 DEF Construct, Goto
  <2>2. /\ DOMAIN peers = {}
        /\ \A u \in Threads : queue[u] = << >> /\ busy[u] = Idle
    BY <2>1 DEF ThreadsOK, Before
  <2>3. \A u \in Threads : InFront(queue'[u], p)
    BY <2>1, <2>2 DEF InFront
  <2>4. \A u \in Threads : ~InMessage(u, p)'
    BY <1>2, <2>2 DEF InMessage
  <2>5. p \notin DOMAIN peers'
    BY <1>1, <2>2
  <2>6. QED
    BY <2>3, <2>4, <2>5 DEF GreetOK, Waiting, InFront
<1>7. CASE Run
  <2>1. /\ at["main"] = "listening" /\ handler_id' = "main"
        /\ UNCHANGED <<given, queue>>
    BY <1>7 DEF Run, Goto
  <2>2. handler_id = given /\ given \in Threads
    BY <2>1 DEF ThreadsOK, Handler
  <2>3. CASE given = "main"
    BY <1>5, <2>1, <2>2, <2>3
  <2>4. CASE given = "worker"
    <3>1. CASE p \in greeted
      BY <3>1 DEF GreetOK
    <3>2. CASE p \notin greeted
      <4>1. Waiting(p) /\ ~Excused(p)
        BY <2>2, <2>4, <3>2 DEF GreetOK, Excused
      <4>2. p \in DOMAIN peers => Held("worker", Connected(p))
        BY <2>2, <2>4, <4>1 DEF Waiting
      <4>3. p \in DOMAIN peers' => Excused(p)'
        BY <1>1, <2>1, <2>4, <4>2 DEF Excused, Held
      <4>4. \A u \in Threads : InFront(queue'[u], p) /\ ~InMessage(u, p)'
        BY <1>2, <2>1, <4>1 DEF Waiting
      <4>5. QED
        BY <4>3, <4>4 DEF GreetOK, Waiting, InFront
    <3>3. QED
      BY <3>1, <3>2
  <2>5. QED
    BY <2>2, <2>3, <2>4 DEF Threads
<1>8. QED
  BY <1>4, <1>5, <1>6, <1>7
     DEF Proceed, Leave, Destroy, WorkerStart, IncomingDone, TimeoutDone

\* A thread goes on with its queue: a message that is first in it is of a greeted peer.
LEMMA GreetExecute ==
    ASSUME TypeOK, ThreadsOK, NEW p \in Ids, GreetOK(p), NEW t \in Threads, Execute(t)
    PROVE  GreetOK(p)'
<1>1. peers' = peers /\ (p \in DOMAIN peers => handler_id \in Threads)
  BY DEF Execute, RunReceived, RunBroadcast, RunBind, Greet, RunConnected, tableVars,
         ThreadsOK, Before, Handler, TypeOK, MainAt, Threads
<1>2. ASSUME NEW k, Take(t, k), k # Connected(p), UNCHANGED busy,
             p \notin greeted' => p \notin greeted
      PROVE  GreetOK(p)'
  <2>1. \A u \in Threads : InMessage(u, p)' <=> InMessage(u, p)
    BY <1>2 DEF InMessage
  <2>2. QED
    BY <1>1, <1>2, <2>1, GreetTake, GreetKept
<1>3. ASSUME NEW q \in Ids, Greet(t, q) PROVE GreetOK(p)'
  <2>1. Take(t, Connected(q)) /\ UNCHANGED busy /\ greeted' = greeted \cup {q}
    BY <1>3 DEF Greet, RunConnected
  <2>2. CASE q = p
    BY <2>1, <2>2 DEF GreetOK
  <2>3. CASE q # p
    <3>1. Connected(q) # Connected(p)
      BY <2>3 DEF Connected
    <3>2. QED
      BY <1>2, <2>1, <3>1
  <2>4. QED
    BY <2>2, <2>3
<1>4. ASSUME RunBind, t = "worker", UNCHANGED serverVars PROVE GreetOK(p)'
  <2>1. Take(t, Bind) /\ Bind # Connected(p) /\ UNCHANGED <<busy, greeted>>
    BY <1>4 DEF RunBind, Bind, Connected, serverVars, historyVars
  <2>2. QED
    BY <1>2, <2>1
<1>5. ASSUME t = "worker", NEW q \in Ids, NEW x \in Texts, RunBroadcast(q, x) PROVE GreetOK(p)'
  <2>1. Take(t, Broadcast(q, x)) /\ Broadcast(q, x) # Connected(p) /\ UNCHANGED <<busy, greeted>>
    BY <1>5 DEF RunBroadcast, Broadcast, Connected, historyVars
  <2>2. QED
    BY <1>2, <2>1
<1>6. ASSUME NEW q \in Ids, NEW m \in Kinds, RunReceived(t, q, m) PROVE GreetOK(p)'
  <2>1. /\ Take(t, Received(q, m)) /\ Received(q, m) # Connected(p)
        /\ Start(t, m, q) /\ greeted' = greeted
    BY <1>6 DEF RunReceived, Received, Connected, serverVars, historyVars
  <2>2. /\ UNCHANGED <<given, handler_id>>
        /\ \A u \in Threads : InFront(queue[u], p) => InFront(queue'[u], p)
        /\ \A u \in Threads : Held(u, Connected(p)) => Held(u, Connected(p))'
    BY <2>1, GreetTake
  <2>3. \A u \in Threads : InMessage(u, p)' => InMessage(u, p) \/ (u = t /\ q = p)
    BY <2>1 DEF Start, InMessage, TypeOK
  <2>4. CASE q # p \/ p \in greeted
    <3>1. CASE p \in greeted
      BY <2>1, <3>1 DEF GreetOK
    <3>2. CASE q # p
      BY <1>1, <2>1, <2>2, <2>3, <3>2, GreetKept
    <3>3. QED
      BY <2>4, <3>1, <3>2
  <2>5. CASE q = p /\ p \notin greeted
    <3>1. Waiting(p)
      BY <2>5 DEF GreetOK
    <3>2. ~InFront(queue[t], p)
      <4>1. queue[t] # << >> /\ Received(p, m) = Head(queue[t]) /\ queue[t] \in Seq(Closure)
        BY <2>1, <2>5 DEF Take, TypeOK
      <4>2. 1 \in 1 .. Len(queue[t]) /\ queue[t][1] = Received(p, m)
        BY <4>1
      <4>3. ~\E j \in 1 .. (1 - 1) : queue[t][j] = Connected(p)
        OBVIOUS
      <4>4. QED
        BY <4>2, <4>3 DEF InFront
    <3>3. t = "main" /\ Excused(p)
      BY <3>1, <3>2 DEF Waiting
    <3>4. Excused(p)'
      BY <2>2, <3>3 DEF Excused, Threads
    <3>5. \A u \in Threads : InMessage(u, p)' => u = "main"
      BY <2>3, <3>1, <3>3 DEF Waiting
    <3>6. \A u \in Threads : InFront(queue'[u], p) \/ u = "main"
      BY <2>2, <3>1 DEF Waiting
    <3>7. QED
      BY <3>4, <3>5, <3>6 DEF GreetOK, Waiting, InFront
  <2>6. QED
    BY <2>4, <2>5
<1>7. QED
  BY <1>3, <1>4, <1>5, <1>6 DEF Execute

\* The steps of a callback, its end, and the disconnect callback.
LEMMA GreetCallback ==
    ASSUME TypeOK, ThreadsOK, NEW p \in Ids, GreetOK(p),
           \/ \E t \in Threads, q \in Ids :
                  Insert(t, q) \/ Erase(t, q) \/ \E x \in Texts : Say(t, q, x)
           \/ \E t \in Threads : Return(t)
           \/ \E q \in Ids : Timeout(q)
    PROVE  GreetOK(p)'
<1>1. /\ UNCHANGED <<given, handler_id, greeted>>
      /\ p \in DOMAIN peers' => p \in DOMAIN peers
      /\ p \in DOMAIN peers => handler_id \in Threads
  BY SMTT(60) DEF Insert, Erase, Say, Do, Return, Timeout, tableVars, threadVars, serverVars, historyVars,
         ThreadsOK, Before, Handler, TypeOK, MainAt, Threads
<1>2. /\ \A u \in Threads : InFront(queue[u], p) => InFront(queue'[u], p)
      /\ \A u \in Threads : Held(u, Connected(p)) => Held(u, Connected(p))'
  <2>1. CASE UNCHANGED queue
    BY <2>1 DEF Held
  <2>2. ASSUME NEW t \in Threads, NEW q \in Ids, NEW x \in Texts, Say(t, q, x)
        PROVE  /\ \A u \in Threads : InFront(queue[u], p) => InFront(queue'[u], p)
               /\ \A u \in Threads : Held(u, Connected(p)) => Held(u, Connected(p))'
    <3>1. Broadcast(q, x) \in Closure /\ \A m \in Kinds : Broadcast(q, x) # Received(p, m)
      BY ClosuresDiffer DEF Closure
    <3>2. QED
      BY <2>2, <3>1, GreetAppend DEF Say
  <2>3. QED
    BY <2>1, <2>2 DEF Insert, Erase, Return, Timeout
<1>3. ASSUME NEW u \in Threads, InMessage(u, p)' PROVE InMessage(u, p)
  <2>1. busy \in [Threads -> Callback]
    BY DEF TypeOK
  <2>2. ASSUME NEW t \in Threads, NEW q, NEW x, Do(t, q, x) PROVE InMessage(u, p)
    <3>1. busy[t] # Idle /\ busy' = [busy EXCEPT ![t].todo = Tail(@)]
      BY <2>2 DEF Do
    <3>2. busy[t] \in [op : Kinds \cup {"disconnect"}, peer : Ids,
                       todo : Seq(Texts \cup {"insert", "erase"})]
      BY <2>1, <3>1 DEF Callback
    <3>3. busy'[u] = busy[u] \/ (u = t /\ busy'[u].peer = busy[u].peer /\ busy'[u].op = busy[u].op)
      BY <2>1, <3>1, <3>2
    <3>4. QED
      BY <1>3, <3>1, <3>3 DEF InMessage
  <2>3. CASE \E t \in Threads : Return(t)
    BY <1>3, <2>1, <2>3 DEF Return, InMessage
  <2>4. CASE \E q \in Ids : Timeout(q)
    BY <1>3, <2>1, <2>4 DEF Timeout, Start, InMessage, Kinds
  <2>5. QED
    BY <2>2, <2>3, <2>4 DEF Insert, Erase, Say
<1>4. QED
  BY <1>1, <1>2, <1>3, GreetKept

\* handle_incoming: a new peer is announced, and a message is queued behind that.
LEMMA GreetIncoming ==
    ASSUME TypeOK, HandedOut, ThreadsOK, NEW p \in Ids, GreetOK(p),
           NEW a \in Addresses, NEW q \in Ids, NEW ms \in Messages, Incoming(a, ms, q)
    PROVE  GreetOK(p)'
<1> DEFINE known == Found(a) # {}
           new   == Posted(known, q, ms)
<1>1. /\ known \in BOOLEAN /\ Post(new)
      /\ IF known THEN q \in DOMAIN peers ELSE q = next_peer_id
      /\ DOMAIN peers' = DOMAIN peers \cup {q}
      /\ bound \/ DOMAIN peers # {}
      /\ UNCHANGED <<given, handler_id, busy, greeted>>
  BY ArriveEntry, IncomingOvertakes
<1>2. handler_id \in Threads
  BY <1>1 DEF ThreadsOK, Before, Handler, TypeOK, MainAt, Threads
<1> HIDE DEF known
<1>3. /\ new \in Seq(Closure)
      /\ \A k : Has(new, k) <=> \/ ~known /\ k = Connected(q)
                                \/ \E m \in Kinds : ms = <<m>> /\ k = Received(q, m)
  <2>1. ASSUME NEW k
        PROVE  /\ new \in Seq(Closure)
               /\ Has(new, k) <=> \/ ~known /\ k = Connected(q)
                                  \/ \E m \in Kinds : ms = <<m>> /\ k = Received(q, m)
    BY <1>1, PostedHas
  <2>2. QED
    BY <2>1
<1>4. \A u \in Threads : \A k : Held(u, k)' <=>
          \/ Held(u, k)
          \/ /\ u = handler_id
             /\ \/ ~known /\ k = Connected(q)
                \/ \E m \in Kinds : ms = <<m>> /\ k = Received(q, m)
  BY <1>1, PostAdds
<1> HIDE DEF new
<1>5. /\ queue \in [Threads -> Seq(Closure)]
      /\ \A u \in Threads : queue'[u] = IF u = handler_id THEN queue[u] \o new ELSE queue[u]
  BY <1>1 DEF Post, TypeOK
<1>6. \A u \in Threads : InMessage(u, p)' <=> InMessage(u, p)
  BY <1>1 DEF InMessage
<1>7. ASSUME NEW u \in Threads, InFront(queue[u], p),
             Held(u, Connected(p)) \/ \A m \in Kinds : ~Has(new, Received(p, m))
      PROVE  InFront(queue'[u], p)
  BY <1>3, <1>5, <1>7, InFrontMore DEF Held
<1>8. CASE q # p
  <2>1. \A m \in Kinds : ~Has(new, Received(p, m))
    BY <1>3, <1>8, ClosuresDiffer
  <2>2. \A u \in Threads : InFront(queue[u], p) => InFront(queue'[u], p)
    BY <1>7, <2>1
  <2>3. p \in DOMAIN peers' => p \in DOMAIN peers /\ handler_id \in Threads
    BY <1>1, <1>2, <1>8
  <2>4. QED
    BY <1>1, <1>4, <1>6, <2>2, <2>3, GreetKept
<1>9. CASE q = p /\ p \in greeted
  BY <1>1, <1>9 DEF GreetOK
<1>10. CASE q = p /\ p \notin greeted
  <2>1. Waiting(p)
    BY <1>10 DEF GreetOK
  <2>2. CASE known
    <3>1. Held(handler_id, Connected(p)) \/ Excused(p)
      BY <1>1, <1>10, <2>1, <2>2 DEF Waiting
    <3>2. Excused(p) => Excused(p)'
      BY <1>1, <1>4 DEF Excused, Threads
    <3>3. (Held(handler_id, Connected(p)))' \/ Excused(p)'
      BY <1>1, <1>2, <1>4, <3>1, <3>2
    <3>4. ASSUME NEW u \in Threads PROVE InFront(queue'[u], p) \/ (u = "main" /\ Excused(p)')
      <4>1. CASE u = "main" /\ Excused(p)
        BY <3>2, <4>1
      <4>2. CASE ~(u = "main" /\ Excused(p))
        <5>1. InFront(queue[u], p)
          BY <2>1, <4>2 DEF Waiting
        <5>2. CASE u # handler_id
          BY <1>5, <5>1, <5>2
        <5>3. CASE u = handler_id
          <6>1. Held(u, Connected(p))
            BY <3>1, <4>2, <5>3 DEF Excused
          <6>2. QED
            BY <1>7, <5>1, <6>1
        <5>4. QED
          BY <5>2, <5>3
      <4>3. QED
        BY <4>1, <4>2
    <3>5. \A u \in Threads : InMessage(u, p)' => u = "main" /\ Excused(p)'
      BY <1>6, <2>1, <3>2 DEF Waiting
    <3>6. QED
      BY <3>3, <3>4, <3>5 DEF GreetOK, Waiting, InFront
  <2>3. CASE ~known
    <3>1. p = next_peer_id /\ next_peer_id \in Int
      BY <1>1, <1>10, <2>3 DEF TypeOK
    <3>2. \A u \in Threads : ~MessageQueued(u, p) /\ ~About(u, p)
      BY <3>1 DEF HandedOut
    <3>3. \A u \in Threads : ~InMessage(u, p)'
      BY <1>6, <3>2 DEF InMessage, About
    <3>4. ms = << >>
      BY <1>1, <2>3 DEF Incoming, Hand, Deliver, known
    <3>5. \A m \in Kinds : ~Has(new, Received(p, m))
      <4>1. \A m \in Kinds : ms # <<m>>
        BY <3>4
      <4>2. QED
        BY <1>3, <4>1, ClosuresDiffer
    <3>6. ASSUME NEW u \in Threads PROVE InFront(queue[u], p)
      BY <3>2 DEF InFront, MessageQueued, Held, Has
    <3>7. \A u \in Threads : InFront(queue'[u], p)
      BY <1>7, <3>5, <3>6
    <3>8. (Held(handler_id, Connected(p)))'
      BY <1>1, <1>2, <1>4, <1>10, <2>3
    <3>9. QED
      BY <3>3, <3>7, <3>8 DEF GreetOK, Waiting, InFront
  <2>4. QED
    BY <2>2, <2>3
<1>11. QED
  BY <1>8, <1>9, <1>10

AllGreeted == \A p \in Ids : GreetOK(p)

LEMMA GreetStep == TypeOK /\ HandedOut /\ ThreadsOK /\ AllGreeted /\ [Next]_vars => AllGreeted'
<1> SUFFICES ASSUME TypeOK, HandedOut, ThreadsOK, AllGreeted, [Next]_vars, NEW p \in Ids
             PROVE  GreetOK(p)'
  BY DEF AllGreeted
<1>1. GreetOK(p) /\ (p \in DOMAIN peers => handler_id \in Threads)
  BY DEF AllGreeted, ThreadsOK, Before, Handler, TypeOK, MainAt, Threads
<1>2. ASSUME UNCHANGED <<given, handler_id, peers, queue, busy, greeted>> PROVE GreetOK(p)'
  BY <1>1, <1>2 DEF GreetOK, Waiting, InFront, InMessage, Excused, Held
<1>3. CASE \/ UNCHANGED vars
           \/ Stop /\ UNCHANGED <<serverVars, outbox>>
           \/ \E a \in Addresses : ClientRun(a) \/ ClientLine(a)
  BY <1>2, <1>3 DEF vars, Stop, ClientRun, ClientLine, threadVars, tableVars, serverVars, historyVars
<1>4. CASE \E t \in Threads : Proceed(t) /\ UNCHANGED <<serverVars, outbox>>
  BY <1>1, <1>4, GreetProceed DEF serverVars, historyVars
<1>5. CASE \E t \in Threads : Execute(t)
  BY <1>1, <1>5, GreetExecute
<1>6. CASE \/ \E t \in Threads, q \in Ids :
                  Insert(t, q) \/ Erase(t, q) \/ \E x \in Texts : Say(t, q, x)
           \/ \E t \in Threads : Return(t)
           \/ \E q \in Ids : Timeout(q)
  BY <1>1, <1>6, GreetCallback
<1>7. CASE \E a \in Addresses, q \in Ids, ms \in Messages : Incoming(a, ms, q)
  BY <1>1, <1>7, GreetIncoming
<1>8. QED
  BY <1>3, <1>4, <1>5, <1>6, <1>7, Steps

(***************************************************************************)
(* Although the worker reads handler_id once for the connect callback and    *)
(* again for the message, while run() writes it: only a node constructed     *)
(* without a thread can hand over a message of a peer before it announces    *)
(* the peer, and only on the main thread while the announcement waits for    *)
(* the worker.                                                              *)
(***************************************************************************)
THEOREM ConnectFirstHolds == Spec => []ConnectFirst
<1>1. Init => AllGreeted
  <2> SUFFICES ASSUME Init, NEW p \in Ids PROVE GreetOK(p)
    BY DEF AllGreeted
  <2>1. /\ DOMAIN peers = {}
        /\ \A t \in Threads : queue[t] = << >> /\ busy[t] = Idle
    BY DEF Init, ThreadsInit
  <2>2. QED
    BY <2>1 DEF GreetOK, Waiting, InFront, InMessage
<1>2. (TypeOK /\ HandedOut /\ ThreadsOK) /\ AllGreeted /\ [Next]_vars => AllGreeted'
  BY GreetStep
<1>3. TypeOK /\ AllGreeted => ConnectFirst
  <2> SUFFICES ASSUME TypeOK, AllGreeted, NEW t \in Threads, busy[t] # Idle, busy[t].op \in Kinds
               PROVE  \/ busy[t].peer \in greeted
                      \/ /\ given = "worker" /\ t = "main"
                         /\ \E i \in 1 .. Len(queue["worker"]) :
                                queue["worker"][i] = Connected(busy[t].peer)
    BY DEF ConnectFirst
  <2> DEFINE p == busy[t].peer
  <2>1. p \in Ids
    BY DEF TypeOK, Callback
  <2>2. p \in greeted \/ Waiting(p)
    BY <2>1 DEF AllGreeted, GreetOK
  <2>3. InMessage(t, p)
    BY DEF InMessage
  <2>4. QED
    BY <2>2, <2>3 DEF Waiting, Excused, Held, Has
<1>4. QED
  BY <1>1, <1>2, <1>3, ThreadsInvariant, PTL DEF Spec
=============================================================================
