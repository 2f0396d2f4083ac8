----------------------------- MODULE SystemProofs -----------------------------
(* Proofs about the server and the plugin that uses it, for every value of *)
(* the constants: what the plugin was told of its challenges stays true of *)
(* the list, whatever becomes of the requests it has given up.             *)
EXTENDS System, ServerProofs

-----------------------------------------------------------------------------
(* The plugin is one of the clients the server is proved for.              *)

\* The plugin's connection is one of the listener's.
CallKnown == call \in Conns \cup {None}

\* Only a connection that was made is called.
LEMMA CallIsKnown == SysSpec => []CallKnown
<1>1. SysInit => CallKnown
  BY DEF SysInit, Plugin!Init, CallKnown
<1>2. CallKnown /\ [SysNext]_sysvars => CallKnown'
  BY DEF CallKnown, SysNext, ServerMoves, Begins, PluginMoves, Proceeds, Connects, Refused,
         ConnectTimesOut, Sends, RequestTimesOut, GetsReply, Waits, sysvars, plugin,
         Plugin!perform, Plugin!Performed, Plugin!cleanup, Plugin!Teardown, Plugin!Return,
         Plugin!Connects, Plugin!Outcome, Plugin!_perform, Plugin!_cleanup, Plugin!Closed
<1> QED
  BY <1>1, <1>2, PTL DEF SysSpec

\* Each step of the two together is one of the server's, or leaves it alone.
LEMMA StepsOfServer == CallKnown /\ [SysNext]_sysvars => [Next]_vars
<1> SUFFICES ASSUME CallKnown, [SysNext]_sysvars
             PROVE  [Next]_vars
  OBVIOUS
<1>1. CASE ServerMoves
  BY <1>1 DEF ServerMoves, Next
<1>2. CASE Begins \/ Proceeds \/ Refused \/ ConnectTimesOut \/ GetsReply \/ UNCHANGED sysvars
  BY <1>2 DEF Begins, Proceeds, Refused, ConnectTimesOut, GetsReply, sysvars
<1>3. CASE Connects
  BY <1>3 DEF Connects, Next, Clients
<1>4. CASE Waits
  BY <1>4 DEF Waits, Next
<1>5. CASE Sends \/ RequestTimesOut
  <2>1. call \in Conns
    BY <1>5 DEF Sends, RequestTimesOut, CallKnown
  <2>2. Clients
    BY <1>5, <2>1 DEF Sends, RequestTimesOut, Clients
  <2> QED
    BY <2>2 DEF Next
<1> QED
  BY <1>1, <1>2, <1>3, <1>4, <1>5 DEF SysNext, PluginMoves

\* Whatever is proved of the server with any clients holds of it with this one.
THEOREM PluginIsClient == SysSpec => Spec
<1>1. SysInit => Init
  BY DEF SysInit
<1> QED
  BY <1>1, StepsOfServer, CallIsKnown, PTL DEF SysSpec, Spec

-----------------------------------------------------------------------------
(* The inductive invariant.                                               *)

\* The connections the server still has to serve, the one being read first.
Queue == IF pc = "read" THEN <<serving>> \o backlog ELSE backlog

\* A connection is in the queue once, with the request of its client.
QueueInv ==
  /\ Queue \in Seq(Conns)
  /\ \A i, j \in 1..Len(Queue) : Queue[i] = Queue[j] => i = j
  /\ \A i \in 1..Len(Queue) : conn[Queue[i]].req \in Requests

\* The request under way is the last of the queue until there is a reply, and
\* when there is one, everything before it has been handled.
CallInv ==
  /\ call \in Conns \cup {None}
  /\ call = None => reply = None
  /\ call # None => phase \in {"perform", "cleanup"} /\ todo # <<>>
  /\ call # None /\ reply = None =>
       /\ Queue # <<>> /\ Queue[Len(Queue)] = call
       /\ conn[call].open /\ conn[call].req = Plugin!Request
  /\ reply # None => Queue = <<>> /\ conn[call] = Idle

\* How many challenges of this run are confirmed, and how many registered.
Done == Len(order) - Len(todo)
Ahead == Done + (IF reply = "CREATED" THEN 1 ELSE 0)

\* What certbot asks for.
Asked == [domain : RawDomains, name : RawNames, value : Values]

\* What is still to do are the last challenges of the order.
OrderInv ==
  /\ phase \in Plugin!Phases
  /\ order \in Orders \cup {<<>>}
  /\ phase \in {"perform", "issued"} => order \in Orders
  /\ todo \in Seq(Asked)
  /\ Len(todo) <= Len(order)
  /\ \A i \in 1..Len(todo) : todo[i] = order[Done + i]

\* The list ends with the first d challenges of the order.
EndsWith(d) ==
  /\ d <= Len(list)
  /\ \A i \in 1..d : list[Len(list) - d + i] = order[i]

\* Before the first challenge is confirmed, requests of an earlier run may still
\* be handled; then only the plugin's own is left.
PerformInv ==
  phase \in {"perform", "issued"} =>
    /\ deleted = {}
    /\ \A c \in confirmed : \E i \in 1..Done : order[i] = c
    /\ Done > 0 => Queue = IF call # None /\ reply = None THEN <<call>> ELSE <<>>
    /\ ~restarted => EndsWith(Ahead)

\* Once a deletion is confirmed, nothing that waits registers a challenge.
DeleteInv ==
  /\ deleted # {} => \A i \in 1..Len(Queue) : conn[Queue[i]].req.method = "DELETE"
  /\ DeletedStaysAway
  /\ phase = "cleanup" /\ reply = "NO_CONTENT" => ~InList(Head(todo))

SysInv == QueueInv /\ CallInv /\ OrderInv /\ PerformInv /\ DeleteInv

-----------------------------------------------------------------------------
(* What the server does to the queue.                                      *)

\* A connection leaves the queue, and its slot is free again.
Leaves(c) ==
  /\ Queue # <<>> /\ c = Head(Queue) /\ Queue' = Tail(Queue)
  /\ conn' = [conn EXCEPT ![c] = Idle]

\* Its request changes the list, and is answered accordingly if it can be.
ChangesList(c) ==
  LET req == conn[c].req
      challenge == challenge_from_req(req) IN
  /\ challenge \in Challenges!Challenge
  /\ \/ /\ Registers(req) /\ Challenges!set(challenge)
        /\ status' # "CREATED" => status' = None /\ ~conn[c].open
     \/ /\ Unregisters(req) /\ Challenges!cleanup(challenge)
        /\ status' # "NO_CONTENT" => status' = None /\ ~conn[c].open

\* Or it does not, and is answered with something else.
LeavesList ==
  UNCHANGED list /\ status' \notin {"CREATED", "NO_CONTENT"}

\* The queue is one of connections.
LEMMA QueueType ==
  ASSUME LoopAndWakeups, ConnInv
  PROVE  Queue \in Seq(Conns)
<1>1. backlog \in Seq(Conns)
  BY DEF LoopAndWakeups, LoopInv
<1>2. pc = "read" => serving \in Conns
  BY DEF ConnInv
<1> QED
  BY <1>1, <1>2 DEF Queue

\* Only a request that registers is answered with CREATED, and only one that
\* deletes with NO_CONTENT (http_handler.rs:80-120).
LEMMA StatusTells ==
  ASSUME NEW req
  PROVE  /\ status_code(req) = "CREATED" => Registers(req)
         /\ status_code(req) = "NO_CONTENT" => Unregisters(req)
<1>1. CASE Registers(req) \/ Unregisters(req)
  BY <1>1, RoutedStatus
<1>2. CASE ~Registers(req) /\ ~Unregisters(req)
  <2>1. status_code(req) \in {"OK", "BAD_REQUEST", "METHOD_NOT_ALLOWED", "NOT_FOUND"}
    BY <1>2 DEF status_code
  <2> QED
    BY <2>1
<1> QED
  BY <1>1, <1>2

\* Accepting a connection leaves it in the queue.
LEMMA AcceptKeepsQueue ==
  ASSUME LoopAndWakeups, Accept
  PROVE  UNCHANGED Queue
<1>1. backlog \in Seq(Conns) /\ backlog # <<>>
  BY DEF Accept, LoopAndWakeups, LoopInv
<1>2. <<Head(backlog)>> \o Tail(backlog) = backlog
  BY <1>1
<1>3. Queue = backlog /\ Queue' = <<Head(backlog)>> \o Tail(backlog)
  BY DEF Accept, Queue
<1> QED
  BY <1>2, <1>3

\* Serving one takes it out.
LEMMA ServedLeaves ==
  ASSUME LoopAndWakeups, ConnInv, pc = "read", Served
  PROVE  serving \in Conns /\ Leaves(serving)
<1>1. serving \in Conns /\ backlog \in Seq(Conns)
  BY DEF ConnInv, LoopAndWakeups, LoopInv
<1>2. Queue = <<serving>> \o backlog /\ Queue' = backlog
  BY DEF Served, kernel, Queue
<1>3. Queue # <<>> /\ Head(Queue) = serving /\ Tail(Queue) = backlog
  BY <1>1, <1>2
<1> QED
  BY <1>1, <1>2, <1>3 DEF Served, Leaves

\* A request that is read to its end.
LEMMA RequestLeaves ==
  ASSUME ConnInv, HandleRequest
  PROVE  ChangesList(serving) \/ LeavesList
<1> DEFINE req == conn[serving].req
<1>1. status' # status_code(req) => status' = None /\ ~conn[serving].open
  <2>1. status' \in {status_code(req)} \cup (IF conn[serving].open THEN {} ELSE {None})
    BY Zenon DEF HandleRequest
  <2> QED
    BY <2>1
<1>2. CASE Registers(req)
  <2>1. Challenges!set(challenge_from_req(req))
    BY <1>2, Zenon DEF HandleRequest, Registers, Unregisters
  <2>2. status_code(req) = "CREATED"
    BY <1>2, RoutedStatus
  <2> QED
    BY <1>1, <1>2, <2>1, <2>2, ChallengeRead DEF Registers, ChangesList
<1>3. CASE Unregisters(req)
  <2>1. ~Registers(req)
    BY <1>3 DEF Registers, Unregisters
  <2>2. Challenges!cleanup(challenge_from_req(req))
    BY <1>3, <2>1, Zenon DEF HandleRequest
  <2>3. status_code(req) = "NO_CONTENT"
    BY <1>3, RoutedStatus
  <2> QED
    BY <1>1, <1>3, <2>2, <2>3, ChallengeRead DEF Unregisters, ChangesList
<1>4. CASE ~Registers(req) /\ ~Unregisters(req)
  <2>1. UNCHANGED store
    BY <1>4, Zenon DEF HandleRequest
  <2>2. status_code(req) \notin {"CREATED", "NO_CONTENT"}
    BY <1>4, StatusTells
  <2>3. None \notin {"CREATED", "NO_CONTENT"}
    BY ServerAssumption DEF StatusCode
  <2> QED
    BY <1>1, <2>1, <2>2, <2>3 DEF store, LeavesList
<1> QED
  BY <1>2, <1>3, <1>4

\* The thread ends, or serves or loses the first connection, or leaves the queue
\* and the list alone.
LEMMA ThreadOnQueue ==
  ASSUME LoopAndWakeups, ConnInv, Step \/ Failure
  PROVE  \/ Exit /\ Bound
         \/ \E c \in Conns : Leaves(c) /\ (ChangesList(c) \/ LeavesList)
         \/ UNCHANGED <<Queue, conn, list>>
<1>0. None \notin {"CREATED", "NO_CONTENT"}
  BY ServerAssumption DEF StatusCode
<1>1. CASE Fails \/ Unwind
  BY <1>1 DEF Fails, Unwind, Bound
<1>2. CASE PartialRequest \/ DroppedRequest \/ HandleRequest
  <2>1. pc = "read" /\ Served
    BY <1>2 DEF PartialRequest, DroppedRequest, HandleRequest
  <2>2. CASE PartialRequest \/ DroppedRequest
    BY <1>0, <2>1, <2>2, ServedLeaves DEF PartialRequest, DroppedRequest, LeavesList, store
  <2> QED
    BY <1>2, <2>1, <2>2, ServedLeaves, RequestLeaves
<1>3. CASE Accept
  BY <1>3, AcceptKeepsQueue DEF Accept, store
<1>4. CASE DrainFails
  <2>1. pc = "drain" /\ pc' = "dispatch" /\ UNCHANGED list /\ status' = None
    BY <1>4 DEF DrainFails, StopDraining, store
  <2>2. Queue = backlog /\ Queue' = backlog'
    BY <2>1 DEF Queue
  <2>3. CASE UNCHANGED <<backlog, conn>>
    BY <2>1, <2>2, <2>3
  <2>4. CASE /\ token = TCP_LISTENER
             /\ backlog' = Tail(backlog)
             /\ conn' = [conn EXCEPT ![Head(backlog)] = Idle]
    <3>1. backlog \in Seq(Conns) /\ backlog # <<>>
      BY <1>4, <2>4 DEF DrainFails, Pending, LoopAndWakeups, LoopInv
    <3>2. Head(backlog) \in Conns /\ Leaves(Head(backlog))
      BY <2>2, <2>4, <3>1 DEF Leaves
    <3>3. LeavesList
      BY <1>0, <2>1 DEF LeavesList
    <3> QED
      BY <3>2, <3>3
  <2> QED
    BY <1>4, <2>3, <2>4 DEF DrainFails
<1>5. CASE Bind \/ Register \/ DoPoll \/ NextEvent \/ NoMoreEvents \/ WouldBlock \/ SendTo
  <2>1. pc # "read" /\ pc' # "read" /\ UNCHANGED <<backlog, conn, list>>
    BY <1>5 DEF Bind, Register, DoPoll, NextEvent, NoMoreEvents, WouldBlock, StopDraining,
                SendTo, kernel, store
  <2> QED
    BY <2>1 DEF Queue
<1>6. CASE IgnoreInvalidAddress \/ IgnoreBlocked \/ IgnoreMessage \/ RespondTo \/ Panic
  <2>1. pc # "read" /\ pc' # "read" /\ UNCHANGED <<backlog, conn, list>>
    BY <1>6 DEF IgnoreInvalidAddress, IgnoreBlocked, IgnoreMessage, Ignored, RespondTo,
                Respond, Panic, Counted, Recv, thread, store
  <2> QED
    BY <2>1 DEF Queue
<1> QED
  BY <1>1, <1>2, <1>3, <1>4, <1>5, <1>6 DEF Step, Failure

-----------------------------------------------------------------------------
(* What that does to the list.                                             *)

\* The list is a sequence of challenges that has room for an order.
LEMMA ListType ==
  ASSUME Proofs!ListInv
  PROVE  list \in Seq(Challenges!Challenge) /\ Len(list) <= MAX_LEN
BY SameOperators DEF Proofs!ListInv, Proofs!TypeOK

\* Both modules speak of the same challenges.
LEMMA InListIsListed == \A c : InList(c) <=> c \in Listed
BY DEF InList, Listed

\* The next challenge of an order goes behind those that are there, and pushes
\* out none of them (challenges.rs:42-47).
LEMMA SetExtends ==
  ASSUME Proofs!ListInv, NEW d \in Nat, EndsWith(d), d + 1 <= MAX_LEN,
         order[d + 1] \in Challenges!Challenge, Challenges!set(order[d + 1]),
         UNCHANGED order
  PROVE  EndsWith(d + 1)'
<1> DEFINE c == order[d + 1]
           n == Len(list)
           longer == Append(list, c)
<1>1. list \in Seq(Challenges!Challenge) /\ n \in Nat /\ n <= MAX_LEN /\ MAX_LEN \in Nat
  BY ListType, ServerAssumption
<1>2. /\ longer \in Seq(Challenges!Challenge) /\ Len(longer) = n + 1
      /\ longer[n + 1] = c /\ \A i \in 1..n : longer[i] = list[i]
  BY <1>1
<1>3. list' = IF Len(longer) > MAX_LEN THEN Tail(longer) ELSE longer
  BY DEF Challenges!set, Challenges!Pushed
<1>4. d <= n /\ \A i \in 1..d : list[n - d + i] = order[i]
  BY DEF EndsWith
<1>5. \A i \in 1..(d + 1) : longer[n - d + i] = order[i]
  <2> SUFFICES ASSUME NEW i \in 1..(d + 1)
               PROVE  longer[n - d + i] = order[i]
    OBVIOUS
  <2>1. CASE i = d + 1
    BY <1>1, <1>2, <1>4, <2>1
  <2>2. CASE i \in 1..d
    <3>1. n - d + i \in 1..n
      BY <1>1, <1>4, <2>2
    <3> QED
      BY <1>2, <1>4, <2>2, <3>1
  <2>3. i = d + 1 \/ i \in 1..d
    OBVIOUS
  <2> QED
    BY <2>1, <2>2, <2>3
<1> HIDE DEF longer, c, n
<1>6. CASE Len(longer) > MAX_LEN
  <2>1. /\ list' = Tail(longer) /\ Len(list') = n /\ n = MAX_LEN
        /\ \A k \in 1..n : list'[k] = longer[k + 1]
    <3>1. list' = Tail(longer) /\ n = MAX_LEN
      BY <1>1, <1>2, <1>3, <1>6
    <3>2. Len(Tail(longer)) = n /\ \A k \in 1..n : Tail(longer)[k] = longer[k + 1]
      BY <1>1, <1>2
    <3> QED
      BY <3>1, <3>2
  <2>2. \A i \in 1..(d + 1) : list'[n - (d + 1) + i] = longer[n - d + i]
    <3> SUFFICES ASSUME NEW i \in 1..(d + 1)
                 PROVE  list'[n - (d + 1) + i] = longer[n - d + i]
      OBVIOUS
    <3>1. /\ n - (d + 1) + i \in 1..n
          /\ (n - (d + 1) + i) + 1 = n - d + i
      BY <1>1, <2>1
    <3> QED
      BY <2>1, <3>1
  <2> QED
    BY <1>1, <1>5, <2>1, <2>2 DEF EndsWith
<1>7. CASE ~(Len(longer) > MAX_LEN)
  <2>1. list' = longer /\ Len(list') = n + 1
    BY <1>2, <1>3, <1>7
  <2>2. \A i \in 1..(d + 1) : n + 1 - (d + 1) + i = n - d + i
    BY <1>1
  <2> QED
    BY <1>1, <1>4, <1>5, <2>1, <2>2 DEF EndsWith
<1> QED
  BY <1>6, <1>7

\* A deletion adds nothing, and leaves nothing of its challenge.
LEMMA CleanupTakes ==
  ASSUME Proofs!ListInv, NEW c \in Challenges!Challenge, Challenges!cleanup(c)
  PROVE  /\ ~InList(c)'
         /\ \A e : InList(e)' => InList(e)
<1>1. Listed' = Listed \ {c}
  BY CleanupDeletes
<1>2. \A e : InList(e)' <=> e \in Listed'
  BY DEF InList, Listed
<1> QED
  BY <1>1, <1>2, InListIsListed

-----------------------------------------------------------------------------
(* The queue.                                                              *)

\* The others move up when the first connection leaves.
LEMMA LeavingKeepsQueue ==
  ASSUME QueueInv, ConnInv, NEW c \in Conns, Leaves(c)
  PROVE  /\ QueueInv'
         /\ Queue' \in Seq(Conns) /\ Queue[1] = c /\ Len(Queue') = Len(Queue) - 1
         /\ \A i \in 1..Len(Queue') : /\ i + 1 \in 1..Len(Queue)
                                      /\ Queue'[i] = Queue[i + 1]
                                      /\ conn'[Queue'[i]] = conn[Queue[i + 1]]
<1> DEFINE q == Queue
           r == Queue'
<1>1. q \in Seq(Conns) /\ q # <<>> /\ r = Tail(q) /\ c = Head(q)
  BY DEF QueueInv, Leaves
<1>2. \A i, j \in 1..Len(q) : q[i] = q[j] => i = j
  BY DEF QueueInv
<1>3. \A i \in 1..Len(q) : conn[q[i]].req \in Requests
  BY DEF QueueInv
<1>4. conn' = [conn EXCEPT ![c] = Idle] /\ conn = [d \in Conns |-> conn[d]]
  BY DEF Leaves, ConnInv
<1> HIDE DEF q, r
<1>5. r \in Seq(Conns) /\ q[1] = c /\ Len(r) = Len(q) - 1 /\ Len(q) \in Nat /\ Len(q) >= 1
  BY <1>1
<1>6. \A i \in 1..Len(r) : i + 1 \in 1..Len(q) /\ r[i] = q[i + 1]
  BY <1>1, <1>5
<1>7. \A i \in 1..Len(r) : r[i] # c /\ r[i] \in Conns
  <2> SUFFICES ASSUME NEW i \in 1..Len(r)
               PROVE  r[i] # c /\ r[i] \in Conns
    OBVIOUS
  <2>1. i + 1 # 1 /\ 1 \in 1..Len(q)
    BY <1>5
  <2> QED
    BY <1>2, <1>5, <1>6, <2>1
<1>8. \A i \in 1..Len(r) : conn'[r[i]] = conn[q[i + 1]]
  BY <1>4, <1>6, <1>7
<1>9. \A i, j \in 1..Len(r) : r[i] = r[j] => i = j
  <2> SUFFICES ASSUME NEW i \in 1..Len(r), NEW j \in 1..Len(r), r[i] = r[j]
               PROVE  i = j
    OBVIOUS
  <2>1. i + 1 = j + 1
    BY <1>2, <1>6
  <2> QED
    BY <1>5, <2>1
<1>10. \A i \in 1..Len(r) : conn'[r[i]].req \in Requests
  BY <1>3, <1>6, <1>8
<1>11. QueueInv'
  BY <1>5, <1>9, <1>10 DEF QueueInv, r
<1> QED
  BY <1>5, <1>6, <1>8, <1>11 DEF q, r

\* A connection that is new is the last.
LEMMA ConnectExtendsQueue ==
  ASSUME LoopAndWakeups, ConnInv, QueueInv, NEW c \in Conns, Connect(c),
         conn'[c].req \in Requests
  PROVE  /\ QueueInv'
         /\ Queue' \in Seq(Conns) /\ Len(Queue') = Len(Queue) + 1
         /\ Queue'[Len(Queue')] = c /\ conn'[c].open
         /\ \A i \in 1..Len(Queue) : /\ Queue'[i] = Queue[i]
                                     /\ conn'[Queue'[i]] = conn[Queue[i]]
<1> DEFINE q == Queue
           r == Queue'
<1>1. q \in Seq(Conns)
  BY DEF QueueInv
<1>2. \A i, j \in 1..Len(q) : q[i] = q[j] => i = j
  BY DEF QueueInv
<1>3. \A i \in 1..Len(q) : conn[q[i]].req \in Requests
  BY DEF QueueInv
<1>4. PICK req \in Requests : conn' = [conn EXCEPT ![c] = Connected(req)]
  BY DEF Connect
<1>5. conn[c] = Idle /\ conn = [d \in Conns |-> conn[d]]
  BY DEF Connect, ConnInv
<1>6. r = Append(q, c)
  <2>1. backlog \in Seq(Conns) /\ backlog' = Append(backlog, c) /\ UNCHANGED <<pc, serving>>
    BY DEF Connect, thread, LoopAndWakeups, LoopInv
  <2>2. pc = "read" => <<serving>> \o Append(backlog, c) = Append(<<serving>> \o backlog, c)
    BY <2>1 DEF ConnInv
  <2> QED
    BY <2>1, <2>2 DEF Queue, q, r
<1> HIDE DEF q, r
<1>7. /\ r \in Seq(Conns) /\ Len(r) = Len(q) + 1 /\ r[Len(r)] = c /\ Len(q) \in Nat
      /\ \A i \in 1..Len(q) : r[i] = q[i]
  BY <1>1, <1>6
<1>8. \A i \in 1..Len(q) : q[i] # c /\ q[i] \in Conns
  <2> SUFFICES ASSUME NEW i \in 1..Len(q)
               PROVE  q[i] # c /\ q[i] \in Conns
    OBVIOUS
  <2>1. Idle.req \notin Requests
    BY ServerAssumption DEF Idle
  <2> QED
    BY <1>1, <1>3, <1>5, <2>1
<1>9. \A i \in 1..Len(q) : conn'[r[i]] = conn[q[i]]
  BY <1>4, <1>5, <1>7, <1>8
<1>10. conn'[c].open
  BY <1>4, <1>5 DEF Connected
<1>11. \A i, j \in 1..Len(r) : r[i] = r[j] => i = j
  <2> SUFFICES ASSUME NEW i \in 1..Len(r), NEW j \in 1..Len(r), r[i] = r[j]
               PROVE  i = j
    OBVIOUS
  <2>1. \A k \in 1..Len(r) : k = Len(r) \/ k \in 1..Len(q)
    BY <1>7
  <2> QED
    BY <1>2, <1>7, <1>8, <2>1
<1>12. \A i \in 1..Len(r) : conn'[r[i]].req \in Requests
  <2>1. \A k \in 1..Len(r) : k = Len(r) \/ k \in 1..Len(q)
    BY <1>7
  <2> QED
    BY <1>3, <1>7, <1>9, <2>1
<1>13. QueueInv'
  BY <1>7, <1>11, <1>12 DEF QueueInv, r
<1> QED
  BY <1>7, <1>9, <1>10, <1>13 DEF q, r

-----------------------------------------------------------------------------
(* The order.                                                              *)

\* What certbot asks for is a sequence, and not a long one.
LEMMA OrderType ==
  ASSUME NEW o \in Orders
  PROVE  o \in Seq(Asked) /\ Len(o) \in 1..MAX_LEN
<1>1. Orders \subseteq Seq(Asked)
  BY OrdersAssumption, Zenon DEF Asked
<1>2. Len(o) \in 1..MAX_LEN
  BY OrdersAssumption, Zenon
<1> QED
  BY <1>1, <1>2

\* An order is a sequence, of which some are done.
LEMMA OrderFacts ==
  ASSUME OrderInv
  PROVE  /\ order \in Seq(Asked) /\ Len(order) \in Nat /\ Len(order) <= MAX_LEN
         /\ todo \in Seq(Asked) /\ Len(todo) \in Nat
         /\ Done \in Nat /\ Done <= Len(order)
<1>1. order \in Seq(Asked) /\ Len(order) <= MAX_LEN
  <2>1. CASE order \in Orders
    BY <2>1, OrderType, ServerAssumption
  <2>2. CASE order = <<>>
    BY <2>2, ServerAssumption
  <2> QED
    BY <2>1, <2>2 DEF OrderInv
<1>2. todo \in Seq(Asked) /\ Len(todo) <= Len(order)
  BY DEF OrderInv
<1>3. Len(order) \in Nat /\ Len(todo) \in Nat
  BY <1>1, <1>2
<1> QED
  BY <1>1, <1>2, <1>3 DEF Done

\* The next request is about the first challenge that is not done, and means
\* that challenge (champ.py:46-76, http_handler.rs:59-73).
LEMMA RequestFacts ==
  ASSUME OrderInv, todo # <<>>
  PROVE  /\ Done + 1 \in 1..Len(order)
         /\ Head(todo) = order[Done + 1]
         /\ challenge_from_req(Plugin!Request) = Head(todo)
         /\ Plugin!Request.method = IF phase = "perform" THEN "POST" ELSE "DELETE"
<1>1. /\ order \in Seq(Asked) /\ Len(order) \in Nat
      /\ todo \in Seq(Asked) /\ Len(todo) \in Nat /\ Done \in Nat
  BY OrderFacts
<1>2. Len(todo) >= 1 /\ Done = Len(order) - Len(todo)
  BY <1>1 DEF Done
<1>3. Done + 1 \in 1..Len(order)
  BY <1>1, <1>2
<1>4. Head(todo) = order[Done + 1]
  <2>1. todo[1] = order[Done + 1]
    BY <1>2 DEF OrderInv
  <2> QED
    BY <1>1, <2>1
<1>5. challenge_from_req(order[Done + 1]) = order[Done + 1]
  <2>1. order \in Orders
    BY <1>1, <1>3 DEF OrderInv
  <2>2. Done + 1 \in DOMAIN order
    BY <1>1, <1>3
  <2> QED
    BY <2>1, <2>2, OrdersAssumption
<1>6. challenge_from_req(Plugin!Request) = challenge_from_req(Head(todo))
  BY DEF challenge_from_req, Plugin!Request
<1> QED
  BY <1>3, <1>4, <1>5, <1>6 DEF Plugin!Request

\* The next challenge is done.
LEMMA TailDone ==
  ASSUME OrderInv, todo # <<>>, todo' = Tail(todo), UNCHANGED order
  PROVE  /\ todo' \in Seq(Asked) /\ Len(todo') <= Len(order')
         /\ \A i \in 1..Len(todo') : todo'[i] = order'[Done' + i]
         /\ Done' = Done + 1
<1> DEFINE t == Tail(todo)
<1>1. /\ Len(order) \in Nat /\ todo \in Seq(Asked) /\ Len(todo) \in Nat
      /\ Len(todo) <= Len(order) /\ Len(todo) >= 1
  BY OrderFacts DEF OrderInv
<1>2. /\ t \in Seq(Asked) /\ Len(t) = Len(todo) - 1
      /\ \A i \in 1..Len(t) : i + 1 \in 1..Len(todo) /\ t[i] = todo[i + 1]
  BY <1>1
<1> HIDE DEF t
<1>3. Done' = Len(order) - Len(t) /\ Done = Len(order) - Len(todo)
  BY DEF Done, t
<1>4. Done' = Done + 1
  BY <1>1, <1>2, <1>3
<1>5. \A i \in 1..Len(t) : t[i] = order[Done + 1 + i]
  <2> SUFFICES ASSUME NEW i \in 1..Len(t)
               PROVE  t[i] = order[Done + 1 + i]
    OBVIOUS
  <2>1. todo[i + 1] = order[Done + (i + 1)]
    BY <1>2 DEF OrderInv
  <2>2. Done + (i + 1) = Done + 1 + i
    BY <1>1, <1>3
  <2> QED
    BY <1>2, <2>1, <2>2
<1> QED
  BY <1>1, <1>2, <1>4, <1>5 DEF t

\* All of an order is to do.
LEMMA AllToDo ==
  ASSUME order' \in Orders \cup {<<>>}, todo' = order'
  PROVE  /\ todo' \in Seq(Asked) /\ Len(todo') <= Len(order')
         /\ \A i \in 1..Len(todo') : todo'[i] = order'[Done' + i]
         /\ Done' = 0
<1>1. order' \in Seq(Asked)
  <2>1. CASE order' \in Orders
    BY <2>1, OrderType
  <2>2. CASE order' = <<>>
    BY <2>2
  <2> QED
    BY <2>1, <2>2
<1>2. Len(order') \in Nat
  BY <1>1
<1>3. Done' = 0
  BY <1>2 DEF Done
<1> QED
  BY <1>1, <1>2, <1>3

-----------------------------------------------------------------------------
(* The invariant is inductive: the server.                                 *)

\* All of the state that matters.
AllInv == PromiseInv /\ SysInv

\* There is a reply from the moment the server lets go of the connection.
LEMMA ReplyFacts ==
  ASSUME CallInv, ServerMoves
  PROVE  /\ UNCHANGED <<phase, order, todo, call, confirmed, deleted>>
         /\ restarted => restarted'
         /\ IF call # None /\ reply = None /\ conn'[call] = Idle
            THEN reply' # None /\ reply' \in {status', "ConnectionError"}
                 /\ (status' # None => reply' = status')
            ELSE reply' = reply
<1>1. /\ UNCHANGED <<phase, order, todo, call, confirmed, deleted>>
      /\ restarted => restarted'
      /\ reply' = IF call # None /\ conn[call] # Idle /\ conn'[call] = Idle
                  THEN IF status' = None THEN "ConnectionError" ELSE status'
                  ELSE reply
  BY DEF ServerMoves
<1>2. call # None /\ reply = None => conn[call] # Idle
  BY IdleFacts DEF CallInv
<1>3. call # None /\ reply # None => conn[call] = Idle
  BY DEF CallInv
<1> QED
  BY <1>1, <1>2, <1>3, OrdersAssumption

\* What the plugin knows of its order stays as it is.
LEMMA OrderStays ==
  ASSUME OrderInv, UNCHANGED <<phase, order, todo>>
  PROVE  OrderInv' /\ UNCHANGED Done /\ UNCHANGED Plugin!Request
BY DEF OrderInv, Done, Plugin!Request

\* A request of an earlier run, or one that was given up, is handled: nothing of
\* this run is confirmed yet, or it deletes.
LEMMA OtherIsServed ==
  ASSUME AllInv, ServerMoves, NEW c \in Conns, Leaves(c), ChangesList(c) \/ LeavesList,
         c # call
  PROVE  SysInv'
<1> USE DEF AllInv, SysInv
<1>1. LoopAndWakeups /\ ConnInv /\ Proofs!ListInv
  BY DEF PromiseInv
<1>2. /\ QueueInv'
      /\ Queue' \in Seq(Conns) /\ Queue[1] = c /\ Len(Queue') = Len(Queue) - 1
      /\ \A i \in 1..Len(Queue') : /\ i + 1 \in 1..Len(Queue)
                                   /\ Queue'[i] = Queue[i + 1]
                                   /\ conn'[Queue'[i]] = conn[Queue[i + 1]]
  BY <1>1, LeavingKeepsQueue
<1>3. Queue # <<>> /\ Queue \in Seq(Conns) /\ Len(Queue) \in Nat /\ Len(Queue) >= 1
  <2>1. Queue # <<>> /\ Queue \in Seq(Conns)
    BY DEF Leaves, QueueInv
  <2> QED
    BY <2>1
<1>4. reply = None
  BY <1>3 DEF CallInv
<1>5. call # None =>
        /\ Queue' # <<>> /\ Queue'[Len(Queue')] = call /\ conn'[call] = conn[call]
        /\ conn[call].open
  <2> SUFFICES ASSUME call # None
               PROVE  /\ Queue' # <<>> /\ Queue'[Len(Queue')] = call
                      /\ conn'[call] = conn[call] /\ conn[call].open
    OBVIOUS
  <2>1. Queue[Len(Queue)] = call /\ conn[call].open
    BY <1>4 DEF CallInv
  <2>2. Len(Queue) # 1
    BY <1>2, <2>1
  <2>3. Len(Queue') \in 1..Len(Queue') /\ Len(Queue') + 1 = Len(Queue)
    BY <1>2, <1>3, <2>2
  <2>4. Queue'[Len(Queue')] = call /\ conn'[Queue'[Len(Queue')]] = conn[call]
    BY <1>2, <2>1, <2>3
  <2> QED
    BY <2>1, <2>3, <2>4
<1>6. reply' = None /\ UNCHANGED <<phase, order, todo, call, confirmed, deleted>>
  BY <1>4, <1>5, IdleFacts, ReplyFacts
<1>7. OrderInv' /\ UNCHANGED Done /\ UNCHANGED Plugin!Request
  BY <1>6, OrderStays
<1>8. CallInv'
  BY <1>4, <1>5, <1>6, <1>7 DEF CallInv
<1>9. PerformInv'
  <2> SUFFICES ASSUME phase \in {"perform", "issued"}
               PROVE  PerformInv'
    BY <1>6 DEF PerformInv
  <2>1. Done = 0
    <3>1. ASSUME Done > 0
          PROVE  FALSE
      <4>1. Queue = IF call # None /\ reply = None THEN <<call>> ELSE <<>>
        BY <3>1 DEF PerformInv
      <4>2. Queue = <<call>>
        BY <1>3, <4>1
      <4> QED
        BY <1>2, <4>2
    <3> QED
      BY <3>1, OrderFacts
  <2>2. Done' = 0 /\ Ahead' = 0
    <3>1. None # "CREATED"
      BY ServerAssumption DEF StatusCode
    <3> QED
      BY <1>6, <1>7, <2>1, <3>1 DEF Ahead
  <2>3. EndsWith(0)'
    <3>1. list' \in Seq(Challenges!Challenge)
      <4>1. list \in Seq(Challenges!Challenge)
        BY <1>1, ListType
      <4>2. CASE LeavesList
        BY <4>1, <4>2 DEF LeavesList
      <4>3. CASE ChangesList(c)
        <5>1. Proofs!ListInv'
          BY <1>1, <4>3, StoreSteps DEF ChangesList
        <5> QED
          BY <5>1, SameOperators DEF Proofs!ListInv, Proofs!TypeOK
      <4> QED
        BY <4>2, <4>3
    <3> QED
      BY <3>1 DEF EndsWith
  <2>4. deleted' = {} /\ \A d \in confirmed' : \E i \in 1..Done' : order'[i] = d
    BY <1>6, <1>7 DEF PerformInv
  <2> QED
    BY <2>2, <2>3, <2>4 DEF PerformInv
<1>10. DeleteInv'
  <2>1. deleted # {} => \A i \in 1..Len(Queue') : conn'[Queue'[i]].req.method = "DELETE"
    BY <1>2 DEF DeleteInv
  <2>2. deleted # {} => \A e : InList(e)' => InList(e)
    <3> SUFFICES ASSUME deleted # {}
                 PROVE  \A e : InList(e)' => InList(e)
      OBVIOUS
    <3>1. conn[c].req.method = "DELETE"
      BY <1>2, <1>3 DEF DeleteInv
    <3>2. ~Registers(conn[c].req)
      BY <3>1 DEF Registers
    <3>3. CASE ChangesList(c)
      BY <1>1, <3>2, <3>3, CleanupTakes DEF ChangesList
    <3>4. CASE LeavesList
      BY <3>4 DEF LeavesList, InList
    <3> QED
      BY <3>3, <3>4
  <2>3. DeletedStaysAway'
    BY <1>6, <2>2 DEF DeleteInv, DeletedStaysAway
  <2>4. reply' # "NO_CONTENT"
    BY <1>6, ServerAssumption DEF StatusCode
  <2> QED
    BY <1>6, <2>1, <2>3, <2>4 DEF DeleteInv
<1> QED
  BY <1>2, <1>7, <1>8, <1>9, <1>10

\* The request under way is handled: the queue is empty, and the list has the
\* challenge, or has it no more, if the reply will say so.
LEMMA OwnIsServed ==
  ASSUME AllInv, ServerMoves, NEW c \in Conns, Leaves(c), ChangesList(c) \/ LeavesList,
         c = call
  PROVE  SysInv'
<1> USE DEF AllInv, SysInv
<1>1. LoopAndWakeups /\ ConnInv /\ Proofs!ListInv
  BY DEF PromiseInv
<1>2. /\ QueueInv' /\ Queue' \in Seq(Conns) /\ Queue[1] = c /\ Len(Queue') = Len(Queue) - 1
  BY <1>1, LeavingKeepsQueue
<1>3. Queue # <<>> /\ Queue \in Seq(Conns) /\ Len(Queue) \in Nat /\ Len(Queue) >= 1
  <2>1. Queue # <<>> /\ Queue \in Seq(Conns)
    BY DEF Leaves, QueueInv
  <2> QED
    BY <2>1
<1>4. /\ reply = None /\ call # None /\ todo # <<>> /\ phase \in {"perform", "cleanup"}
      /\ Queue[Len(Queue)] = call /\ conn[call].open /\ conn[call].req = Plugin!Request
  BY <1>3, ServerAssumption DEF CallInv
<1>5. Queue' = <<>>
  <2>1. 1 \in 1..Len(Queue) /\ Len(Queue) \in 1..Len(Queue)
    BY <1>3
  <2>2. Len(Queue) = 1
    BY <1>2, <1>4, <2>1 DEF QueueInv
  <2> QED
    BY <1>2, <2>2
<1>6. conn'[call] = Idle
  BY <1>1 DEF Leaves, ConnInv
<1>7. /\ reply' # None /\ reply' \in {status', "ConnectionError"}
      /\ status' # None => reply' = status'
      /\ UNCHANGED <<phase, order, todo, call, confirmed, deleted>>
      /\ restarted => restarted'
  BY <1>4, <1>6, ReplyFacts
<1>8. OrderInv' /\ UNCHANGED Done
  BY <1>7, OrderStays
<1>9. CallInv'
  BY <1>4, <1>5, <1>6, <1>7 DEF CallInv
<1>10. /\ Done + 1 \in 1..Len(order) /\ Head(todo) = order[Done + 1]
       /\ challenge_from_req(conn[c].req) = Head(todo)
       /\ conn[c].req.method = IF phase = "perform" THEN "POST" ELSE "DELETE"
  BY <1>4, RequestFacts
<1>11. PerformInv'
  <2> SUFFICES ASSUME phase \in {"perform", "issued"}
               PROVE  PerformInv'
    BY <1>7 DEF PerformInv
  <2>1. phase = "perform" /\ ~Unregisters(conn[c].req)
    BY <1>4, <1>10 DEF Unregisters
  <2>2. ~restarted' => EndsWith(Done)
    <3>1. Ahead = Done
      BY <1>4, OrderFacts, ServerAssumption DEF Ahead, StatusCode
    <3> QED
      BY <1>7, <3>1 DEF PerformInv
  <2>3. ~restarted' => EndsWith(Ahead)'
    <3>1. CASE ChangesList(c)
      <4>1. /\ Challenges!set(order[Done + 1]) /\ order[Done + 1] \in Challenges!Challenge
            /\ status' = "CREATED"
        BY <1>4, <1>10, <2>1, <3>1 DEF ChangesList
      <4>2. Ahead' = Done + 1
        <5>1. reply' = "CREATED"
          BY <1>7, <4>1, ServerAssumption DEF StatusCode
        <5> QED
          BY <1>8, <5>1 DEF Ahead
      <4>3. Done \in Nat /\ Done + 1 <= MAX_LEN
        BY <1>10, OrderFacts, ServerAssumption
      <4>4. PICK d \in Nat : d = Done
        BY <4>3
      <4>5. EndsWith(d) => EndsWith(d + 1)'
        BY <1>1, <1>7, <4>1, <4>3, <4>4, SetExtends
      <4>6. EndsWith(d + 1)' => EndsWith(Ahead)'
        BY <4>2, <4>4 DEF EndsWith
      <4> QED
        BY <2>2, <4>4, <4>5, <4>6 DEF EndsWith
    <3>2. CASE LeavesList
      <4>1. reply' # "CREATED"
        BY <1>7, <3>2 DEF LeavesList
      <4>2. Ahead' = Done
        BY <1>8, <4>1, OrderFacts DEF Ahead
      <4>3. EndsWith(Done) => EndsWith(Ahead)'
        BY <1>7, <3>2, <4>2 DEF LeavesList, EndsWith
      <4> QED
        BY <2>2, <4>3
    <3> QED
      BY <3>1, <3>2
  <2>4. Done' > 0 => Queue' = IF call' # None /\ reply' = None THEN <<call'>> ELSE <<>>
    BY <1>5, <1>7
  <2>5. deleted' = {} /\ \A d \in confirmed' : \E i \in 1..Done' : order'[i] = d
    BY <1>7, <1>8 DEF PerformInv
  <2> QED
    BY <2>3, <2>4, <2>5 DEF PerformInv
<1>12. DeleteInv'
  <2>1. \A i \in 1..Len(Queue') : conn'[Queue'[i]].req.method = "DELETE"
    BY <1>5
  <2>2. phase = "cleanup" => \A e : InList(e)' => InList(e)
    <3> SUFFICES ASSUME phase = "cleanup"
                 PROVE  \A e : InList(e)' => InList(e)
      OBVIOUS
    <3>1. ~Registers(conn[c].req)
      BY <1>10 DEF Registers
    <3>2. CASE ChangesList(c)
      BY <1>1, <3>1, <3>2, CleanupTakes DEF ChangesList
    <3>3. CASE LeavesList
      BY <3>3 DEF LeavesList, InList
    <3> QED
      BY <3>2, <3>3
  <2>3. DeletedStaysAway'
    <3>1. CASE phase = "cleanup"
      BY <1>7, <2>2, <3>1 DEF DeleteInv, DeletedStaysAway
    <3>2. CASE phase = "perform"
      BY <1>7, <3>2 DEF PerformInv, DeletedStaysAway
    <3> QED
      BY <1>4, <3>1, <3>2
  <2>4. phase = "cleanup" /\ reply' = "NO_CONTENT" => ~InList(Head(todo))'
    <3> SUFFICES ASSUME phase = "cleanup", reply' = "NO_CONTENT"
                 PROVE  ~InList(Head(todo))'
      OBVIOUS
    <3>1. status' = "NO_CONTENT" /\ ~Registers(conn[c].req)
      BY <1>7, <1>10 DEF Registers
    <3>2. ChangesList(c)
      BY <3>1 DEF LeavesList
    <3>3. Challenges!cleanup(Head(todo)) /\ Head(todo) \in Challenges!Challenge
      BY <1>10, <3>1, <3>2 DEF ChangesList
    <3>4. ~(\E i \in DOMAIN list' : list'[i] = Head(todo))
      BY <1>1, <3>3, CleanupTakes DEF InList
    <3> QED
      BY <1>7, <3>4 DEF InList
  <2> QED
    BY <1>7, <2>1, <2>3, <2>4 DEF DeleteInv
<1> QED
  BY <1>2, <1>8, <1>9, <1>11, <1>12

\* The server ends.
LEMMA EndKeepsInv ==
  ASSUME AllInv, ServerMoves, Exit, Bound
  PROVE  SysInv'
<1> USE DEF AllInv, SysInv
<1>1. /\ Queue' = <<>> /\ list' = <<>> /\ status' = None
      /\ \A c \in Conns : conn'[c] = Idle
  BY DEF Exit, Queue
<1>2. restarted' = TRUE
  BY DEF ServerMoves, Exit
<1>3. /\ UNCHANGED <<phase, order, todo, call, confirmed, deleted>>
      /\ call = None => reply' = reply
      /\ call # None => reply' # None /\ (reply' = reply \/ reply' = "ConnectionError")
  <2>1. call # None => call \in Conns
    BY DEF CallInv
  <2> QED
    BY <1>1, <2>1, ReplyFacts
<1>4. OrderInv' /\ UNCHANGED Done
  BY <1>3, OrderStays
<1>5. QueueInv'
  BY <1>1 DEF QueueInv
<1>6. CallInv'
  BY <1>1, <1>3 DEF CallInv
<1>7. PerformInv'
  BY <1>1, <1>2, <1>3, <1>4 DEF PerformInv, CallInv
<1>8. DeleteInv'
  BY <1>1, <1>3 DEF DeleteInv, DeletedStaysAway, InList
<1> QED
  BY <1>4, <1>5, <1>6, <1>7, <1>8

\* Whatever leaves the queue, the list and what the plugin knows as they are.
LEMMA StillKeepsInv ==
  ASSUME SysInv, restarted => restarted',
         UNCHANGED <<Queue, conn, list, phase, order, todo, call, reply, confirmed, deleted>>
  PROVE  SysInv'
<1> USE DEF SysInv
<1>1. OrderInv' /\ UNCHANGED Done /\ UNCHANGED Plugin!Request
  BY OrderStays
<1>2. UNCHANGED Ahead
  BY <1>1 DEF Ahead
<1>3. QueueInv'
  BY DEF QueueInv
<1>4. CallInv'
  BY <1>1 DEF CallInv
<1>5. PerformInv'
  BY <1>1, <1>2 DEF PerformInv, EndsWith
<1>6. DeleteInv'
  BY DEF DeleteInv, DeletedStaysAway, InList
<1> QED
  BY <1>1, <1>3, <1>4, <1>5, <1>6

\* The server's steps.
LEMMA ServerKeepsInv ==
  ASSUME AllInv, ServerMoves
  PROVE  SysInv'
<1>1. LoopAndWakeups /\ ConnInv /\ SysInv
  BY DEF AllInv, PromiseInv
<1>2. Step \/ Failure
  BY DEF ServerMoves
<1>3. CASE UNCHANGED <<Queue, conn, list>>
  <2>1. UNCHANGED reply
    <3>1. call # None /\ reply = None => conn'[call] # Idle
      BY <1>1, <1>3, IdleFacts DEF SysInv, CallInv
    <3> QED
      BY <1>1, <3>1, ReplyFacts DEF SysInv
  <2>2. UNCHANGED <<phase, order, todo, call, confirmed, deleted>> /\ (restarted => restarted')
    BY <1>1, ReplyFacts DEF SysInv
  <2> QED
    BY <1>1, <1>3, <2>1, <2>2, StillKeepsInv
<1> QED
  BY <1>1, <1>2, <1>3, ThreadOnQueue, EndKeepsInv, OtherIsServed, OwnIsServed

-----------------------------------------------------------------------------
(* The invariant is inductive: the plugin.                                 *)

\* certbot runs again: nothing is confirmed.
LEMMA BeginKeepsInv ==
  ASSUME AllInv, Begins
  PROVE  SysInv'
<1> USE DEF AllInv, SysInv
<1>1. /\ UNCHANGED <<Queue, conn, list, call, reply>>
      /\ phase = "idle" /\ phase' \in {"perform", "cleanup"} /\ order' \in Orders
      /\ phase' = "perform" => todo' = order'
      /\ todo' = order' \/ todo' = <<>>
      /\ confirmed' = {} /\ deleted' = {}
  BY DEF Begins, Plugin!perform, vars, thread, kernel, store, Queue
<1>2. call = None /\ reply = None
  BY <1>1 DEF CallInv
<1>3. OrderInv' /\ (todo' = order' => Done' = 0)
  <2>1. CASE todo' = order'
    BY <1>1, <2>1, AllToDo DEF OrderInv, Plugin!Phases
  <2>2. CASE todo' = <<>>
    <3>1. order' \in Seq(Asked)
      BY <1>1, OrderType
    <3>2. todo' \in Seq(Asked) /\ Len(todo') = 0 /\ Len(order') \in Nat
      BY <2>2, <3>1
    <3>3. todo' = order' => Done' = 0
      BY <3>2 DEF Done
    <3> QED
      BY <1>1, <3>2, <3>3 DEF OrderInv, Plugin!Phases
  <2> QED
    BY <1>1, <2>1, <2>2
<1>4. QueueInv'
  BY <1>1 DEF QueueInv
<1>5. CallInv'
  BY <1>1, <1>2 DEF CallInv
<1>6. PerformInv'
  <2> SUFFICES ASSUME phase' = "perform"
               PROVE  PerformInv'
    BY <1>1 DEF PerformInv
  <2>1. Done' = 0 /\ Ahead' = 0
    <3>1. Done' = 0 /\ reply' # "CREATED"
      BY <1>1, <1>2, <1>3, ServerAssumption DEF StatusCode
    <3> QED
      BY <3>1 DEF Ahead
  <2>2. EndsWith(0)'
    <3>1. list \in Seq(Challenges!Challenge)
      BY ListType DEF PromiseInv
    <3> QED
      BY <1>1, <3>1 DEF EndsWith
  <2> QED
    BY <1>1, <2>1, <2>2 DEF PerformInv
<1>7. DeleteInv'
  <2>1. reply' # "NO_CONTENT"
    BY <1>1, <1>2, ServerAssumption DEF StatusCode
  <2> QED
    BY <1>1, <2>1 DEF DeleteInv, DeletedStaysAway
<1> QED
  BY <1>3, <1>4, <1>5, <1>6, <1>7

\* It goes on to the next part of its run, with no request under way.
LEMMA ProceedKeepsInv ==
  ASSUME AllInv, Proceeds
  PROVE  SysInv'
<1> USE DEF AllInv, SysInv
<1>1. UNCHANGED <<Queue, conn, list, restarted>>
  BY DEF Proceeds, vars, thread, kernel, store, Queue
<1>2. /\ UNCHANGED <<order, call, reply, confirmed, deleted>>
      /\ \/ phase = "perform" /\ todo = <<>> /\ phase' = "issued" /\ UNCHANGED todo
         \/ phase = "issued" /\ phase' = "cleanup" /\ todo' = order
         \/ phase = "cleanup" /\ todo = <<>> /\ phase' = "ended" /\ UNCHANGED todo
         \/ phase = "ended" /\ phase' = "idle" /\ UNCHANGED todo
  BY DEF Proceeds, Plugin!Performed, Plugin!cleanup, Plugin!Teardown, Plugin!Return
<1>3. call = None /\ reply = None
  BY <1>2 DEF CallInv
<1>4. OrderInv'
  <2>1. CASE UNCHANGED todo
    BY <1>2, <2>1 DEF OrderInv, Done, Plugin!Phases
  <2>2. CASE todo' = order /\ phase' = "cleanup"
    <3>1. order' \in Orders \cup {<<>>} /\ todo' = order'
      BY <1>2, <2>2 DEF OrderInv
    <3> QED
      BY <2>2, <3>1, AllToDo DEF OrderInv, Plugin!Phases
  <2> QED
    BY <1>2, <2>1, <2>2
<1>5. QueueInv'
  BY <1>1 DEF QueueInv
<1>6. CallInv'
  BY <1>2, <1>3 DEF CallInv
<1>7. PerformInv'
  <2> SUFFICES ASSUME phase = "perform", UNCHANGED todo
               PROVE  PerformInv'
    BY <1>2 DEF PerformInv
  <2>1. UNCHANGED <<Done, Ahead>>
    BY <1>2 DEF Done, Ahead
  <2> QED
    BY <1>1, <1>2, <2>1 DEF PerformInv, EndsWith
<1>8. DeleteInv'
  <2>1. reply' # "NO_CONTENT"
    BY <1>2, <1>3, ServerAssumption DEF StatusCode
  <2> QED
    BY <1>1, <1>2, <2>1 DEF DeleteInv, DeletedStaysAway, InList
<1> QED
  BY <1>4, <1>5, <1>6, <1>7, <1>8

\* A request ends: as its reply says, or with an error that says nothing.
LEMMA OutcomeKeepsInv ==
  ASSUME SysInv, NEW given, Plugin!Outcome(given), todo # <<>>,
         given \in {"CREATED", "NO_CONTENT"} => reply = given,
         UNCHANGED <<Queue, list, restarted>>,
         \A c \in Conns : conn'[c].req = conn[c].req
  PROVE  SysInv'
<1> USE DEF SysInv
<1>0. None \notin {"CREATED", "NO_CONTENT"}
  BY ServerAssumption DEF StatusCode
<1>1. call' = None /\ reply' = None /\ UNCHANGED order /\ phase \in {"perform", "cleanup"}
  BY DEF Plugin!Outcome, Plugin!_perform, Plugin!_cleanup, Plugin!Closed
<1>2. \A i \in 1..Len(Queue) : Queue[i] \in Conns /\ conn'[Queue[i]].req = conn[Queue[i]].req
  BY DEF QueueInv
<1>3. QueueInv'
  BY <1>2 DEF QueueInv
<1>4. CallInv'
  BY <1>0, <1>1 DEF CallInv
<1>5. OrderInv'
  <2>1. order' \in Orders \cup {<<>>} /\ phase' \in Plugin!Phases
    BY <1>1 DEF OrderInv, Plugin!Phases, Plugin!Outcome, Plugin!_perform, Plugin!_cleanup
  <2>2. phase' \in {"perform", "issued"} => order' \in Orders
    BY <1>1 DEF OrderInv, Plugin!Outcome, Plugin!_perform, Plugin!_cleanup
  <2>3. CASE todo' = Tail(todo)
    BY <1>1, <2>1, <2>2, <2>3, TailDone DEF OrderInv
  <2>4. CASE todo' = order
    BY <1>1, <2>1, <2>2, <2>4, AllToDo DEF OrderInv
  <2>5. CASE UNCHANGED todo
    BY <1>1, <2>1, <2>2, <2>5 DEF OrderInv, Done
  <2> QED
    BY <2>3, <2>4, <2>5 DEF Plugin!Outcome, Plugin!_perform, Plugin!_cleanup
<1>6. PerformInv'
  <2> SUFFICES ASSUME phase' \in {"perform", "issued"}
               PROVE  PerformInv'
    BY DEF PerformInv
  <2>1. /\ given = "CREATED" /\ phase = "perform" /\ todo' = Tail(todo)
        /\ confirmed' = confirmed \cup {Head(todo)} /\ UNCHANGED deleted
    BY <1>1 DEF Plugin!Outcome, Plugin!_perform, Plugin!_cleanup
  <2>2. reply = "CREATED" /\ Queue' = <<>>
    BY <1>0, <2>1 DEF CallInv
  <2>3. Done' = Done + 1 /\ Done \in Nat /\ Head(todo) = order[Done + 1]
    BY <1>1, <2>1, TailDone, RequestFacts, OrderFacts
  <2>4. Ahead = Done + 1 /\ Ahead' = Done + 1
    BY <1>0, <1>1, <2>2, <2>3 DEF Ahead
  <2>5. ~restarted' => EndsWith(Ahead)'
    BY <1>1, <2>1, <2>4 DEF PerformInv, EndsWith
  <2>6. \A c \in confirmed' : \E i \in 1..Done' : order'[i] = c
    <3> SUFFICES ASSUME NEW c \in confirmed'
                 PROVE  \E i \in 1..(Done + 1) : order[i] = c
      BY <1>1, <2>3
    <3>1. CASE c = Head(todo)
      BY <2>3, <3>1
    <3>2. CASE c \in confirmed
      <4>1. PICK i \in 1..Done : order[i] = c
        BY <2>1, <3>2 DEF PerformInv
      <4> QED
        BY <2>3, <4>1
    <3> QED
      BY <2>1, <3>1, <3>2
  <2> QED
    BY <1>1, <2>1, <2>2, <2>5, <2>6 DEF PerformInv
<1>7. DeleteInv'
  <2>1. \A e : InList(e)' <=> InList(e)
    BY DEF InList
  <2>2. CASE given = "NO_CONTENT" /\ phase = "cleanup"
    <3>1. reply = "NO_CONTENT" /\ Queue' = <<>> /\ ~InList(Head(todo))
      BY <1>0, <2>2 DEF CallInv, DeleteInv
    <3>2. deleted' = deleted \cup {Head(todo)}
      BY <2>2 DEF Plugin!Outcome, Plugin!_perform, Plugin!_cleanup
    <3> QED
      BY <1>0, <1>1, <2>1, <3>1, <3>2 DEF DeleteInv, DeletedStaysAway
  <2>3. CASE ~(given = "NO_CONTENT" /\ phase = "cleanup")
    <3>1. UNCHANGED deleted
      BY <2>3 DEF Plugin!Outcome, Plugin!_perform, Plugin!_cleanup
    <3> QED
      BY <1>0, <1>1, <1>2, <2>1, <3>1 DEF DeleteInv, DeletedStaysAway
  <2> QED
    BY <2>2, <2>3
<1> QED
  BY <1>3, <1>4, <1>5, <1>6, <1>7

\* The next request joins the queue; if a challenge is confirmed already, it is
\* alone there.
LEMMA ConnectKeepsInv ==
  ASSUME AllInv, Connects
  PROVE  SysInv'
<1> USE DEF AllInv, SysInv
<1>1. PICK c \in Conns : Connect(c) /\ conn'[c].req = Plugin!Request /\ Plugin!Connects(c)
  BY DEF Connects
<1>2. LoopAndWakeups /\ ConnInv /\ Proofs!ListInv
  BY DEF PromiseInv
<1>3. /\ phase \in {"perform", "cleanup"} /\ todo # <<>> /\ call = None /\ call' = c
      /\ UNCHANGED <<phase, order, todo, reply, confirmed, deleted, restarted, list>>
  BY <1>1 DEF Plugin!Connects, Plugin!Calling, Connects, Connect, store
<1>4. reply = None /\ c # None
  BY <1>3, ServerAssumption DEF CallInv
<1>5. conn'[c].req \in Requests
  <2>1. PICK req \in Requests : conn' = [conn EXCEPT ![c] = Connected(req)]
    BY <1>1 DEF Connect
  <2> QED
    BY <1>2, <2>1 DEF Connected, ConnInv
<1>6. /\ QueueInv'
      /\ Queue' \in Seq(Conns) /\ Len(Queue') = Len(Queue) + 1
      /\ Queue'[Len(Queue')] = c /\ conn'[c].open
      /\ \A i \in 1..Len(Queue) : /\ Queue'[i] = Queue[i]
                                  /\ conn'[Queue'[i]] = conn[Queue[i]]
  BY <1>1, <1>2, <1>5, ConnectExtendsQueue
<1>7. Queue \in Seq(Conns) /\ Len(Queue) \in Nat
  BY DEF QueueInv
<1>8. OrderInv' /\ UNCHANGED Done /\ UNCHANGED Plugin!Request
  BY <1>3, OrderStays
<1>9. CallInv'
  <2>1. Queue' # <<>>
    BY <1>6, <1>7
  <2> QED
    BY <1>1, <1>3, <1>4, <1>6, <1>8, <2>1 DEF CallInv
<1>10. PerformInv'
  <2> SUFFICES ASSUME phase \in {"perform", "issued"}
               PROVE  PerformInv'
    BY <1>3 DEF PerformInv
  <2>1. UNCHANGED Ahead
    BY <1>3, <1>8 DEF Ahead
  <2>2. Done' > 0 => Queue' = <<c>>
    <3> SUFFICES ASSUME Done > 0
                 PROVE  Queue' = <<c>>
      BY <1>8
    <3>1. Queue = <<>>
      BY <1>3 DEF PerformInv
    <3>2. Len(Queue') = 1 /\ Queue'[1] = c
      BY <1>6, <3>1
    <3>3. \A q \in Seq(Conns) : Len(q) = 1 /\ q[1] = c => q = <<c>>
      OBVIOUS
    <3> QED
      BY <1>6, <3>2, <3>3
  <2>3. ~restarted' => EndsWith(Ahead)'
    BY <1>3, <2>1 DEF PerformInv, EndsWith
  <2> QED
    BY <1>3, <1>4, <1>8, <2>2, <2>3 DEF PerformInv
<1>11. DeleteInv'
  <2>1. deleted' # {} => \A i \in 1..Len(Queue') : conn'[Queue'[i]].req.method = "DELETE"
    <3> SUFFICES ASSUME deleted # {}, NEW i \in 1..Len(Queue')
                 PROVE  conn'[Queue'[i]].req.method = "DELETE"
      BY <1>3
    <3>1. phase # "perform"
      BY DEF PerformInv
    <3>2. conn'[c].req.method = "DELETE"
      BY <1>1, <3>1 DEF Plugin!Request
    <3>3. i = Len(Queue') \/ i \in 1..Len(Queue)
      BY <1>6, <1>7
    <3> QED
      BY <1>6, <3>2, <3>3 DEF DeleteInv
  <2>2. reply' # "NO_CONTENT"
    BY <1>3, <1>4, ServerAssumption DEF StatusCode
  <2> QED
    BY <1>3, <2>1, <2>2 DEF DeleteInv, DeletedStaysAway, InList
<1> QED
  BY <1>6, <1>8, <1>9, <1>10, <1>11

\* What the plugin does to its connection changes no request.
LEMMA SlotFacts ==
  ASSUME ConnInv, NEW c \in Conns, Send(c) \/ HangUp(c)
  PROVE  /\ \A d \in Conns : conn'[d].req = conn[d].req
         /\ Send(c) => \A d \in Conns : conn'[d].open = conn[d].open
         /\ UNCHANGED <<Queue, list>>
<1>1. UNCHANGED <<Queue, list>>
  BY DEF Send, HangUp, thread, kernel, store, Queue
<1> DEFINE Slot == [req : Requests \cup {None}, sent : Parts, open : BOOLEAN]
<1>2. conn \in [Conns -> Slot]
  BY DEF ConnInv
<1>3. CASE Send(c)
  <2>1. PICK sent \in Parts : conn' = [conn EXCEPT ![c] = [conn[c] EXCEPT !.sent = sent]]
    BY <1>3 DEF Send, Parts
  <2>2. \A slot \in Slot : /\ [slot EXCEPT !.sent = sent].req = slot.req
                           /\ [slot EXCEPT !.sent = sent].open = slot.open
    BY Zenon
  <2> HIDE DEF Slot
  <2>3. \A d \in Conns : conn'[d] = conn[d] \/ conn'[d] = [conn[d] EXCEPT !.sent = sent]
    BY <1>2, <2>1
  <2>4. \A d \in Conns : conn'[d].req = conn[d].req /\ conn'[d].open = conn[d].open
    BY <1>2, <2>2, <2>3
  <2> QED
    BY <1>1, <2>4
<1>4. CASE HangUp(c) /\ ~Send(c)
  <2> DEFINE new == [conn[c] EXCEPT !.open = FALSE]
  <2>1. conn' = [conn EXCEPT ![c] = new]
    BY <1>4, Zenon DEF HangUp
  <2>2. new.req = conn[c].req
    <3>1. \A slot \in Slot : [slot EXCEPT !.open = FALSE].req = slot.req
      BY Zenon
    <3> QED
      BY <1>2, <3>1, Zenon
  <2> HIDE DEF new
  <2>3. \A d \in Conns : conn'[d].req = conn[d].req
    BY <1>2, <2>1, <2>2
  <2> QED
    BY <1>1, <1>4, <2>3
<1> QED
  BY <1>3, <1>4

\* It sends its request.
LEMMA SendKeepsInv ==
  ASSUME AllInv, Sends
  PROVE  SysInv'
<1> USE DEF AllInv, SysInv
<1>1. ConnInv /\ call \in Conns /\ call # None /\ Send(call) /\ conn[call].open
  BY DEF PromiseInv, Sends, CallInv, Send
<1>2. /\ \A d \in Conns : conn'[d].req = conn[d].req /\ conn'[d].open = conn[d].open
      /\ UNCHANGED <<Queue, list>>
  BY <1>1, SlotFacts
<1>3. UNCHANGED <<phase, order, todo, call, reply, confirmed, deleted, restarted>>
  BY DEF Sends, plugin
<1>4. reply = None
  BY <1>1, IdleFacts DEF CallInv
<1>5. OrderInv' /\ UNCHANGED Done /\ UNCHANGED Plugin!Request
  BY <1>3, OrderStays
<1>6. \A i \in 1..Len(Queue) : Queue[i] \in Conns
  BY DEF QueueInv
<1>7. QueueInv'
  BY <1>2, <1>6 DEF QueueInv
<1>8. CallInv'
  BY <1>1, <1>2, <1>3, <1>4, <1>5 DEF CallInv
<1>9. UNCHANGED Ahead
  BY <1>3, <1>5 DEF Ahead
<1>10. PerformInv'
  BY <1>2, <1>3, <1>5, <1>9 DEF PerformInv, EndsWith
<1>11. DeleteInv'
  BY <1>2, <1>3, <1>6 DEF DeleteInv, DeletedStaysAway, InList
<1> QED
  BY <1>5, <1>7, <1>8, <1>10, <1>11

\* Every way in which a request ends.
LEMMA EndingKeepsInv ==
  ASSUME AllInv, Refused \/ ConnectTimesOut \/ RequestTimesOut \/ GetsReply
  PROVE  SysInv'
<1> USE DEF AllInv, SysInv
<1>1. ConnInv
  BY DEF PromiseInv
<1>2. CASE Refused \/ ConnectTimesOut \/ GetsReply
  <2>1. UNCHANGED <<Queue, list, conn, restarted>>
    BY <1>2 DEF Refused, ConnectTimesOut, GetsReply, vars, thread, kernel, store, Queue
  <2>2. todo # <<>>
    BY <1>2 DEF Refused, ConnectTimesOut, GetsReply, Plugin!Calling, CallInv
  <2>3. CASE Refused
    BY <2>1, <2>2, <2>3, OutcomeKeepsInv DEF Refused
  <2>4. CASE ConnectTimesOut
    BY <2>1, <2>2, <2>4, OutcomeKeepsInv DEF ConnectTimesOut
  <2>5. CASE GetsReply
    BY <2>1, <2>2, <2>5, OutcomeKeepsInv DEF GetsReply
  <2> QED
    BY <1>2, <2>3, <2>4, <2>5
<1>3. CASE RequestTimesOut
  <2>1. call \in Conns /\ HangUp(call) /\ Plugin!Outcome("TimeoutError") /\ todo # <<>>
        /\ UNCHANGED restarted
    BY <1>3 DEF RequestTimesOut, CallInv
  <2>2. UNCHANGED <<Queue, list>> /\ \A d \in Conns : conn'[d].req = conn[d].req
    BY <1>1, <2>1, SlotFacts
  <2> QED
    BY <2>1, <2>2, OutcomeKeepsInv
<1> QED
  BY <1>2, <1>3

-----------------------------------------------------------------------------

\* The invariant.
LEMMA SysInvariant == SysSpec => []AllInv
<1>1. SysInit => SysInv
  <2> SUFFICES ASSUME SysInit
               PROVE  SysInv
    OBVIOUS
  <2>1. /\ Queue = <<>> /\ list = <<>> /\ order = <<>> /\ todo = <<>> /\ call = None
        /\ reply = None /\ phase = "idle" /\ deleted = {}
    BY DEF SysInit, Init, Queue, Plugin!Init, Challenges!Init
  <2>2. OrderInv
    BY <2>1 DEF OrderInv, Plugin!Phases
  <2> QED
    BY <2>1, <2>2 DEF SysInv, QueueInv, CallInv, PerformInv, DeleteInv, DeletedStaysAway
<1>2. AllInv /\ [SysNext]_sysvars => SysInv'
  <2> SUFFICES ASSUME AllInv, [SysNext]_sysvars
               PROVE  SysInv'
    OBVIOUS
  <2>1. CASE Waits \/ UNCHANGED sysvars
    <3>1. UNCHANGED <<Queue, conn, list, phase, order, todo, call, reply, confirmed, deleted,
                      restarted>>
      BY <2>1 DEF Waits, Tick, sysvars, vars, plugin, thread, kernel, store, Queue
    <3> QED
      BY <3>1, StillKeepsInv DEF AllInv
  <2> QED
    BY <2>1, ServerKeepsInv, BeginKeepsInv, ProceedKeepsInv, ConnectKeepsInv, SendKeepsInv,
       EndingKeepsInv DEF SysNext, PluginMoves
<1>3. SysSpec => []PromiseInv
  BY PluginIsClient, PromiseInvariant
<1> QED
  BY <1>1, <1>2, <1>3, PTL DEF SysSpec, AllInv

\* From the moment its POST is answered until certbot cleans up, a challenge is
\* in the list, unless the server was started again: no request that was given
\* up and is handled late takes it away.
THEOREM ConfirmedStays == SysSpec => []ConfirmedIsRegistered
<1>1. AllInv => ConfirmedIsRegistered
  <2> SUFFICES ASSUME AllInv, phase \in {"perform", "issued"}, ~restarted, NEW c \in confirmed
               PROVE  InList(c)
    BY DEF ConfirmedIsRegistered
  <2>1. PICK i \in 1..Done : order[i] = c
    BY DEF AllInv, SysInv, PerformInv
  <2>2. EndsWith(Ahead) /\ Done \in Nat /\ (Ahead = Done \/ Ahead = Done + 1)
    BY OrderFacts DEF AllInv, SysInv, PerformInv, Ahead
  <2>3. list \in Seq(Challenges!Challenge)
    BY ListType DEF AllInv, PromiseInv
  <2>4. /\ list[Len(list) - Ahead + i] = c
        /\ Len(list) - Ahead + i \in DOMAIN list
    BY <2>1, <2>2, <2>3 DEF EndsWith
  <2> QED
    BY <2>4 DEF InList
<1> QED
  BY <1>1, SysInvariant, PTL

\* A challenge whose DELETE was answered stays away until certbot runs again,
\* also if its POST was given up and was handled only after that.
THEOREM DeletedStays == SysSpec => []DeletedStaysAway
<1>1. AllInv => DeletedStaysAway
  BY DEF AllInv, SysInv, DeleteInv
<1> QED
  BY <1>1, SysInvariant, PTL

\* The plugin has a request under way only while there is a challenge to ask for,
\* and what is still to do is always the rest of the order.
THEOREM SysTypeCorrect == SysSpec => []SysTypeOK
<1>1. SysInit => toredown \in BOOLEAN
  BY DEF SysInit, Plugin!Init
<1>2. toredown \in BOOLEAN /\ [SysNext]_sysvars => (toredown \in BOOLEAN)'
  BY DEF SysNext, ServerMoves, Begins, PluginMoves, Proceeds, Connects, Refused,
         ConnectTimesOut, Sends, RequestTimesOut, GetsReply, Waits, sysvars, plugin,
         Plugin!perform, Plugin!Performed, Plugin!cleanup, Plugin!Teardown, Plugin!Return,
         Plugin!Connects, Plugin!Outcome, Plugin!_perform, Plugin!_cleanup
<1>3. AllInv /\ toredown \in BOOLEAN => Plugin!TypeOK /\ call \in Conns \cup {None}
  <2> SUFFICES ASSUME AllInv, toredown \in BOOLEAN
               PROVE  Plugin!TypeOK /\ call \in Conns \cup {None}
    OBVIOUS
  <2>1. CallInv /\ OrderInv
    BY DEF AllInv, SysInv
  <2>2. /\ order \in Seq(Asked) /\ Len(order) \in Nat /\ todo \in Seq(Asked)
        /\ Len(todo) \in Nat /\ Done \in 0..Len(order) /\ Done = Len(order) - Len(todo)
    BY <2>1, OrderFacts DEF Done
  <2>3. todo = SubSeq(order, Done + 1, Len(order))
    <3> DEFINE rest == SubSeq(order, Done + 1, Len(order))
    <3>1. /\ rest \in Seq(Asked) /\ Len(rest) = Len(order) - Done
          /\ \A i \in 1..Len(rest) : rest[i] = order[Done + i]
      BY <2>2
    <3> HIDE DEF rest
    <3>2. Len(todo) = Len(rest) /\ \A i \in 1..Len(todo) : todo[i] = rest[i]
      BY <2>1, <2>2, <3>1 DEF OrderInv
    <3>3. \A r \in Seq(Asked) :
            Len(todo) = Len(r) /\ (\A i \in 1..Len(todo) : todo[i] = r[i]) => todo = r
      BY <2>2
    <3>4. todo = rest
      BY <3>1, <3>2, <3>3
    <3> QED
      BY <3>4 DEF rest
  <2> QED
    BY <2>1, <2>2, <2>3 DEF CallInv, OrderInv, Plugin!TypeOK
<1>4. SysSpec => []TypeOK
  BY PluginIsClient, ServerTypeCorrect
<1> QED
  BY <1>1, <1>2, <1>3, <1>4, SysInvariant, PTL DEF SysSpec, SysTypeOK
=============================================================================
