---------------------------- MODULE ServerProofs ----------------------------
(* Proofs about the event loop and about what the server answers, for any  *)
(* number of sockets, connections, requests, datagrams and failures: no    *)
(* queue is forgotten, the server implements Champion, and its answers     *)
(* neither withhold nor invent a challenge.                                *)
EXTENDS ServerPromise, TLAPS

\* The inductive invariant: NoLostWakeup needs to know what the thread has at
\* hand at each place of the loop.
LoopAndWakeups == LoopInv /\ NoLostWakeup

\* Before the process starts nothing is registered.
LEMMA InitLoop == Init => LoopAndWakeups
BY ServerAssumption
DEF Init, LoopAndWakeups, LoopInv, NoLostWakeup, Registered, Tokens

\* Only the constants of the model matter here, not the store or the limiter.
LEMMA ExitKeepsLoop == Exit => LoopAndWakeups'
BY ServerAssumption
DEF Exit, LoopAndWakeups, LoopInv, NoLostWakeup, Registered, Tokens

\* A step that takes nothing from the kernel and adds nothing, and forgets
\* no token, keeps both.
LEMMA QuietStep ==
  ASSUME LoopAndWakeups, LoopInv', UNCHANGED <<backlog, buffer>>, Registered' => Registered,
         \A t \in Tokens :
           t \in ready \cup events \cup stranded \cup {token} /\ Pending(t)
             => t \in (ready \cup events \cup stranded \cup {token})'
  PROVE  LoopAndWakeups'
<1>1. \A t \in Tokens : Pending(t)' <=> Pending(t)
  BY DEF Pending
<1> QED
  BY <1>1 DEF LoopAndWakeups, NoLostWakeup

\* A step that takes something from the queue of the token at work keeps both.
LEMMA TakingStep ==
  ASSUME LoopAndWakeups, LoopInv', Registered, token \in Tokens,
         UNCHANGED <<ready, events, stranded, token>>,
         \A t \in Tokens \ {token} : Pending(t)' => Pending(t)
  PROVE  LoopAndWakeups'
BY DEF LoopAndWakeups, NoLostWakeup

\* Where a step of a handler starts, it has a token at hand.
LEMMA AtWork ==
  ASSUME LoopInv, pc \in {"drain", "read", "send", "panic"}
  PROVE  Registered /\ token \in Tokens
BY DEF LoopInv, Registered

-----------------------------------------------------------------------------
(* The steps of the thread.                                                *)

\* Binding and registering (main.rs:56-92).
LEMMA StartKeepsLoop ==
  ASSUME LoopAndWakeups, Bind \/ Register
  PROVE  LoopAndWakeups'
<1> USE ServerAssumption DEF LoopAndWakeups, LoopInv, kernel
<1>1. CASE Bind
  BY <1>1 DEF Bind, NoLostWakeup, Registered
<1>2. CASE Register
  <2>1. \A t \in Tokens : Pending(t)' <=> Pending(t)
    BY <1>2 DEF Register, Pending
  <2> QED
    BY <1>2, <2>1 DEF Register, NoLostWakeup
<1> QED
  BY <1>1, <1>2

\* Polling, taking an event and ending a drain (main.rs:97-146).
LEMMA LoopKeepsLoop ==
  ASSUME LoopAndWakeups,
         DoPoll \/ NextEvent \/ NoMoreEvents \/ WouldBlock \/ SendTo
  PROVE  LoopAndWakeups'
<1> USE ServerAssumption DEF kernel
<1>0. None \notin Tokens
  BY DEF Tokens, TCP_LISTENER
<1>1. CASE DoPoll
  <2>1. LoopInv'
    BY <1>1 DEF DoPoll, LoopAndWakeups, LoopInv
  <2> QED
    BY <1>0, <1>1, <2>1, QuietStep DEF DoPoll, LoopAndWakeups, LoopInv, Registered
<1>2. CASE NextEvent
  <2>1. LoopInv'
    BY <1>0, <1>2 DEF NextEvent, LoopAndWakeups, LoopInv
  <2> QED
    BY <1>0, <1>2, <2>1, QuietStep DEF NextEvent, LoopAndWakeups, LoopInv, Registered
<1>3. CASE NoMoreEvents
  <2>1. LoopInv'
    BY <1>3 DEF NoMoreEvents, LoopAndWakeups, LoopInv
  <2> QED
    BY <1>3, <2>1, QuietStep DEF NoMoreEvents, Registered
<1>4. CASE WouldBlock
  <2>1. LoopInv'
    BY <1>4 DEF WouldBlock, StopDraining, LoopAndWakeups, LoopInv
  <2> QED
    BY <1>0, <1>4, <2>1, QuietStep DEF WouldBlock, StopDraining, Registered
<1>5. CASE SendTo
  <2>1. LoopInv'
    BY <1>5 DEF SendTo, LoopAndWakeups, LoopInv
  <2> QED
    BY <1>5, <2>1, QuietStep DEF SendTo, Registered
<1> QED
  BY <1>1, <1>2, <1>3, <1>4, <1>5

\* A drain that an error cuts short leaves its token among the stranded.
LEMMA FailureKeepsLoop ==
  ASSUME LoopAndWakeups, Failure
  PROVE  LoopAndWakeups'
<1> USE ServerAssumption
<1>1. CASE Fails
  BY <1>1, ExitKeepsLoop DEF Fails
<1>2. CASE DrainFails
  <2>1. Registered /\ token \in Tokens
    BY <1>2, AtWork DEF DrainFails, LoopAndWakeups
  <2>2. LoopInv'
    <3>1. backlog' \in Seq(Conns)
      <4>1. backlog \in Seq(Conns)
        BY DEF LoopAndWakeups, LoopInv
      <4>2. CASE backlog' = backlog
        BY <4>1, <4>2
      <4>3. CASE token = TCP_LISTENER /\ backlog' = Tail(backlog)
        <5>1. backlog # <<>>
          BY <1>2, <4>3 DEF DrainFails, Pending
        <5> QED
          BY <4>1, <4>3, <5>1
      <4> QED
        BY <1>2, <4>2, <4>3 DEF DrainFails
    <3>2. /\ pc' = "dispatch" /\ token' = None /\ stranded' = stranded \cup {token}
          /\ UNCHANGED <<events, ready, buffer>>
      BY <1>2 DEF DrainFails, StopDraining
    <3> QED
      BY <2>1, <3>1, <3>2 DEF LoopAndWakeups, LoopInv
  <2>3. \A t \in Tokens \ {token} : Pending(t)' => Pending(t)
    BY <1>2 DEF DrainFails, Pending
  <2>4. UNCHANGED <<ready, events>> /\ stranded' = stranded \cup {token}
    BY <1>2 DEF DrainFails
  <2> QED
    BY <2>1, <2>2, <2>3, <2>4 DEF LoopAndWakeups, NoLostWakeup
<1> QED
  BY <1>1, <1>2 DEF Failure

\* Accepting a connection and serving it (main.rs:109-113).
LEMMA HttpKeepsLoop ==
  ASSUME LoopAndWakeups,
         Accept \/ PartialRequest \/ DroppedRequest \/ HandleRequest
  PROVE  LoopAndWakeups'
<1> USE ServerAssumption
<1>1. pc \in {"drain", "read"} /\ Registered /\ token \in Tokens
  BY AtWork DEF Accept, PartialRequest, DroppedRequest, HandleRequest, LoopAndWakeups
<1>2. CASE Accept
  <2>1. LoopInv'
    BY <1>1, <1>2 DEF Accept, LoopAndWakeups, LoopInv
  <2>2. \A t \in Tokens \ {token} : Pending(t)' => Pending(t)
    BY <1>2 DEF Accept, Pending
  <2> QED
    BY <1>1, <1>2, <2>1, <2>2, TakingStep DEF Accept
<1>3. CASE Served
  <2>1. LoopInv'
    BY <1>1, <1>3 DEF Served, kernel, LoopAndWakeups, LoopInv
  <2> QED
    BY <1>1, <1>3, <2>1, QuietStep DEF Served, kernel
<1> QED
  BY <1>2, <1>3 DEF PartialRequest, DroppedRequest, HandleRequest

\* Receiving a datagram and handling it (main.rs:117-141).
LEMMA DnsKeepsLoop ==
  ASSUME LoopAndWakeups,
         IgnoreInvalidAddress \/ IgnoreBlocked \/ IgnoreMessage \/ RespondTo \/ Panic
  PROVE  LoopAndWakeups'
<1> USE ServerAssumption
<1>1. Recv
  BY DEF IgnoreInvalidAddress, IgnoreBlocked, IgnoreMessage, RespondTo, Panic, Counted
<1>2. Registered /\ token \in Tokens
  BY <1>1, AtWork DEF Recv, LoopAndWakeups
<1>3. Received /\ UNCHANGED <<ready, events, stranded, token, backlog>>
  BY DEF IgnoreInvalidAddress, IgnoreBlocked, IgnoreMessage, RespondTo, Panic, Ignored,
         Respond, thread
<1>4. \A t \in Tokens \ {token} : Pending(t)' => Pending(t)
  BY <1>1, <1>3 DEF Received, Recv, Pending, LoopAndWakeups, LoopInv, Tokens
<1>5. buffer' \in [Sockets -> Seq(Datagrams)]
  BY <1>1, <1>3 DEF Received, Recv, LoopAndWakeups, LoopInv
<1>6. pc' \in {"drain", "send", "panic"}
  BY <1>1 DEF IgnoreInvalidAddress, IgnoreBlocked, IgnoreMessage, RespondTo, Panic,
              Ignored, Respond, thread, Recv
<1>7. LoopInv'
  BY <1>1, <1>2, <1>3, <1>5, <1>6 DEF LoopAndWakeups, LoopInv, Recv
<1> QED
  BY <1>2, <1>3, <1>4, <1>7, TakingStep

-----------------------------------------------------------------------------
(* The environment.                                                        *)

\* Whatever arrives comes with an edge.
LEMMA ArrivalKeepsLoop ==
  ASSUME LoopAndWakeups, Traffic \/ Clients
  PROVE  LoopAndWakeups'
<1> USE ServerAssumption
<1>1. ASSUME NEW s \in Sockets, Arrive(s)
      PROVE  LoopAndWakeups'
  <2>1. UNCHANGED <<pc, events, token, backlog>> /\ Edge(s) /\ s \in Tokens
    BY <1>1 DEF Arrive, thread, Tokens
  <2>2. buffer' \in [Sockets -> Seq(Datagrams)]
    BY <1>1 DEF Arrive, LoopAndWakeups, LoopInv
  <2>3. LoopInv'
    BY <2>1, <2>2 DEF Edge, LoopAndWakeups, LoopInv
  <2>4. \A t \in Tokens \ {s} : Pending(t)' => Pending(t)
    BY <1>1, <2>1 DEF Arrive, Pending, LoopAndWakeups, LoopInv, Tokens
  <2> QED
    BY <2>1, <2>3, <2>4 DEF Edge, LoopAndWakeups, NoLostWakeup, Registered
<1>2. ASSUME NEW c \in Conns, Connect(c)
      PROVE  LoopAndWakeups'
  <2>1. UNCHANGED <<pc, events, token, buffer>> /\ Edge(TCP_LISTENER) /\ TCP_LISTENER \in Tokens
    BY <1>2 DEF Connect, thread, Tokens
  <2>2. backlog' \in Seq(Conns)
    BY <1>2 DEF Connect, LoopAndWakeups, LoopInv
  <2>3. LoopInv'
    BY <2>1, <2>2 DEF Edge, LoopAndWakeups, LoopInv
  <2>4. \A t \in Tokens \ {TCP_LISTENER} : Pending(t)' => Pending(t)
    BY <2>1 DEF Pending
  <2> QED
    BY <2>1, <2>3, <2>4 DEF Edge, LoopAndWakeups, NoLostWakeup, Registered
<1>3. ASSUME NEW c \in Conns, Send(c) \/ HangUp(c)
      PROVE  LoopAndWakeups'
  <2>1. UNCHANGED <<thread, kernel>>
    BY <1>3 DEF Send, HangUp
  <2> QED
    BY <2>1 DEF thread, kernel, LoopAndWakeups, LoopInv, NoLostWakeup, Registered, Pending
<1> QED
  BY <1>1, <1>2, <1>3 DEF Traffic, Clients

-----------------------------------------------------------------------------

\* The invariant is inductive.
LEMMA LoopInductive == LoopAndWakeups /\ [Next]_vars => LoopAndWakeups'
<1> SUFFICES ASSUME LoopAndWakeups, [Next]_vars
             PROVE  LoopAndWakeups'
  OBVIOUS
<1>1. CASE Step
  BY <1>1, StartKeepsLoop, LoopKeepsLoop, HttpKeepsLoop, DnsKeepsLoop, ExitKeepsLoop
  DEF Step, Unwind
<1>2. CASE Tick \/ UNCHANGED vars
  <2>1. UNCHANGED <<thread, kernel>>
    BY <1>2 DEF Tick, vars
  <2> QED
    BY <2>1 DEF thread, kernel, LoopAndWakeups, LoopInv, NoLostWakeup, Registered, Pending
<1> QED
  BY <1>1, <1>2, FailureKeepsLoop, ArrivalKeepsLoop DEF Next

\* The loop never forgets a queue: whatever waits has an edge that is to be
\* reported or handled, or was left behind by a drain that an error cut short.
THEOREM WakeupsKept == Spec => []NoLostWakeup
<1>1. LoopAndWakeups => NoLostWakeup
  BY DEF LoopAndWakeups
<1> QED
  BY <1>1, InitLoop, LoopInductive, PTL DEF Spec

-----------------------------------------------------------------------------
(* Responses and the limiter.                                              *)

\* The inductive invariant: the table is a function on the addresses, and while
\* a response is sent no step touches the entry of the address it goes to.
LimitInv ==
  /\ states = [a \in Addrs |-> states[a]]
  /\ OnlyWithinLimit

\* A call to the limiter keeps the table a function, and one that returns Ok
\* leaves the address counted in a window (rate_limiter.rs:25-62).
LEMMA OkIsCounted ==
  ASSUME states = [a \in Addrs |-> states[a]],
         NEW addr \in Addrs, RateLimiter!increment(addr)
  PROVE  /\ states' = [a \in Addrs |-> states'[a]]
         /\ result' = "Ok" => states'[addr].tag = "KnownSince"
<1> DEFINE P == RateLimiter!Purged
<1>1. P = [a \in Addrs |-> P[a]]
  BY DEF RateLimiter!Purged, RateLimiter!cleanup
<1> HIDE DEF P
<1>2. ASSUME NEW e, NEW r, states' = [P EXCEPT ![addr] = e], result' = r
      PROVE  states' = [a \in Addrs |-> states'[a]] /\ states'[addr] = e
  BY <1>1, <1>2
<1>3. CASE RateLimiter!ShortCircuit(addr)
  BY <1>1, <1>3 DEF RateLimiter!ShortCircuit, P
<1>4. CASE RateLimiter!StartWindow(addr)
  BY <1>2, <1>4
  DEF RateLimiter!StartWindow, RateLimiter!Settle, RateLimiter!KnownSince, P
<1>5. CASE RateLimiter!CountQuery(addr)
  BY <1>2, <1>5
  DEF RateLimiter!CountQuery, RateLimiter!Settle, RateLimiter!KnownSince, P
<1>6. CASE RateLimiter!StartBlock(addr)
  BY <1>2, <1>6 DEF RateLimiter!StartBlock, RateLimiter!Settle, P
<1>7. CASE RateLimiter!StillBlocked(addr)
  BY <1>2, <1>7 DEF RateLimiter!StillBlocked, RateLimiter!Settle, P
<1> QED
  BY <1>3, <1>4, <1>5, <1>6, <1>7 DEF RateLimiter!increment

\* What is counted comes from an address the limiter knows of.
LEMMA CountedFacts ==
  ASSUME LoopAndWakeups, LimitInv, Counted
  PROVE  LET d == Head(buffer[token]) IN
         /\ states' = [a \in Addrs |-> states'[a]]
         /\ valid_return_address(d.src)
         /\ result' = "Ok" => states'[d.src.ip].tag = "KnownSince"
<1> DEFINE d == Head(buffer[token])
<1>1. d \in Datagrams
  <2>1. buffer[token] \in Seq(Datagrams) /\ buffer[token] # <<>>
    BY DEF Counted, Recv, LoopAndWakeups, LoopInv
  <2> QED
    BY <2>1
<1>2. d.src.ip \in Addrs
  BY <1>1, ServerAssumption DEF Counted, valid_return_address
<1> QED
  BY <1>2, OkIsCounted DEF Counted, LimitInv

\* The steps of the thread, and failures.
LEMMA ThreadKeepsLimit ==
  ASSUME LoopAndWakeups, LimitInv, Step \/ Failure
  PROVE  LimitInv'
<1>1. CASE Bind \/ Register \/ DoPoll \/ NextEvent \/ NoMoreEvents \/ WouldBlock
           \/ Accept \/ SendTo \/ DrainFails
  BY <1>1 DEF Bind, Register, DoPoll, NextEvent, NoMoreEvents, WouldBlock, Accept,
              SendTo, DrainFails, StopDraining, limiter, LimitInv, OnlyWithinLimit
<1>2. CASE PartialRequest \/ DroppedRequest \/ HandleRequest
  BY <1>2 DEF PartialRequest, DroppedRequest, HandleRequest, Served, limiter,
              LimitInv, OnlyWithinLimit
<1>3. CASE Exit
  BY <1>3 DEF Exit, LimitInv, OnlyWithinLimit
<1>4. CASE IgnoreInvalidAddress
  BY <1>4 DEF IgnoreInvalidAddress, Recv, Ignored, thread, limiter, LimitInv,
              OnlyWithinLimit
<1>5. CASE IgnoreBlocked \/ IgnoreMessage
  <2>1. Counted /\ pc = "drain" /\ pc' = pc
    BY <1>5 DEF IgnoreBlocked, IgnoreMessage, Counted, Recv, Ignored, thread
  <2> QED
    BY <2>1, CountedFacts DEF LimitInv, OnlyWithinLimit
<1>6. CASE RespondTo
  <2>1. Counted /\ result' = "Ok" /\ response'.to = Head(buffer[token]).src
    BY <1>6 DEF RespondTo, Respond
  <2> QED
    BY <2>1, CountedFacts DEF LimitInv, OnlyWithinLimit
<1>7. CASE Panic
  <2>1. Counted /\ pc' = "panic"
    BY <1>7 DEF Panic
  <2> QED
    BY <2>1, CountedFacts DEF LimitInv, OnlyWithinLimit
<1> QED
  BY <1>1, <1>2, <1>3, <1>4, <1>5, <1>6, <1>7 DEF Step, Failure, Fails, Unwind

\* The environment goes on while a response is sent, and leaves the table alone.
LEMMA LimitInductive ==
  LoopAndWakeups /\ LimitInv /\ [Next]_vars => LimitInv'
<1> SUFFICES ASSUME LoopAndWakeups, LimitInv, [Next]_vars
             PROVE  LimitInv'
  OBVIOUS
<1>1. CASE Traffic \/ Clients \/ Tick \/ UNCHANGED vars
  <2>1. UNCHANGED <<thread, states>>
    BY <1>1 DEF Traffic, Arrive, Clients, Connect, Send, HangUp, Tick, limiter, vars,
                RateLimiter!AdvanceClock, RateLimiter!SetClockBack
  <2> QED
    BY <2>1 DEF thread, LimitInv, OnlyWithinLimit
<1> QED
  BY <1>1, ThreadKeepsLimit DEF Next

\* However long a response takes to go out, and whatever the clock and the
\* clients do meanwhile, it goes to an address that can be answered and that the
\* limiter holds as within its limit.
THEOREM AnsweredWithinLimit == Spec => []OnlyWithinLimit
<1>1. Init => LimitInv
  BY DEF Init, LimitInv, OnlyWithinLimit, RateLimiter!Init
<1>2. LimitInv => OnlyWithinLimit
  BY DEF LimitInv
<1> QED
  BY <1>1, <1>2, InitLoop, LoopInductive, LimitInductive, PTL DEF Spec

-----------------------------------------------------------------------------
(* The list and what clients are told.                                     *)

\* A request that changes the list is routed to the response that says so
\* (http_handler.rs:88-90, 103-104).
LEMMA RoutedStatus ==
  ASSUME NEW req
  PROVE  /\ Registers(req) => status_code(req) = "CREATED"
         /\ Unregisters(req) => status_code(req) = "NO_CONTENT"
BY DEF Registers, Unregisters, status_code

\* handle_http changes the list for those two requests only.
LEMMA RequestConfirmed ==
  ASSUME HandleRequest, list' # list, conn[serving].open
  PROVE  status' \in {"CREATED", "NO_CONTENT"}
<1> DEFINE req == conn[serving].req
<1>1. status' = status_code(req)
  <2>1. status' \in {status_code(req)} \cup (IF conn[serving].open THEN {} ELSE {None})
    BY Zenon DEF HandleRequest
  <2> QED
    BY <2>1
<1>2. Registers(req) \/ Unregisters(req)
  <2>1. CASE ~Registers(req) /\ ~Unregisters(req)
    <3>1. UNCHANGED store
      BY <2>1, Zenon DEF HandleRequest
    <3> QED
      BY <3>1 DEF store
  <2> QED
    BY <2>1
<1> QED
  BY <1>1, <1>2, RoutedStatus

\* No client is left to think that its challenge was not registered, or not
\* deleted, when it was: the list changes with the answer that tells it.
THEOREM ChangesAreConfirmed == Spec => ChangesConfirmed
<1> DEFINE Confirmed ==
      \/ status' \in {"CREATED", "NO_CONTENT"}
      \/ pc = "read" /\ ~conn[serving].open
      \/ pc' = "down"
<1>1. [Next]_vars => (list' # list => Confirmed)
  <2> SUFFICES ASSUME [Next]_vars, list' # list
               PROVE  Confirmed
    OBVIOUS
  <2>1. CASE Exit
    BY <2>1 DEF Exit
  <2>2. CASE HandleRequest
    BY <2>2, RequestConfirmed DEF HandleRequest
  <2>3. CASE Step /\ ~HandleRequest /\ ~Exit
    BY <2>3
    DEF Step, Bind, Register, DoPoll, NextEvent, NoMoreEvents, WouldBlock, Accept,
        PartialRequest, DroppedRequest, IgnoreInvalidAddress, IgnoreBlocked,
        IgnoreMessage, Ignored, RespondTo, Respond, Panic, Unwind, SendTo, store
  <2>4. CASE DrainFails \/ Traffic \/ Clients \/ Tick \/ UNCHANGED vars
    BY <2>4 DEF DrainFails, Traffic, Arrive, Clients, Connect, Send, HangUp, Tick, store, vars
  <2> QED
    BY <2>1, <2>2, <2>3, <2>4 DEF Next, Failure, Fails
<1> QED
  BY <1>1, PTL DEF Spec, ChangesConfirmed

-----------------------------------------------------------------------------
(* What the server promises.                                               *)

\* The lemmas on what set and cleanup do to a list.
Proofs == INSTANCE ChallengesProofs

-----------------------------------------------------------------------------
(* The list.                                                               *)

\* Both instances of Challenges define the same operators.
LEMMA SameOperators ==
  /\ Challenges!Challenge = Proofs!Challenge
  /\ \A l, c : Challenges!Dropped(l, c) = Proofs!Dropped(l, c)
  /\ \A l, c : Challenges!Pushed(l, c) = Proofs!Pushed(l, c)
  /\ \A l, n : Challenges!named(l, n) = Proofs!named(l, n)
  /\ \A l, n : Challenges!any(l, n) <=> Proofs!any(l, n)
BY DEF Challenges!Challenge, Proofs!Challenge, Challenges!Dropped, Proofs!Dropped,
       Challenges!Pushed, Proofs!Pushed, Challenges!named, Proofs!named, Challenges!any,
       Proofs!any, Challenges!matches, Proofs!matches, Challenges!At, Proofs!At,
       Challenges!Ascending, Proofs!Ascending, Challenges!Cardinality, Proofs!Cardinality,
       Challenges!IsFiniteSet, Proofs!IsFiniteSet

\* The assumption of the module Challenges holds here.
LEMMA ListAssumptionHolds == MAX_LEN \in Nat \ {0} /\ CaseFold \in [Names -> Names]
BY ServerAssumption

\* set and cleanup keep the invariant of the list, and so does a new list.
LEMMA StoreSteps ==
  /\ Challenges!Init => Proofs!ListInv
  /\ \A c \in Challenges!Challenge :
       Proofs!ListInv /\ (Challenges!set(c) \/ Challenges!cleanup(c)) => Proofs!ListInv'
  /\ Exit => Proofs!ListInv'
  /\ Proofs!ListInv /\ UNCHANGED store => Proofs!ListInv'
<1> USE SameOperators, ListAssumptionHolds
<1>1. Challenges!Init => Proofs!ListInv
  BY Proofs!InitInv DEF Challenges!Init, Proofs!Init
<1>2. ASSUME NEW c \in Challenges!Challenge, Proofs!ListInv,
             Challenges!set(c) \/ Challenges!cleanup(c)
      PROVE  Proofs!ListInv'
  <2>1. CASE Challenges!set(c)
    <3>1. Proofs!set(c)
      BY <2>1 DEF Challenges!set, Proofs!set
    <3> QED
      BY <1>2, <3>1, Proofs!SetKeepsInv
  <2>2. CASE Challenges!cleanup(c)
    <3>1. Proofs!cleanup(c)
      BY <2>2 DEF Challenges!cleanup, Proofs!cleanup
    <3> QED
      BY <1>2, <3>1, Proofs!CleanupKeepsInv
  <2> QED
    BY <1>2, <2>1, <2>2
<1>3. ASSUME Exit
      PROVE  Proofs!ListInv'
  <2>1. list' = <<>> /\ wanted' = {} /\ since' = [c \in Challenges!Challenge |-> 0]
    BY <1>3 DEF Exit
  <2> QED
    BY <2>1 DEF Proofs!ListInv, Proofs!TypeOK, Proofs!NothingElse, Proofs!AllPlaced
<1>4. Proofs!ListInv /\ UNCHANGED store => Proofs!ListInv'
  BY DEF store, Proofs!ListInv, Proofs!TypeOK, Proofs!NothingElse, Proofs!AllPlaced,
         Proofs!Placed
<1> QED
  BY <1>1, <1>2, <1>3, <1>4

-----------------------------------------------------------------------------
(* The connections.                                                        *)

\* A client that is there has a request to send, and what is being read is the
\* connection of a client.
ConnInv ==
  /\ conn \in [Conns -> [req : Requests \cup {None}, sent : Parts, open : BOOLEAN]]
  /\ \A c \in Conns : conn[c].open \/ conn[c].sent # "none" => conn[c].req \in Requests
  /\ pc = "read" => serving \in Conns

\* A slot that is free.
LEMMA IdleFacts ==
  /\ Idle \in [req : Requests \cup {None}, sent : Parts, open : BOOLEAN]
  /\ ~Idle.open /\ Idle.sent = "none"
BY DEF Idle, Parts

\* What the clients do, and what is done to their slots.
LEMMA ClientsKeepConn ==
  ASSUME ConnInv, Clients
  PROVE  ConnInv'
<1> DEFINE Slot == [req : Requests \cup {None}, sent : Parts, open : BOOLEAN]
<1>1. PICK c \in Conns : Connect(c) \/ Send(c) \/ HangUp(c)
  BY DEF Clients
<1>2. UNCHANGED <<pc, serving>>
  BY <1>1 DEF Connect, Send, HangUp, thread
<1>3. PICK new \in Slot : /\ conn' = [conn EXCEPT ![c] = new]
                          /\ new.req \in Requests
  <2>1. CASE Connect(c)
    <3>1. PICK req \in Requests : conn' = [conn EXCEPT ![c] = Connected(req)]
      BY <2>1 DEF Connect
    <3>2. Connected(req) \in Slot /\ Connected(req).req \in Requests
      BY DEF Connected, Parts
    <3> QED
      BY <3>1, <3>2
  <2>2. CASE Send(c) \/ HangUp(c)
    <3>1. conn[c].req \in Requests /\ conn[c].open \in BOOLEAN /\ conn[c].sent \in Parts
      BY <2>2 DEF Send, HangUp, ConnInv
    <3>2. conn \in [Conns -> Slot]
      BY DEF ConnInv
    <3>3. CASE Send(c)
      <4>1. PICK sent \in Parts : conn' = [conn EXCEPT ![c] = [conn[c] EXCEPT !.sent = sent]]
        BY <3>3 DEF Send, Parts
      <4>2. [conn[c] EXCEPT !.sent = sent] \in Slot
        BY <3>2
      <4>3. [conn[c] EXCEPT !.sent = sent].req = conn[c].req
        BY <3>2
      <4> QED
        BY <3>1, <4>1, <4>2, <4>3
    <3>4. CASE HangUp(c)
      <4> DEFINE new == [conn[c] EXCEPT !.open = FALSE]
      <4>1. conn' = [conn EXCEPT ![c] = new]
        BY <3>4, Zenon DEF HangUp
      <4>2. new \in Slot /\ new.req = conn[c].req
        <5>1. \A slot \in Slot : /\ [slot EXCEPT !.open = FALSE] \in Slot
                                 /\ [slot EXCEPT !.open = FALSE].req = slot.req
          BY Zenon
        <5>2. conn[c] \in Slot
          BY <3>2
        <5> QED
          BY <5>1, <5>2, Zenon
      <4> HIDE DEF new
      <4> QED
        BY <3>1, <4>1, <4>2
    <3> QED
      BY <2>2, <3>3, <3>4
  <2> QED
    BY <1>1, <2>1, <2>2
<1> QED
  BY <1>1, <1>2, <1>3 DEF ConnInv

\* The other steps.
LEMMA ConnInductive == LoopAndWakeups /\ ConnInv /\ [Next]_vars => ConnInv'
<1> SUFFICES ASSUME LoopAndWakeups, ConnInv, [Next]_vars
             PROVE  ConnInv'
  OBVIOUS
<1> USE IdleFacts
<1>1. CASE Exit
  BY <1>1 DEF Exit, ConnInv
<1>2. CASE Accept
  <2>1. Head(backlog) \in Conns
    <3>1. backlog \in Seq(Conns) /\ backlog # <<>>
      BY <1>2 DEF Accept, LoopAndWakeups, LoopInv
    <3> QED
      BY <3>1
  <2> QED
    BY <1>2, <2>1 DEF Accept, ConnInv
<1>3. CASE DrainFails
  BY <1>3 DEF DrainFails, StopDraining, ConnInv
<1>4. CASE PartialRequest \/ DroppedRequest \/ HandleRequest
  <2>1. pc = "read" /\ Served
    BY <1>4 DEF PartialRequest, DroppedRequest, HandleRequest
  <2> QED
    BY <2>1 DEF Served, ConnInv
<1>5. CASE Step /\ ~Exit /\ ~Accept /\ ~PartialRequest /\ ~DroppedRequest /\ ~HandleRequest
  <2>1. conn' = conn /\ (pc' = "read" => pc = "read" /\ serving' = serving)
    BY <1>5
    DEF Step, Bind, Register, DoPoll, NextEvent, NoMoreEvents, WouldBlock, StopDraining,
        IgnoreInvalidAddress, IgnoreBlocked, IgnoreMessage, Ignored, RespondTo, Respond,
        Panic, Unwind, SendTo, thread
  <2> QED
    BY <2>1 DEF ConnInv
<1>6. CASE Traffic \/ Tick \/ UNCHANGED vars
  <2>1. UNCHANGED <<conn, pc, serving>>
    BY <1>6 DEF Traffic, Arrive, Tick, thread, vars
  <2> QED
    BY <2>1 DEF ConnInv
<1> QED
  BY <1>1, <1>2, <1>3, <1>4, <1>5, <1>6, ClientsKeepConn DEF Next, Failure, Fails

\* What handle_http registers or deletes is a challenge, without trailing dots.
LEMMA ChallengeRead ==
  ASSUME ConnInv, HandleRequest, IsChallenge(conn[serving].req)
  PROVE  challenge_from_req(conn[serving].req) \in Challenges!Challenge
<1> DEFINE req == conn[serving].req
<1>1. req \in Request
  <2>1. serving \in Conns /\ conn[serving].sent # "none"
    BY DEF HandleRequest, ConnInv
  <2> QED
    BY <2>1, ServerAssumption DEF ConnInv
<1>2. req.domain \in RawDomains /\ req.name \in RawNames /\ req.value \in Values
  BY <1>1 DEF Request, IsChallenge
<1> QED
  BY <1>2, TrimAssumption DEF challenge_from_req, Challenges!Challenge

\* The ways in which handle_http leaves the list.
LEMMA RequestEffect ==
  ASSUME ConnInv, HandleRequest
  PROVE  \/ UNCHANGED store
         \/ \E c \in Challenges!Challenge : Challenges!set(c) \/ Challenges!cleanup(c)
<1> DEFINE req == conn[serving].req
<1>1. CASE Registers(req)
  <2>1. Challenges!set(challenge_from_req(req))
    BY <1>1, Zenon DEF HandleRequest, Registers, Unregisters
  <2> QED
    BY <1>1, <2>1, ChallengeRead DEF Registers
<1>2. CASE Unregisters(req)
  <2>1. Challenges!cleanup(challenge_from_req(req))
    <3>1. ~Registers(req)
      BY <1>2 DEF Registers, Unregisters
    <3> QED
      BY <1>2, <3>1, Zenon DEF HandleRequest
  <2> QED
    BY <1>2, <2>1, ChallengeRead DEF Unregisters
<1>3. CASE ~Registers(req) /\ ~Unregisters(req)
  BY <1>3, Zenon DEF HandleRequest
<1> QED
  BY <1>1, <1>2, <1>3

-----------------------------------------------------------------------------
(* The answers.                                                            *)

\* The places of the list where a name is found, in whatever spelling.
Finds(name) == {i \in DOMAIN list : CaseFold[list[i].name] = CaseFold[name]}

\* A body that tells what the list holds for the name a message asks for.
TellsTruth(m, body) ==
  /\ body.rcode = "NoError" <=> Finds(m.name) # {}
  /\ m.query_type = "TXT" =>
       /\ \A k \in DOMAIN body.answers :
            \E i \in Finds(m.name) : list[i].value = body.answers[k].value
       /\ \A i \in Finds(m.name) :
            \E k \in DOMAIN body.answers : body.answers[k].value = list[i].value

\* What handle_request makes of the list is the truth about it
\* (dns_handler.rs:91-131).
LEMMA HandledTruly ==
  ASSUME list \in Seq(Challenges!Challenge), NEW m,
         ReadMessageResult(m) = "Process", m.query_type \in {"TXT", "SOA", "NS"}
  PROVE  TellsTruth(m, handle_request(m, Challenges!named(list, m.name),
                                      Challenges!any(list, m.name)))
<1> DEFINE values == Challenges!named(list, m.name)
           found == Challenges!any(list, m.name)
           answers == Answers(m, values, found)
           body == handle_request(m, values, found)
<1>1. found <=> Finds(m.name) # {}
  BY DEF Challenges!any, Challenges!matches, Finds
<1>2. /\ values \in Seq(Values)
      /\ \A k \in 1..Len(values) : \E i \in Finds(m.name) : list[i].value = values[k]
      /\ \A i \in Finds(m.name) : \E k \in 1..Len(values) : values[k] = list[i].value
      /\ found <=> values # <<>>
  <2>1. /\ Proofs!named(list, m.name) \in Seq(Values)
        /\ \A k \in 1..Len(Proofs!named(list, m.name)) : \E i \in 1..Len(list) :
             Proofs!matches(list[i], m.name) /\ list[i].value = Proofs!named(list, m.name)[k]
        /\ \A i \in 1..Len(list) : Proofs!matches(list[i], m.name) =>
             \E k \in 1..Len(Proofs!named(list, m.name)) :
               Proofs!named(list, m.name)[k] = list[i].value
        /\ Proofs!any(list, m.name) <=> Proofs!named(list, m.name) # <<>>
    <3>1. list \in Seq(Proofs!Challenge)
      BY SameOperators
    <3> QED
      BY <3>1, ListAssumptionHolds, Proofs!NamedFacts
  <2>2. values = Proofs!named(list, m.name) /\ (found <=> Proofs!any(list, m.name))
    BY SameOperators
  <2> HIDE DEF values, found
  <2>3. \A i : i \in Finds(m.name) <=> i \in 1..Len(list) /\ Proofs!matches(list[i], m.name)
    BY DEF Finds, Proofs!matches
  <2> QED
    BY <2>1, <2>2, <2>3
<1> HIDE DEF values, found
<1>3. body = Response(IF answers = <<>> THEN "NXDomain" ELSE "NoError", answers)
  BY DEF handle_request
<1>4. body.answers = answers /\ (body.rcode = "NoError" <=> answers # <<>>)
  BY <1>3 DEF Response
<1> HIDE DEF body
<1>5. CASE m.query_type = "TXT"
  <2>1. answers = [k \in DOMAIN values |-> Answer("TXT", values[k])]
    BY <1>5 DEF Answers
  <2> HIDE DEF answers
  <2>2. /\ DOMAIN answers = 1..Len(values)
        /\ \A k \in 1..Len(values) : answers[k].value = values[k]
    BY <1>2, <2>1 DEF Answer
  <2>3. answers # <<>> <=> values # <<>>
    BY <1>2, <2>1
  <2>4. body.rcode = "NoError" <=> Finds(m.name) # {}
    BY <1>1, <1>2, <1>4, <2>3
  <2>5. \A k \in DOMAIN body.answers :
          \E i \in Finds(m.name) : list[i].value = body.answers[k].value
    BY <1>2, <1>4, <2>2
  <2>6. \A i \in Finds(m.name) :
          \E k \in DOMAIN body.answers : body.answers[k].value = list[i].value
    BY <1>2, <1>4, <2>2
  <2> QED
    BY <2>4, <2>5, <2>6 DEF TellsTruth, body, values, found
<1>6. CASE m.query_type # "TXT"
  <2>1. \E type : answers = AnswerIf(found, type)
    BY <1>6 DEF Answers
  <2> HIDE DEF answers
  <2>2. answers # <<>> <=> found
    BY <2>1 DEF AnswerIf
  <2>3. body.rcode = "NoError" <=> Finds(m.name) # {}
    BY <1>1, <1>4, <2>2
  <2> QED
    BY <1>6, <2>3 DEF TellsTruth, body, values, found
<1> QED
  BY <1>5, <1>6

\* There is a response when one is sent, and only then; if it is about
\* challenges it is true of the list as it is now.
AnswerInv ==
  /\ pc # "send" => response = None
  /\ AboutChallenges => TellsTruth(response.message, response.body)

\* All that is needed of the state.
PromiseInv == LoopAndWakeups /\ ConnInv /\ Proofs!ListInv /\ AnswerInv

\* Every action is one of these: only RespondTo makes a response, and nothing
\* changes the list while it is sent.
LEMMA AnswerSteps ==
  ASSUME [Next]_vars
  PROVE  \/ pc \in {"bound", "poll", "panic"} /\ Exit
         \/ pc = "send" /\ SendTo
         \/ RespondTo
         \/ pc = "read" /\ pc' = "drain" /\ HandleRequest /\ UNCHANGED response
         \/ Bind
         \/ /\ pc \notin {"down", "send"} /\ pc' \notin {"down", "send"}
            /\ UNCHANGED <<store, response>>
         \/ UNCHANGED <<pc, store, response>>
<1>1. CASE Traffic \/ Clients \/ Tick \/ UNCHANGED vars
  BY <1>1 DEF Traffic, Arrive, Clients, Connect, Send, HangUp, Tick, thread, vars
<1>2. CASE Register \/ DoPoll \/ NextEvent \/ NoMoreEvents \/ WouldBlock \/ Accept \/ DrainFails
  BY <1>2 DEF Register, DoPoll, NextEvent, NoMoreEvents, WouldBlock, StopDraining, Accept,
              DrainFails
<1>3. CASE PartialRequest \/ DroppedRequest \/ HandleRequest
  BY <1>3 DEF PartialRequest, DroppedRequest, HandleRequest, Served
<1>4. CASE IgnoreInvalidAddress \/ IgnoreBlocked \/ IgnoreMessage \/ Panic
  BY <1>4 DEF IgnoreInvalidAddress, IgnoreBlocked, IgnoreMessage, Panic, Counted, Recv,
              Ignored, thread
<1> QED
  BY <1>1, <1>2, <1>3, <1>4 DEF Next, Step, Failure, Fails, Unwind, SendTo

\* The response RespondTo makes.
LEMMA ResponseMade ==
  ASSUME LoopAndWakeups, Proofs!ListInv, RespondTo
  PROVE  /\ pc = "drain" /\ pc' = "send" /\ UNCHANGED store
         /\ response'.message.name \in Names
         /\ AboutChallenges' => TellsTruth(response'.message, response'.body)
<1> DEFINE m == Head(buffer[token]).message
<1>1. /\ pc = "drain" /\ pc' = "send" /\ UNCHANGED store /\ Recv
      /\ response'.message = m
      /\ response'.body = handle_request(m, Challenges!named(list, m.name),
                                         Challenges!any(list, m.name))
  BY DEF RespondTo, Respond, Counted, Recv
<1>2. Head(buffer[token]) \in Datagrams
  BY <1>1 DEF Recv, LoopAndWakeups, LoopInv
<1>3. m.name \in Names
  BY <1>2, ServerAssumption DEF Message
<1>4. list \in Seq(Challenges!Challenge)
  BY SameOperators DEF Proofs!ListInv, Proofs!TypeOK
<1>5. ReadMessageResult(m) = "Process" /\ m.query_type \in {"TXT", "SOA", "NS"} =>
        TellsTruth(m, response'.body)
  BY <1>1, <1>4, HandledTruly
<1> HIDE DEF m
<1> QED
  BY <1>1, <1>3, <1>5 DEF AboutChallenges

\* A response stays true while it is sent.
LEMMA AnswerInductive ==
  ASSUME LoopAndWakeups, Proofs!ListInv, AnswerInv, [Next]_vars
  PROVE  AnswerInv'
<1>1. CASE Exit \/ (pc = "send" /\ SendTo)
  BY <1>1 DEF Exit, SendTo, AnswerInv, AboutChallenges
<1>2. CASE RespondTo
  BY <1>2, ResponseMade DEF store, AnswerInv, TellsTruth, Finds
<1>3. CASE \/ pc = "read" /\ pc' = "drain" /\ HandleRequest /\ UNCHANGED response
           \/ pc \notin {"down", "send"} /\ pc' \notin {"down", "send"}
              /\ UNCHANGED <<store, response>>
  BY <1>3 DEF AnswerInv, AboutChallenges
<1>4. CASE Bind
  BY <1>4 DEF Bind, AnswerInv, AboutChallenges
<1>5. CASE UNCHANGED <<pc, store, response>>
  BY <1>5 DEF store, AnswerInv, AboutChallenges, TellsTruth, Finds
<1> QED
  BY <1>1, <1>2, <1>3, <1>4, <1>5, AnswerSteps

-----------------------------------------------------------------------------
(* The answers are true.                                                   *)

\* The list changes as the module Challenges says, or ends with the process.
LEMMA ListInductive ==
  ASSUME ConnInv, Proofs!ListInv, [Next]_vars
  PROVE  Proofs!ListInv'
<1>1. CASE UNCHANGED store
  BY <1>1, StoreSteps
<1>2. CASE HandleRequest
  BY <1>2, RequestEffect, StoreSteps
<1>3. CASE Bind
  BY <1>3, StoreSteps DEF Bind
<1>4. CASE SendTo \/ RespondTo
  BY <1>4, StoreSteps DEF SendTo, RespondTo, Respond
<1> QED
  BY <1>1, <1>2, <1>3, <1>4, StoreSteps, AnswerSteps

\* The invariant.
LEMMA PromiseInvariant == Spec => []PromiseInv
<1>1. Init => PromiseInv
  BY InitLoop, StoreSteps, IdleFacts
  DEF Init, PromiseInv, ConnInv, AnswerInv, AboutChallenges
<1>2. PromiseInv /\ [Next]_vars => PromiseInv'
  BY LoopInductive, ConnInductive, ListInductive, AnswerInductive DEF PromiseInv
<1> QED
  BY <1>1, <1>2, PTL DEF Spec

\* While a response is sent it tells each challenge that was registered, not
\* deleted and not pushed out by MAX_LEN others.
THEOREM AnswersWithholdNothing == Spec => []NothingWithheld
<1>1. PromiseInv => NothingWithheld
  <2> SUFFICES ASSUME PromiseInv, AboutChallenges, NEW c \in wanted,
                      since[c] < MAX_LEN, AsksFor(c)
               PROVE  IF response.message.query_type = "TXT"
                      THEN \E k \in Answered : response.body.answers[k].value = c.value
                      ELSE response.body.rcode = "NoError"
    BY DEF NothingWithheld
  <2>1. PICK i \in DOMAIN list : list[i] = c
    BY DEF PromiseInv, Proofs!ListInv, Proofs!AllPlaced, Proofs!Placed
  <2>2. i \in Finds(response.message.name)
    BY <2>1 DEF Finds, AsksFor
  <2> QED
    BY <2>1, <2>2 DEF PromiseInv, AnswerInv, TellsTruth, Answered
<1> QED
  BY <1>1, PromiseInvariant, PTL

\* And no other: what it tells is registered at that moment.
THEOREM AnswersInventNothing == Spec => []NothingInvented
<1>1. PromiseInv => NothingInvented
  <2> SUFFICES ASSUME PromiseInv, AboutChallenges
               PROVE  /\ response.body.rcode = "NoError" => \E c \in wanted : AsksFor(c)
                      /\ response.message.query_type = "TXT" =>
                           \A k \in Answered :
                             \E c \in wanted : /\ AsksFor(c)
                                               /\ c.value = response.body.answers[k].value
    BY DEF NothingInvented
  <2>1. \A i \in Finds(response.message.name) : list[i] \in wanted /\ AsksFor(list[i])
    BY DEF PromiseInv, Proofs!ListInv, Proofs!NothingElse, Finds, AsksFor
  <2> QED
    BY <2>1 DEF PromiseInv, AnswerInv, TellsTruth, Answered
<1> QED
  BY <1>1, PromiseInvariant, PTL

-----------------------------------------------------------------------------
(* The server implements Champion.                                         *)

\* A registration costs at most the challenge at the front of a full list, and
\* not even that if the list holds it again (challenges.rs:42-47).
LEMMA SetRegisters ==
  ASSUME Proofs!ListInv, NEW c \in Challenges!Challenge, Challenges!set(c)
  PROVE  \/ /\ MAX_LEN - Len(list) > 0
            /\ MAX_LEN - Len(list') = MAX_LEN - Len(list) - 1
            /\ Listed' = Listed \cup {c}
         \/ /\ MAX_LEN - Len(list) = 0
            /\ MAX_LEN - Len(list') = MAX_LEN - Len(list)
            /\ \E oldest \in Challenges!Challenge : Listed' = (Listed \ {oldest}) \cup {c}
<1> DEFINE longer == Append(list, c)
           n == Len(list)
<1>1. /\ list \in Seq(Challenges!Challenge) /\ n \in Nat /\ n <= MAX_LEN
      /\ MAX_LEN \in Nat \ {0}
  BY SameOperators, ServerAssumption DEF Proofs!ListInv, Proofs!TypeOK
<1>2. /\ longer \in Seq(Challenges!Challenge) /\ Len(longer) = n + 1
      /\ longer[n + 1] = c /\ \A i \in 1..n : longer[i] = list[i]
  BY <1>1
<1>3. list' = IF Len(longer) > MAX_LEN THEN Tail(longer) ELSE longer
  BY DEF Challenges!set, Challenges!Pushed
<1>4. Listed = {list[i] : i \in 1..n}
  BY <1>1 DEF Listed
<1> HIDE DEF longer
<1>5. CASE n < MAX_LEN
  <2>1. list' = longer
    BY <1>1, <1>2, <1>3, <1>5
  <2>2. Listed' = {longer[i] : i \in 1..(n + 1)}
    BY <1>1, <1>2, <2>1 DEF Listed
  <2>3. 1..(n + 1) = 1..n \cup {n + 1}
    BY <1>1
  <2> QED
    BY <1>1, <1>2, <1>4, <1>5, <2>1, <2>2, <2>3
<1>6. CASE n = MAX_LEN
  <2>1. list' = Tail(longer)
    BY <1>1, <1>2, <1>3, <1>6
  <2>2. Len(list') = n /\ DOMAIN list' = 1..n /\ \A k \in 1..n : list'[k] = longer[k + 1]
    BY <1>1, <1>2, <2>1
  <2>3. list'[n] = c /\ \A k \in 1..(n - 1) : list'[k] = list[k + 1]
    <3>1. n \in 1..n /\ \A k \in 1..(n - 1) : k \in 1..n /\ k + 1 \in 1..n
      BY <1>1, <1>6
    <3> QED
      BY <1>2, <2>2, <3>1
  <2>4. \A e : e \in Listed' <=> e = c \/ \E j \in 2..n : e = list[j]
    <3>1. \A k \in 1..n : k = n \/ (k \in 1..(n - 1) /\ k + 1 \in 2..n)
      BY <1>1
    <3>2. \A j \in 2..n : j - 1 \in 1..(n - 1) /\ j - 1 \in 1..n /\ (j - 1) + 1 = j
      BY <1>1
    <3>3. n \in 1..n
      BY <1>1, <1>6
    <3>4. \A e : e \in Listed' <=> \E k \in 1..n : e = list'[k]
      BY <2>2 DEF Listed
    <3>5. \A k \in 1..n : list'[k] = c \/ \E j \in 2..n : list'[k] = list[j]
      BY <2>3, <3>1
    <3>6. \A j \in 2..n : \E k \in 1..n : list'[k] = list[j]
      BY <2>3, <3>2
    <3>7. ASSUME NEW e, e \in Listed'
          PROVE  e = c \/ \E j \in 2..n : e = list[j]
      BY <3>4, <3>5, <3>7
    <3>8. c \in Listed' /\ \A j \in 2..n : list[j] \in Listed'
      BY <2>3, <3>3, <3>4, <3>6
    <3> QED
      BY <3>7, <3>8
  <2>5. 1 \in 1..n /\ list[1] \in Challenges!Challenge /\ 1..n = {1} \cup 2..n
    BY <1>1, <1>6
  <2>6. CASE \E j \in 2..n : list[j] = list[1]
    <3>1. Listed' = (Listed \ {c}) \cup {c}
      BY <1>4, <2>4, <2>5, <2>6
    <3> QED
      BY <1>6, <2>2, <3>1
  <2>7. CASE \A j \in 2..n : list[j] # list[1]
    <3>1. Listed' = (Listed \ {list[1]}) \cup {c}
      BY <1>4, <2>4, <2>5, <2>7
    <3> QED
      BY <1>6, <2>2, <2>5, <3>1
  <2> QED
    BY <2>6, <2>7
<1> QED
  BY <1>1, <1>5, <1>6

\* A deletion takes every duplicate, or finds none (challenges.rs:49-51).
LEMMA CleanupDeletes ==
  ASSUME Proofs!ListInv, NEW c \in Challenges!Challenge, Challenges!cleanup(c)
  PROVE  \/ c \notin Listed /\ Listed' = Listed /\ Len(list') = Len(list)
         \/ /\ c \in Listed
            /\ Listed' = Listed \ {c}
            /\ MAX_LEN - Len(list') \in (MAX_LEN - Len(list) + 1)..MAX_LEN
<1>1. list \in Seq(Challenges!Challenge) /\ Len(list) \in Nat /\ Len(list) <= MAX_LEN
  BY SameOperators DEF Proofs!ListInv, Proofs!TypeOK
<1>2. /\ list' \in Seq(Challenges!Challenge)
      /\ \A k \in 1..Len(list') :
           list'[k] # c /\ \E i \in 1..Len(list) : list'[k] = list[i]
      /\ \A i \in 1..Len(list) : list[i] # c => \E k \in 1..Len(list') : list'[k] = list[i]
      /\ IF \E i \in 1..Len(list) : list[i] = c
         THEN Len(list') < Len(list) ELSE Len(list') = Len(list)
  <2>1. list \in Seq(Proofs!Challenge) /\ list' \in Proofs!Dropped(list, c)
    BY <1>1, SameOperators DEF Challenges!cleanup
  <2> QED
    BY <2>1, SameOperators, ListAssumptionHolds, Proofs!DroppedFacts
<1>3. /\ \A e : e \in Listed <=> \E i \in 1..Len(list) : e = list[i]
      /\ \A e : e \in Listed' <=> \E k \in 1..Len(list') : e = list'[k]
  <2>1. DOMAIN list = 1..Len(list) /\ DOMAIN list' = 1..Len(list')
    BY <1>1, <1>2
  <2> QED
    BY <2>1 DEF Listed
<1>4. \A e : e \in Listed' <=> e \in Listed /\ e # c
  <2>1. ASSUME NEW e, e \in Listed'
        PROVE  e \in Listed /\ e # c
    <3>1. PICK k \in 1..Len(list') : e = list'[k]
      BY <1>3, <2>1
    <3> QED
      BY <1>2, <1>3, <3>1
  <2>2. ASSUME NEW e, e \in Listed, e # c
        PROVE  e \in Listed'
    <3>1. PICK i \in 1..Len(list) : e = list[i]
      BY <1>3, <2>2
    <3>2. PICK k \in 1..Len(list') : list'[k] = list[i]
      BY <1>2, <2>2, <3>1
    <3> QED
      BY <1>3, <3>1, <3>2
  <2> QED
    BY <2>1, <2>2
<1>5. Len(list') \in Nat /\ MAX_LEN \in Nat
  BY <1>2, ServerAssumption
<1>6. CASE c \in Listed
  <2>1. Len(list') < Len(list)
    BY <1>2, <1>3, <1>6
  <2>2. Listed' = Listed \ {c}
    BY <1>4
  <2> QED
    BY <1>1, <1>5, <1>6, <2>1, <2>2
<1>7. CASE c \notin Listed
  <2>1. Len(list') = Len(list)
    BY <1>2, <1>3, <1>7
  <2>2. Listed' = Listed
    BY <1>4, <1>7
  <2> QED
    BY <1>7, <2>1, <2>2
<1> QED
  BY <1>6, <1>7

\* A step that leaves the list and the response alone and does not start or end
\* the process changes nothing for Champion.
LEMMA Unnoticed ==
  ASSUME UNCHANGED <<list, response>>, pc = "down" <=> pc' = "down"
  PROVE  UNCHANGED Champion!vars
<1>1. UNCHANGED (pc # "down")
  OBVIOUS
<1>2. UNCHANGED Listed
  BY DEF Listed
<1>3. UNCHANGED (MAX_LEN - Len(list))
  OBVIOUS
<1>4. UNCHANGED Telling
  BY DEF Telling, Told, TellsAboutChallenges
<1> QED
  BY <1>1, <1>2, <1>3, <1>4 DEF Champion!vars

\* A response that is true is what Champion answers.
LEMMA TruthIsTold ==
  ASSUME NEW r, TellsAboutChallenges(r), TellsTruth(r.message, r.body),
         list \in Seq(Challenges!Challenge)
  PROVE  Told(r) = Champion!Truth(r.message.query_type, r.message.name)
<1> DEFINE type == r.message.query_type
           name == r.message.name
           M == Champion!Matching(name)
<1>1. M = {list[i] : i \in Finds(name)}
  BY DEF Champion!Matching, Listed, Finds
<1> HIDE DEF M
<1>2. (r.body.rcode = "NoError") = (M # {})
  BY <1>1 DEF TellsTruth
<1>3. type = "TXT" =>
        {r.body.answers[k].value : k \in DOMAIN r.body.answers} = {c.value : c \in M}
  BY <1>1 DEF TellsTruth
<1> QED
  BY <1>2, <1>3 DEF Told, Champion!Truth, M

\* Registrations and deletions (http_handler.rs:80-106).
LEMMA RequestRefines ==
  ASSUME PromiseInv, HandleRequest, pc = "read", pc' = "drain", UNCHANGED response
  PROVE  [Champion!Next]_Champion!vars
<1>1. response = None /\ Telling = None /\ Telling' = None
  BY DEF PromiseInv, AnswerInv, Telling, TellsAboutChallenges
<1>2. (pc # "down") = TRUE /\ (pc' # "down") = TRUE
  OBVIOUS
<1>3. CASE UNCHANGED store
  BY <1>3, Unnoticed DEF store
<1>4. ASSUME NEW c \in Challenges!Challenge, Challenges!set(c)
      PROVE  Champion!Register(c)
  BY <1>1, <1>2, <1>4, SetRegisters DEF PromiseInv, Champion!Register, Champion!Free
<1>5. ASSUME NEW c \in Challenges!Challenge, Challenges!cleanup(c)
      PROVE  Champion!Delete(c) \/ UNCHANGED Champion!vars
  <2>1. CASE c \notin Listed /\ Listed' = Listed /\ Len(list') = Len(list)
    BY <1>1, <2>1 DEF Champion!vars
  <2>2. CASE /\ c \in Listed
             /\ Listed' = Listed \ {c}
             /\ MAX_LEN - Len(list') \in (MAX_LEN - Len(list) + 1)..MAX_LEN
    BY <1>1, <1>2, <2>2 DEF Champion!Delete, Champion!Free
  <2> QED
    BY <1>5, <2>1, <2>2, CleanupDeletes DEF PromiseInv
<1> QED
  BY <1>3, <1>4, <1>5, RequestEffect DEF PromiseInv, Champion!Next

\* Every other step.
LEMMA StepRefines ==
  ASSUME PromiseInv, [Next]_vars
  PROVE  [Champion!Next]_Champion!vars
<1>1. CASE pc \in {"bound", "poll", "panic"} /\ Exit
  <2>1. response = None /\ response' = None /\ list' = <<>> /\ pc # "down" /\ pc' = "down"
    BY <1>1 DEF Exit, PromiseInv, AnswerInv
  <2>2. Telling = None /\ Telling' = None
    BY <2>1 DEF Telling, TellsAboutChallenges
  <2>3. Listed' = {} /\ MAX_LEN - Len(list') = MAX_LEN
    BY <2>1, ServerAssumption DEF Listed
  <2>4. Champion!Stop
    BY <2>1, <2>2, <2>3 DEF Champion!Stop, Champion!Free
  <2> QED
    BY <2>4 DEF Champion!Next
<1>2. CASE Bind
  <2>1. UNCHANGED <<list, response>> /\ pc = "down" /\ pc' # "down"
    BY <1>2 DEF Bind, store
  <2>2. UNCHANGED <<Listed, MAX_LEN - Len(list), Telling>>
    BY <2>1 DEF Listed, Telling, Told, TellsAboutChallenges
  <2>3. Champion!Start
    BY <2>1, <2>2 DEF Champion!Start
  <2> QED
    BY <2>3 DEF Champion!Next
<1>3. CASE RespondTo
  <2>1. /\ pc = "drain" /\ pc' = "send" /\ UNCHANGED store
        /\ response'.message.name \in Names
        /\ AboutChallenges' => TellsTruth(response'.message, response'.body)
    BY <1>3, ResponseMade DEF PromiseInv
  <2>2. Telling = None
    BY <2>1 DEF PromiseInv, AnswerInv, Telling, TellsAboutChallenges
  <2>3. UNCHANGED <<Listed, MAX_LEN - Len(list), pc # "down">>
    BY <2>1 DEF store, Listed
  <2>4. CASE TellsAboutChallenges(response')
    <3>1. TellsTruth(response'.message, response'.body)
      BY <2>1, <2>4 DEF AboutChallenges, TellsAboutChallenges
    <3>2. list \in Seq(Challenges!Challenge)
      BY SameOperators DEF PromiseInv, Proofs!ListInv, Proofs!TypeOK
    <3>3. Telling' = Champion!Truth(response'.message.query_type, response'.message.name)
      BY <2>4, <3>1, <3>2, TruthIsTold DEF Telling
    <3>4. response'.message.query_type \in {"TXT", "SOA", "NS"}
      BY <2>4 DEF TellsAboutChallenges
    <3>5. Champion!Answer(response'.message.query_type, response'.message.name)
      BY <2>1, <2>2, <2>3, <3>3 DEF Champion!Answer, Champion!Free
    <3> QED
      BY <2>1, <3>4, <3>5 DEF Champion!Next
  <2>5. CASE ~TellsAboutChallenges(response')
    <3>1. Telling' = None
      BY <2>5 DEF Telling
    <3> QED
      BY <2>2, <2>3, <3>1 DEF Champion!vars
  <2> QED
    BY <2>4, <2>5
<1>4. CASE pc = "send" /\ SendTo
  <2>1. UNCHANGED list /\ response' = None /\ pc' = "drain"
    BY <1>4 DEF SendTo, store
  <2>2. UNCHANGED <<Listed, MAX_LEN - Len(list), pc # "down">>
    BY <1>4, <2>1 DEF Listed
  <2>3. Telling' = None
    BY <2>1 DEF Telling, TellsAboutChallenges
  <2>4. CASE Telling = None
    BY <2>2, <2>3, <2>4 DEF Champion!vars
  <2>5. CASE Telling # None
    <3>1. Champion!Deliver
      BY <2>2, <2>3, <2>5 DEF Champion!Deliver
    <3> QED
      BY <3>1 DEF Champion!Next
  <2> QED
    BY <2>4, <2>5
<1>5. CASE pc \notin {"down", "send"} /\ pc' \notin {"down", "send"} /\ UNCHANGED <<store, response>>
  BY <1>5, Unnoticed DEF store
<1>6. CASE UNCHANGED <<pc, store, response>>
  BY <1>6, Unnoticed DEF store
<1> QED
  BY <1>1, <1>2, <1>3, <1>4, <1>5, <1>6, AnswerSteps, RequestRefines

\* The server implements Champion, with any number of clients, sockets and
\* failures: registrations and deletions take effect one at a time and never
\* under an answer, and every answer is the truth when it is made.
THEOREM PromiseIsKept == Spec => PromiseKept
<1>1. Init => Champion!Init
  <2> SUFFICES ASSUME Init
               PROVE  Champion!Init
    OBVIOUS
  <2>1. pc = "down" /\ list = <<>> /\ response = None
    BY DEF Init, Challenges!Init
  <2>2. Listed = {} /\ MAX_LEN - Len(list) = MAX_LEN /\ Telling = None
    BY <2>1, ServerAssumption DEF Listed, Telling, TellsAboutChallenges
  <2>3. (pc # "down") = FALSE
    BY <2>1
  <2> QED
    BY <2>2, <2>3 DEF Champion!Init
<1>2. PromiseInv /\ [Next]_vars => [Champion!Next]_Champion!vars
  BY StepRefines
<1> QED
  BY <1>1, <1>2, PromiseInvariant, PTL DEF Spec, PromiseKept, Champion!Spec

-----------------------------------------------------------------------------
(* The shape of the state.                                                 *)

\* The lemmas on the limiter; the server keeps no history of it.
Limits == INSTANCE RateLimiterProofs WITH granted <- <<>>, steady <- FALSE

\* Both instances of RateLimiter define the same operators.
LEMMA SameLimiter ==
  /\ RateLimiter!TypeOK <=> Limits!TypeOK
  /\ RateLimiter!Init => Limits!Init
  /\ \A a : RateLimiter!increment(a) => Limits!increment(a)
  /\ RateLimiter!AdvanceClock => Limits!AdvanceClock
  /\ RateLimiter!SetClockBack => Limits!SetClockBack
<1> USE DEF RateLimiter!Absent, Limits!Absent, RateLimiter!KnownSince, Limits!KnownSince,
            RateLimiter!BlockedUntil, Limits!BlockedUntil
<1>1. RateLimiter!TypeOK <=> Limits!TypeOK
  BY DEF RateLimiter!TypeOK, Limits!TypeOK, RateLimiter!Entries, Limits!Entries,
         RateLimiter!RateLimitResult, Limits!RateLimitResult
<1>2. RateLimiter!Init => Limits!Init
  BY DEF RateLimiter!Init, Limits!Init
<1>3. /\ RateLimiter!AdvanceClock => Limits!AdvanceClock
      /\ RateLimiter!SetClockBack => Limits!SetClockBack
  BY DEF RateLimiter!AdvanceClock, Limits!AdvanceClock, RateLimiter!SetClockBack,
         Limits!SetClockBack
<1>4. \A s : RateLimiter!Size(s) = Limits!Size(s)
  BY DEF RateLimiter!Size, Limits!Size, RateLimiter!Cardinality, Limits!Cardinality,
         RateLimiter!IsFiniteSet, Limits!IsFiniteSet
<1>5. RateLimiter!Purged = Limits!Purged
  BY <1>4 DEF RateLimiter!Purged, Limits!Purged, RateLimiter!cleanup, Limits!cleanup,
              RateLimiter!Retains, Limits!Retains
<1>6. \A a : RateLimiter!EntryOf(a) = Limits!EntryOf(a)
  BY <1>5 DEF RateLimiter!EntryOf, Limits!EntryOf
<1>7. \A a, e, r : RateLimiter!Settle(a, e, r) => Limits!Settle(a, e, r)
  BY <1>4, <1>5 DEF RateLimiter!Settle, Limits!Settle
<1>8. \A a : RateLimiter!increment(a) => Limits!increment(a)
  BY <1>4, <1>5, <1>6, <1>7
  DEF RateLimiter!increment, Limits!increment, RateLimiter!ShortCircuit, Limits!ShortCircuit,
      RateLimiter!StartWindow, Limits!StartWindow, RateLimiter!WindowOver, Limits!WindowOver,
      RateLimiter!BlockOver, Limits!BlockOver, RateLimiter!CountQuery, Limits!CountQuery,
      RateLimiter!WindowOpen, Limits!WindowOpen, RateLimiter!StartBlock, Limits!StartBlock,
      RateLimiter!StillBlocked, Limits!StillBlocked
<1> QED
  BY <1>1, <1>2, <1>3, <1>8

\* The responses there can be.
Responses ==
  [to : [ip : Addrs, port : Nat], message : Message,
   body : [rcode : ResponseCode,
           answers : Seq([type : QueryTypes, value : Values \cup {"fixed"}])]]

\* What handle_request makes is one of them.
LEMMA HandledType ==
  ASSUME list \in Seq(Challenges!Challenge), NEW m \in Message, ~DontRespond(m)
  PROVE  handle_request(m, Challenges!named(list, m.name), Challenges!any(list, m.name))
           \in [rcode : ResponseCode,
                answers : Seq([type : QueryTypes, value : Values \cup {"fixed"}])]
<1> DEFINE values == Challenges!named(list, m.name)
           found == Challenges!any(list, m.name)
           answers == Answers(m, values, found)
           S == [type : QueryTypes, value : Values \cup {"fixed"}]
<1>1. values \in Seq(Values)
  <2>1. list \in Seq(Proofs!Challenge)
    BY SameOperators
  <2> QED
    BY <2>1, SameOperators, ListAssumptionHolds, Proofs!NamedFacts
<1> HIDE DEF values, found
<1>2. CASE ReadMessageResult(m) = "Process"
  <2>1. m.query_type \in {"A", "NS", "SOA", "TXT", "AAAA"}
    <3>1. /\ m.opcode \in {"Standard", "Inverse", "Status", "Other"}
          /\ m.query_type \in QueryTypes
      BY DEF Message
    <3> QED
      BY <1>2, <3>1 DEF ReadMessageResult, QueryTypes
  <2>2. ASSUME NEW type \in QueryTypes, NEW cond
        PROVE  AnswerIf(cond, type) \in Seq(S)
    <3>1. Answer(type, "fixed") \in S
      BY <2>2 DEF Answer
    <3> HIDE DEF S
    <3>2. <<Answer(type, "fixed")>> \in Seq(S) /\ <<>> \in Seq(S)
      BY <3>1
    <3> QED
      BY <3>2 DEF AnswerIf
  <2>3. answers \in Seq(S)
    <3>1. CASE m.query_type = "TXT"
      <4>1. answers = [k \in DOMAIN values |-> Answer("TXT", values[k])]
        BY <3>1 DEF Answers
      <4>2. \A k \in 1..Len(values) : Answer("TXT", values[k]) \in S
        BY <1>1 DEF Answer, QueryTypes
      <4>3. answers = [k \in 1..Len(values) |-> Answer("TXT", values[k])]
        BY <1>1, <4>1
      <4>4. Len(values) \in Nat
        BY <1>1
      <4> HIDE DEF answers, S
      <4> QED
        BY <4>2, <4>3, <4>4
    <3>2. CASE m.query_type # "TXT"
      <4>1. \E type \in QueryTypes : \E cond : answers = AnswerIf(cond, type)
        BY <2>1, <3>2 DEF Answers, QueryTypes
      <4> QED
        BY <2>2, <4>1
    <3> QED
      BY <3>1, <3>2
  <2>4. handle_request(m, values, found) =
          Response(IF answers = <<>> THEN "NXDomain" ELSE "NoError", answers)
    BY <1>2 DEF handle_request
  <2> HIDE DEF answers
  <2> QED
    BY <2>3, <2>4 DEF Response, ResponseCode, values, found
<1>3. CASE ReadMessageResult(m) # "Process"
  <2>1. ReadMessageResult(m) \in ResponseCode
    <3>1. m.opcode \in {"Standard", "Inverse", "Status", "Other"} /\ m.num_questions \in 0..2
      BY DEF Message
    <3> QED
      BY <1>3, <3>1 DEF ReadMessageResult, ResponseCode
  <2>2. handle_request(m, values, found) = Response(ReadMessageResult(m), <<>>)
    BY <1>3 DEF handle_request
  <2> QED
    BY <2>1, <2>2 DEF Response, values, found
<1> QED
  BY <1>2, <1>3

\* The rest of the shape: what is at hand, and when.
ShapeInv ==
  /\ RateLimiter!TypeOK
  /\ serving \in Conns \cup {None}
  /\ serving # None <=> pc = "read"
  /\ pc = "send" => response \in Responses
  /\ status \in StatusCode \cup {None}
  /\ faults \in 0..MAX_FAULTS

\* The limiter of the server is the one the module RateLimiter is about.
LEMMA LimiterSteps ==
  /\ RateLimiter!Init => RateLimiter!TypeOK
  /\ \A a \in Addrs : RateLimiter!TypeOK /\ RateLimiter!increment(a) => RateLimiter!TypeOK'
  /\ RateLimiter!TypeOK /\ (RateLimiter!AdvanceClock \/ RateLimiter!SetClockBack)
       => RateLimiter!TypeOK'
  /\ RateLimiter!TypeOK /\ Exit => RateLimiter!TypeOK'
  /\ RateLimiter!TypeOK /\ UNCHANGED limiter => RateLimiter!TypeOK'
<1>0. Limits!TypeOK /\ [Limits!Next]_Limits!vars => Limits!TypeOK'
  BY ServerLimits, Limits!TypeInductive DEF IsFiniteSet, Limits!IsFiniteSet
<1>1. RateLimiter!Init => RateLimiter!TypeOK
  <2>1. Limits!Init => Limits!TypeOK
    BY ServerLimits, Limits!InitType DEF IsFiniteSet, Limits!IsFiniteSet
  <2> QED
    BY <2>1, SameLimiter
<1>2. ASSUME RateLimiter!TypeOK, Limits!Next
      PROVE  RateLimiter!TypeOK'
  <2>1. Limits!TypeOK'
    BY <1>0, <1>2, SameLimiter
  <2>2. Limits!TypeOK' => RateLimiter!TypeOK'
    BY SameLimiter, PTL
  <2> QED
    BY <2>1, <2>2
<1>3. ASSUME RateLimiter!TypeOK, Exit
      PROVE  RateLimiter!TypeOK'
  <2>1. states' = [a \in Addrs |-> RateLimiter!Absent] /\ UNCHANGED <<now, result>>
    BY <1>3 DEF Exit
  <2> QED
    BY <1>3, <2>1 DEF RateLimiter!TypeOK, RateLimiter!Entries
<1>4. RateLimiter!TypeOK /\ UNCHANGED limiter => RateLimiter!TypeOK'
  BY DEF limiter, RateLimiter!TypeOK
<1> QED
  BY <1>1, <1>2, <1>3, <1>4, SameLimiter DEF Limits!Next

\* A datagram that is counted, and the response to it.
LEMMA CountedShape ==
  ASSUME LoopAndWakeups, RateLimiter!TypeOK, Counted
  PROVE  /\ RateLimiter!TypeOK'
         /\ Head(buffer[token]).src \in [ip : Addrs, port : Nat]
         /\ Head(buffer[token]).message \in Message
<1> DEFINE d == Head(buffer[token])
<1>1. d \in [src : [ip : Addrs \cup {"unspecified", "broadcast"}, port : Nat],
             message : Message]
  <2>1. buffer[token] \in Seq(Datagrams) /\ buffer[token] # <<>>
    BY DEF Counted, Recv, LoopAndWakeups, LoopInv
  <2> QED
    BY <2>1, ServerAssumption
<1>2. d.src \in [ip : Addrs, port : Nat]
  BY <1>1 DEF Counted, valid_return_address
<1>3. d.message \in Message
  BY <1>1
<1>4. RateLimiter!TypeOK'
  BY <1>2, LimiterSteps DEF Counted
<1> QED
  BY <1>2, <1>3, <1>4

\* The steps of the thread keep the shape, and so do failures.
LEMMA ThreadKeepsShape ==
  ASSUME PromiseInv, ShapeInv, Step \/ Failure
  PROVE  ShapeInv'
<1>0. None \notin Conns /\ MAX_FAULTS \in Nat
  BY ServerAssumption
<1>1. LoopAndWakeups /\ ConnInv /\ list \in Seq(Challenges!Challenge)
  BY SameOperators DEF PromiseInv, Proofs!ListInv, Proofs!TypeOK
<1>2. RateLimiter!TypeOK /\ status \in StatusCode \cup {None} /\ faults \in 0..MAX_FAULTS
  BY DEF ShapeInv
<1>3. Fault => faults' \in 0..MAX_FAULTS
  BY <1>0, <1>2 DEF Fault
<1>4. CASE Exit
  <2>1. faults' \in 0..MAX_FAULTS
    <3>1. Fault \/ UNCHANGED faults
      BY <1>4 DEF Exit, Step, Failure, Fails, Unwind, DrainFails, StopDraining, Bind, Register,
                  DoPoll, NextEvent, NoMoreEvents, WouldBlock, Accept, PartialRequest,
                  DroppedRequest, HandleRequest, Served, IgnoreInvalidAddress, IgnoreBlocked,
                  IgnoreMessage, Ignored, RespondTo, Respond, Panic, SendTo
    <3> QED
      BY <1>2, <1>3, <3>1
  <2>2. RateLimiter!TypeOK'
    BY <1>2, <1>4, LimiterSteps
  <2> QED
    BY <1>4, <2>1, <2>2 DEF Exit, ShapeInv
<1>5. CASE Bind \/ Register \/ DoPoll \/ NextEvent \/ NoMoreEvents \/ WouldBlock \/ SendTo
           \/ DrainFails
  <2>1. /\ pc # "read" /\ pc' \notin {"read", "send"} /\ status' = None
        /\ UNCHANGED <<limiter, serving>> /\ faults' \in 0..MAX_FAULTS
    BY <1>2, <1>3, <1>5 DEF Bind, Register, DoPoll, NextEvent, NoMoreEvents, WouldBlock, SendTo,
                            DrainFails, StopDraining
  <2>2. RateLimiter!TypeOK'
    BY <1>2, <2>1, LimiterSteps
  <2> QED
    BY <2>1, <2>2 DEF ShapeInv
<1>6. CASE Accept
  <2>1. Head(backlog) \in Conns
    <3>1. backlog \in Seq(Conns) /\ backlog # <<>>
      BY <1>1, <1>6 DEF Accept, LoopAndWakeups, LoopInv
    <3> QED
      BY <3>1
  <2>2. RateLimiter!TypeOK'
    BY <1>2, <1>6, LimiterSteps DEF Accept
  <2> QED
    BY <1>0, <1>6, <2>1, <2>2 DEF Accept, ShapeInv
<1>7. CASE PartialRequest \/ DroppedRequest \/ HandleRequest
  <2>1. Served
    BY <1>7 DEF PartialRequest, DroppedRequest, HandleRequest
  <2>2. status' \in StatusCode \cup {None}
    <3>1. CASE HandleRequest
      <4>1. status' = status_code(conn[serving].req) \/ status' = None
        <5>1. status' \in {status_code(conn[serving].req)}
                           \cup (IF conn[serving].open THEN {} ELSE {None})
          BY <3>1, Zenon DEF HandleRequest
        <5> QED
          BY <5>1
      <4>2. \A req : status_code(req) \in StatusCode
        BY DEF status_code, StatusCode
      <4> QED
        BY <4>1, <4>2
    <3>2. CASE PartialRequest \/ DroppedRequest
      BY <3>2 DEF PartialRequest, DroppedRequest, StatusCode
    <3> QED
      BY <1>7, <3>1, <3>2
  <2>3. RateLimiter!TypeOK'
    BY <1>2, <2>1, LimiterSteps DEF Served
  <2> QED
    BY <2>1, <2>2, <2>3 DEF Served, ShapeInv
<1>8. CASE IgnoreInvalidAddress
  <2>1. pc = "drain" /\ pc' = pc /\ status' = None /\ UNCHANGED <<limiter, serving, faults>>
    BY <1>8 DEF IgnoreInvalidAddress, Recv, Ignored, thread
  <2>2. RateLimiter!TypeOK'
    BY <1>2, <2>1, LimiterSteps
  <2> QED
    BY <2>1, <2>2 DEF ShapeInv
<1>9. CASE IgnoreBlocked \/ IgnoreMessage \/ Panic
  <2>1. /\ pc = "drain" /\ pc' \in {"drain", "panic"} /\ status' = None /\ Counted
        /\ UNCHANGED <<serving, faults>>
    BY <1>9 DEF IgnoreBlocked, IgnoreMessage, Panic, Counted, Recv, Ignored, thread
  <2>2. RateLimiter!TypeOK'
    BY <1>1, <1>2, <2>1, CountedShape
  <2> QED
    BY <2>1, <2>2 DEF ShapeInv
<1>10. CASE RespondTo
  <2> DEFINE d == Head(buffer[token])
             body == handle_request(d.message, Challenges!named(list, d.message.name),
                                    Challenges!any(list, d.message.name))
  <2>1. /\ pc = "drain" /\ pc' = "send" /\ status' = None /\ Counted
        /\ UNCHANGED <<serving, faults>> /\ ~DontRespond(d.message)
        /\ response' = [to |-> d.src, message |-> d.message, body |-> body]
    BY <1>10 DEF RespondTo, Respond, Counted, Recv
  <2>2. RateLimiter!TypeOK' /\ d.src \in [ip : Addrs, port : Nat] /\ d.message \in Message
    BY <1>1, <1>2, <2>1, CountedShape
  <2>3. body \in [rcode : ResponseCode,
                  answers : Seq([type : QueryTypes, value : Values \cup {"fixed"}])]
    BY <1>1, <2>1, <2>2, HandledType
  <2> HIDE DEF d, body
  <2>4. response' \in Responses
    BY <2>1, <2>2, <2>3 DEF Responses
  <2> QED
    BY <2>1, <2>2, <2>4 DEF ShapeInv
<1> QED
  BY <1>4, <1>5, <1>6, <1>7, <1>8, <1>9, <1>10 DEF Step, Failure, Fails, Unwind

\* The environment keeps it.
LEMMA ShapeInductive == PromiseInv /\ ShapeInv /\ [Next]_vars => ShapeInv'
<1> SUFFICES ASSUME PromiseInv, ShapeInv, [Next]_vars
             PROVE  ShapeInv'
  OBVIOUS
<1>1. CASE Traffic \/ Clients \/ Tick \/ UNCHANGED vars
  <2>1. UNCHANGED <<pc, serving, response, status, faults>>
    BY <1>1 DEF Traffic, Arrive, Clients, Connect, Send, HangUp, Tick, thread, vars
  <2>2. UNCHANGED limiter \/ RateLimiter!AdvanceClock \/ RateLimiter!SetClockBack
    BY <1>1 DEF Traffic, Arrive, Clients, Connect, Send, HangUp, Tick, vars
  <2>3. RateLimiter!TypeOK'
    BY <2>2, LimiterSteps DEF ShapeInv
  <2> QED
    BY <2>1, <2>3 DEF ShapeInv
<1> QED
  BY <1>1, ThreadKeepsShape DEF Next

\* A connection, a response or an event is at hand when and only when the thread
\* is at a place that uses it, and the list and the limiter keep their shape.
THEOREM ServerTypeCorrect == Spec => []TypeOK
<1>1. Init => ShapeInv
  BY LimiterSteps, ServerAssumption DEF Init, ShapeInv
<1>2. PromiseInv /\ ShapeInv => TypeOK
  <2> SUFFICES ASSUME PromiseInv, ShapeInv
               PROVE  TypeOK
    OBVIOUS
  <2>1. Challenges!TypeOK
    BY SameOperators DEF PromiseInv, Proofs!ListInv, Proofs!TypeOK, Challenges!TypeOK
  <2>2. None \notin Responses
    BY ServerAssumption, Zenon DEF Responses
  <2>3. response # None <=> pc = "send"
    BY <2>2 DEF PromiseInv, AnswerInv, ShapeInv
  <2> QED
    BY <2>1, <2>3 DEF PromiseInv, LoopAndWakeups, ConnInv, ShapeInv, TypeOK
<1> QED
  BY <1>1, <1>2, ShapeInductive, PromiseInvariant, PTL DEF Spec
=============================================================================
