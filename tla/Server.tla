-------------------------------- MODULE Server --------------------------------
(***************************************************************************)
(* The whole server: the event loop of main.rs, a single thread that       *)
(* drains a TCP listener and the UDP sockets whenever mio reports them     *)
(* readable, with the two handlers, the list of challenges and the limiter *)
(* they share.  mio reports edges: a socket is reported once for what      *)
(* arrives, not for what is left over.                                     *)
(*                                                                         *)
(* The clients, the kernel's queues, the clock and whoever restarts the    *)
(* process are the environment.  A connection is a slot that is used again *)
(* once the server is done with it.                                        *)
(***************************************************************************)
EXTENDS HttpHandler, DnsHandler, FiniteSets, Integers

CONSTANTS
  CaseFold, MAX_LEN,                                        \* see Challenges
  Addrs, BLOCK_DURATION_SECS, WINDOW_SECS, RATE_LIMIT, MAX_SIZE,
  Times,                                                    \* see RateLimiter
  Conns,        \* the connections open at one time
  Requests,     \* the requests clients send
  Sockets,      \* the UDP tokens that are bound: UDP_SOCKET_4, UDP_SOCKET_6
  Datagrams,    \* the datagrams that arrive: [src, message]
  BACKLOG,      \* the bound of the listener's accept queue
  RCVBUF,       \* the bound of a socket's receive buffer, in datagrams
  MAX_FAULTS,   \* how many system calls may fail
  None          \* no connection, no response

ASSUME ServerAssumption ==
  /\ MAX_LEN \in Nat \ {0}
  /\ CaseFold \in [Names -> Names]
  /\ Requests \subseteq Request
  /\ Datagrams \subseteq [src : [ip : Addrs \cup {"unspecified", "broadcast"}, port : Nat],
                          message : Message]
  /\ QueryNames \subseteq Names
  /\ "TCP_LISTENER" \notin Sockets
  /\ None \notin Sockets \cup {"TCP_LISTENER"}
  /\ BACKLOG \in Nat \ {0}
  /\ RCVBUF \in Nat \ {0}
  /\ MAX_FAULTS \in Nat
  /\ None \notin Conns
  /\ None \notin Requests
  /\ None \notin StatusCode
  /\ None \notin [to : [ip : Addrs, port : Nat], message : Message,
                  body : [rcode : ResponseCode,
                          answers : Seq([type : QueryTypes, value : Values \cup {"fixed"}])]]

\* The limits are as in RateLimiter.
ASSUME ServerLimits ==
  /\ IsFiniteSet(Addrs)
  /\ WINDOW_SECS \in Nat \ {0}
  /\ BLOCK_DURATION_SECS \in Nat
  /\ BLOCK_DURATION_SECS >= WINDOW_SECS
  /\ RATE_LIMIT \in 2..255
  /\ MAX_SIZE \in Nat \ {0}
  /\ Times \subseteq Int

VARIABLES
  list, wanted, since,   \* challenges
  states, now, result,   \* rate_limiter
  pc,        \* where the thread is
  events,    \* the readable events of this poll that are still to be handled
  token,     \* the one being handled
  serving,   \* the accepted connection handle_http reads from
  response,  \* the response handle_dns is sending: [to, message, body]
  ready,     \* kernel: the tokens with an edge poll has not reported yet
  backlog,   \* kernel: connections that wait to be accepted
  buffer,    \* kernel: per socket, datagrams that wait to be received
  conn,      \* per connection, what its client has done
  status,    \* the status code written by the last step of the thread, if any
  stranded,  \* history: tokens whose last drain ended in an error
  faults     \* the system calls that have failed

store == <<list, wanted, since>>
limiter == <<states, now, result>>
thread == <<pc, events, token, serving, response>>
kernel == <<ready, backlog, buffer, stranded>>
vars == <<store, limiter, thread, kernel, conn, status, faults>>

Challenges == INSTANCE Challenges
RateLimiter == INSTANCE RateLimiter

TCP_LISTENER == "TCP_LISTENER"
Tokens == Sockets \cup {TCP_LISTENER}

\* A connection slot nobody uses, and one whose client has just connected.
Idle == [req |-> None, sent |-> "none", open |-> FALSE]
Connected(req) == [req |-> req, sent |-> "none", open |-> TRUE]

\* The bytes of a request arrive at once or in two parts.
Parts == {"none", "part", "all"}

\* Something can be accepted or received.
Pending(t) == IF t = TCP_LISTENER THEN backlog # <<>> ELSE buffer[t] # <<>>

\* The sockets are bound; they are registered with the poll.
Bound == pc # "down"
Registered == pc \notin {"down", "bound"}

-----------------------------------------------------------------------------
(* Starting, and ending.                                                   *)

\* The process is gone: its memory, its sockets and what they held.
Exit ==
  /\ pc' = "down"
  /\ events' = {}
  /\ token' = None
  /\ serving' = None
  /\ response' = None
  /\ ready' = {}
  /\ backlog' = <<>>
  /\ buffer' = [s \in Sockets |-> <<>>]
  /\ stranded' = {}
  /\ conn' = [c \in Conns |-> Idle]
  /\ list' = <<>>
  /\ wanted' = {}
  /\ since' = [c \in Challenges!Challenge |-> 0]
  /\ states' = [a \in Addrs |-> RateLimiter!Absent]
  /\ status' = None
  /\ UNCHANGED <<now, result>>

\* main_loop binds the listener and the sockets and makes an empty list and an
\* empty limiter.
Bind ==
  /\ pc = "down"
  /\ pc' = "bound"
  /\ status' = None
  /\ UNCHANGED <<store, limiter, events, token, serving, response, kernel,
                 conn, faults>>

\* Mutant of Register: what arrived before the registration is not reported.
RegisterForgets ==
  /\ pc = "bound"
  /\ ready' = {}
  /\ pc' = "poll"
  /\ status' = None
  /\ UNCHANGED <<store, limiter, events, token, serving, response, backlog,
                 buffer, stranded, conn, faults>>

\* It registers them with the poll, which reports what is there already.
Register ==
  /\ pc = "bound"
  /\ ready' = {t \in Tokens : Pending(t)}
  /\ pc' = "poll"
  /\ status' = None
  /\ UNCHANGED <<store, limiter, events, token, serving, response, backlog,
                 buffer, stranded, conn, faults>>

Fault ==
  /\ faults < MAX_FAULTS
  /\ faults' = faults + 1

\* An error of register, of set_user or of poll ends main_loop.
Fails == pc \in {"bound", "poll"} /\ Fault /\ Exit

-----------------------------------------------------------------------------
(* The event loop.                                                         *)

\* poll returns the edges it has, of those tokens that are readable still.
DoPoll ==
  /\ pc = "poll"
  /\ \E t \in ready : Pending(t)
  /\ events' = {t \in ready : Pending(t)}
  /\ ready' = {}
  /\ pc' = "dispatch"
  /\ status' = None
  /\ UNCHANGED <<store, limiter, token, serving, response, backlog, buffer,
                 stranded, conn, faults>>

NextEvent ==
  /\ pc = "dispatch"
  /\ \E t \in events :
       /\ token' = t
       /\ events' = events \ {t}
  /\ pc' = "drain"
  /\ status' = None
  /\ UNCHANGED <<store, limiter, serving, response, kernel, conn, faults>>

NoMoreEvents ==
  /\ pc = "dispatch"
  /\ events = {}
  /\ pc' = "poll"
  /\ status' = None
  /\ UNCHANGED <<store, limiter, events, token, serving, response, kernel,
                 conn, faults>>

\* accept and recv return None.
StopDraining == token' = None /\ pc' = "dispatch"

\* WouldBlock: the queue is empty.
WouldBlock ==
  /\ pc = "drain"
  /\ ~Pending(token)
  /\ StopDraining
  /\ status' = None
  /\ UNCHANGED <<store, limiter, events, serving, response, kernel, conn,
                 faults>>

\* Any other error, which is logged and ends the drain as well.  Nothing is
\* taken from the queue, or accept takes a connection and loses it.
DrainFails ==
  /\ pc = "drain"
  /\ Pending(token)
  /\ Fault
  /\ StopDraining
  /\ stranded' = stranded \cup {token}
  /\ \/ UNCHANGED <<backlog, conn>>
     \/ /\ token = TCP_LISTENER
        /\ backlog' = Tail(backlog)
        /\ conn' = [conn EXCEPT ![Head(backlog)] = Idle]
  /\ status' = None
  /\ UNCHANGED <<store, limiter, events, serving, response, ready, buffer>>

-----------------------------------------------------------------------------
(* HTTP.                                                                   *)

Accept ==
  /\ pc = "drain"
  /\ token = TCP_LISTENER
  /\ backlog # <<>>
  /\ serving' = Head(backlog)
  /\ backlog' = Tail(backlog)
  /\ pc' = "read"
  /\ status' = None
  /\ UNCHANGED <<store, limiter, events, token, response, ready, buffer,
                 stranded, conn, faults>>

\* Mutant of Served: the stream stays around.
ServedKeepsStream ==
  /\ conn' = [conn EXCEPT ![serving] = Idle]
  /\ pc' = "drain"
  /\ UNCHANGED <<limiter, events, token, serving, response, kernel, faults>>

\* handle_http is done with the stream and drops it; accept is tried again.
Served ==
  /\ conn' = [conn EXCEPT ![serving] = Idle]
  /\ serving' = None
  /\ pc' = "drain"
  /\ UNCHANGED <<limiter, events, token, response, kernel, faults>>

\* Mutant of ReadReturns: reading goes on until the request is complete.
ReadReturnsAll == conn[serving].sent = "all"

\* The blocking read returns what has arrived, or nothing once the client has
\* hung up.
ReadReturns == conn[serving].sent # "none" \/ ~conn[serving].open

\* The stream is read once: a head that is not complete yet is answered with
\* BAD_REQUEST.
PartialRequest ==
  /\ pc = "read"
  /\ ReadReturns
  /\ conn[serving].sent # "all"
  /\ status' = "BAD_REQUEST"
  /\ Served
  /\ UNCHANGED store

\* An error of read or of httparse: the stream is dropped without a word.
DroppedRequest ==
  /\ pc = "read"
  /\ ReadReturns
  /\ conn[serving].open => ~conn[serving].req.wellformed
  /\ status' = None
  /\ Served
  /\ UNCHANGED store

\* A complete request: the list is changed first, then the response written,
\* which fails if the client has gone.
HandleRequest ==
  /\ pc = "read"
  /\ conn[serving].sent = "all"
  /\ conn[serving].req.wellformed
  /\ LET req == conn[serving].req IN
     /\ CASE Registers(req) -> Challenges!set(challenge_from_req(req))
          [] Unregisters(req) -> Challenges!cleanup(challenge_from_req(req))
          [] OTHER -> UNCHANGED store
     /\ status' \in {status_code(req)} \cup (IF conn[serving].open THEN {} ELSE {None})
  /\ Served

-----------------------------------------------------------------------------
(* DNS.                                                                    *)

\* The datagram at the head of the socket's buffer is received.
Recv ==
  /\ pc = "drain"
  /\ token \in Sockets
  /\ buffer[token] # <<>>

Received == buffer' = [buffer EXCEPT ![token] = Tail(@)]

\* It is left without an answer, and recv is tried again.
Ignored ==
  /\ Received
  /\ status' = None
  /\ UNCHANGED <<store, thread, ready, backlog, stranded, conn, faults>>

IgnoreInvalidAddress ==
  /\ Recv
  /\ ~valid_return_address(Head(buffer[token]).src)
  /\ Ignored
  /\ UNCHANGED limiter

\* handle_dns with a usable source address: the limiter counts the datagram
\* before anything else is looked at.
Counted ==
  /\ Recv
  /\ valid_return_address(Head(buffer[token]).src)
  /\ RateLimiter!increment(Head(buffer[token]).src.ip)

IgnoreBlocked == Counted /\ result' = "Block" /\ Ignored

IgnoreMessage ==
  /\ Counted
  /\ result' = "Ok"
  /\ DontRespond(Head(buffer[token]).message)
  /\ Ignored

\* handle_request makes a response, which handle_dns goes on to send.
Respond(d) ==
  /\ ~DontRespond(d.message)
  /\ ~Panics(d.message)
  /\ response' = [to |-> d.src, message |-> d.message,
                  body |-> handle_request(d.message,
                                          Challenges!named(list, d.message.name),
                                          Challenges!any(list, d.message.name))]
  /\ pc' = "send"
  /\ Received
  /\ status' = None
  /\ UNCHANGED <<store, events, token, serving, ready, backlog, stranded,
                 conn, faults>>

\* Mutant of RespondTo: the verdict of the limiter is not looked at.
RespondToAll == Counted /\ Respond(Head(buffer[token]))

RespondTo == Counted /\ result' = "Ok" /\ Respond(Head(buffer[token]))

\* An index past the end of the message panics.
Panic ==
  /\ Counted
  /\ result' = "Ok"
  /\ Panics(Head(buffer[token]).message)
  /\ pc' = "panic"
  /\ Received
  /\ status' = None
  /\ UNCHANGED <<store, events, token, serving, response, ready, backlog,
                 stranded, conn, faults>>

\* The panic unwinds the only thread there is.
Unwind == pc = "panic" /\ Exit /\ UNCHANGED faults

\* send_to is repeated while it would block, a step that changes nothing; it
\* ends with the response sent or with an error that is logged.
SendTo ==
  /\ pc = "send"
  /\ response' = None
  /\ pc' = "drain"
  /\ status' = None
  /\ UNCHANGED <<store, limiter, events, token, serving, kernel, conn, faults>>

-----------------------------------------------------------------------------
(* The environment.                                                        *)

\* Something arrives at t.
Edge(t) ==
  /\ ready' = IF Registered THEN ready \cup {t} ELSE ready
  /\ stranded' = stranded \ {t}

Connect(c) ==
  /\ Bound
  /\ conn[c] = Idle
  /\ Len(backlog) < BACKLOG
  /\ \E req \in Requests : conn' = [conn EXCEPT ![c] = Connected(req)]
  /\ backlog' = Append(backlog, c)
  /\ Edge(TCP_LISTENER)
  /\ UNCHANGED <<store, limiter, thread, buffer, status, faults>>

\* The bytes of the request go out, some of them or all.
Send(c) ==
  /\ conn[c].open
  /\ \/ /\ conn[c].sent = "none"
        /\ conn' = [conn EXCEPT ![c].sent = "part"]
     \/ /\ conn[c].sent # "all"
        /\ conn' = [conn EXCEPT ![c].sent = "all"]
  /\ UNCHANGED <<store, limiter, thread, kernel, status, faults>>

\* The client gives up: the plugin after a timeout of five seconds.
HangUp(c) ==
  /\ conn[c].open
  /\ conn' = [conn EXCEPT ![c].open = FALSE]
  /\ UNCHANGED <<store, limiter, thread, kernel, status, faults>>

\* A full buffer loses the datagram, a step that changes nothing.
Arrive(s) ==
  /\ Bound
  /\ Len(buffer[s]) < RCVBUF
  /\ \E d \in Datagrams : buffer' = [buffer EXCEPT ![s] = Append(@, d)]
  /\ Edge(s)
  /\ UNCHANGED <<store, limiter, thread, backlog, conn, status, faults>>

\* The wall clock moves, or is set back.
Tick ==
  /\ RateLimiter!AdvanceClock \/ RateLimiter!SetClockBack
  /\ UNCHANGED <<store, thread, kernel, conn, status, faults>>

-----------------------------------------------------------------------------

Init ==
  /\ Challenges!Init
  /\ RateLimiter!Init
  /\ pc = "down"
  /\ events = {}
  /\ token = None
  /\ serving = None
  /\ response = None
  /\ ready = {}
  /\ backlog = <<>>
  /\ buffer = [s \in Sockets |-> <<>>]
  /\ conn = [c \in Conns |-> Idle]
  /\ status = None
  /\ stranded = {}
  /\ faults = 0

\* The steps of the thread.
Step ==
  \/ Bind
  \/ Register
  \/ DoPoll
  \/ NextEvent
  \/ NoMoreEvents
  \/ WouldBlock
  \/ Accept
  \/ PartialRequest
  \/ DroppedRequest
  \/ HandleRequest
  \/ IgnoreInvalidAddress
  \/ IgnoreBlocked
  \/ IgnoreMessage
  \/ RespondTo
  \/ Panic
  \/ Unwind
  \/ SendTo

Failure == Fails \/ DrainFails

Traffic == \E s \in Sockets : Arrive(s)

Clients == \E c \in Conns : Connect(c) \/ Send(c) \/ HangUp(c)

Next == Step \/ Failure \/ Traffic \/ Clients \/ Tick

Spec == Init /\ [][Next]_vars

-----------------------------------------------------------------------------
(* Properties.                                                             *)

\* What the thread has at hand at each place of the loop.
LoopInv ==
  /\ pc \in {"down", "bound", "poll", "dispatch", "drain", "read", "send", "panic"}
  /\ events \subseteq Tokens
  /\ pc \in {"down", "bound", "poll"} => events = {}
  /\ token \in Tokens \cup {None}
  /\ token # None <=> pc \in {"drain", "read", "send", "panic"}
  /\ ready \subseteq Tokens
  /\ stranded \subseteq Tokens
  /\ buffer \in [Sockets -> Seq(Datagrams)]
  /\ backlog \in Seq(Conns)

\* The shape of the state; a connection, a response or an event is at hand when
\* and only when the thread is at a place that uses it (main.rs:96-147).
TypeOK ==
  /\ Challenges!TypeOK
  /\ RateLimiter!TypeOK
  /\ LoopInv
  /\ serving \in Conns \cup {None}
  /\ serving # None <=> pc = "read"
  /\ response # None <=> pc = "send"
  /\ conn \in [Conns -> [req : Requests \cup {None}, sent : Parts, open : BOOLEAN]]
  /\ status \in StatusCode \cup {None}
  /\ faults \in 0..MAX_FAULTS

\* What waits in a queue is never forgotten: an edge for it is still to be
\* reported or handled, or the queue is being drained (main.rs:97-146).  Only
\* a drain that an error has cut short (main.rs:157, 168) leaves connections
\* or datagrams behind until something else arrives.
NoLostWakeup ==
  Registered =>
    \A t \in Tokens : Pending(t) =>
      t \in ready \cup events \cup stranded \cup {token}

\* The answer on its way is to a TXT, SOA or NS query that is processed.
AboutChallenges ==
  /\ pc = "send"
  /\ ReadMessageResult(response.message) = "Process"
  /\ response.message.query_type \in {"TXT", "SOA", "NS"}

Answered == DOMAIN response.body.answers

\* The query on its way asks for the name of c, in whatever spelling.
AsksFor(c) == CaseFold[c.name] = CaseFold[response.message.name]

\* While a response is being sent, however long that takes, it still tells all
\* there is to tell (README, "TXT answers with each challenge value"; README,
\* "any registered ACME challenges"): each challenge that was registered, not
\* deleted and not pushed out by MAX_LEN others is found under any spelling of
\* its name (dns_handler.rs:91-131).
NothingWithheld ==
  AboutChallenges =>
    \A c \in wanted :
      since[c] < MAX_LEN /\ AsksFor(c) =>
        IF response.message.query_type = "TXT"
        THEN \E k \in Answered : response.body.answers[k].value = c.value
        ELSE response.body.rcode = "NoError"

\* And nothing but that: a TXT value, or the NoError of an SOA or NS query,
\* stands for a challenge that is registered now (dns_handler.rs:91-131).
NothingInvented ==
  AboutChallenges =>
    /\ response.body.rcode = "NoError" =>
         \E c \in wanted : AsksFor(c)
    /\ response.message.query_type = "TXT" =>
         \A k \in Answered :
           \E c \in wanted : /\ AsksFor(c)
                             /\ c.value = response.body.answers[k].value

\* A response only goes to an address the limiter has in its table as one that
\* is within its limit, never to one that is blocked or cannot be answered
\* (dns_handler.rs:42-50).
OnlyWithinLimit ==
  pc = "send" =>
    /\ valid_return_address(response.to)
    /\ states[response.to.ip].tag = "KnownSince"

\* The list only changes in a step that writes CREATED or NO_CONTENT, or whose
\* client has hung up before it could be told (http_handler.rs:88-90, 103-104);
\* otherwise the process has ended.
ChangesConfirmed ==
  [][list' # list =>
       \/ status' \in {"CREATED", "NO_CONTENT"}
       \/ pc = "read" /\ ~conn[serving].open
       \/ pc' = "down"]_vars

\* No message makes the process end (dns/mod.rs:46, 79-98: what cannot be read
\* is ignored or answered with FormErr).
NoPanic == pc # "panic"

-----------------------------------------------------------------------------
(* Progress.                                                               *)

\* The thread runs when it can, and a client sends its request or gives up, as
\* the plugin does after five seconds.
Fairness ==
  /\ WF_vars(Step)
  /\ \A c \in Conns : WF_vars(Send(c) \/ HangUp(c))

LiveSpec == Spec /\ Fairness

\* New work stops coming at some time: a queue that is refilled for ever would
\* keep the thread in its drain loop.
Quiet == <>[][~(Traffic \/ \E c \in Conns : Connect(c))]_vars

\* Every datagram that was received by the kernel is handled, on every socket,
\* though a connection may keep the thread waiting (main.rs:109-141).
DatagramsHandled ==
  Quiet => \A s \in Sockets : (buffer[s] # <<>>) ~> (buffer[s] = <<>>)

\* Every client that connects is answered or dropped (main.rs:109-113).
ClientsHandled ==
  Quiet => \A c \in Conns : (conn[c] # Idle) ~> (conn[c] = Idle)
=============================================================================
