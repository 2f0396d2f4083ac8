-------------------------------- MODULE Plugin --------------------------------
(***************************************************************************)
(* The certbot plugin, champ.py: one run of certbot asks it to perform a   *)
(* sequence of challenges and, whatever comes of that, to clean them up.   *)
(* certbot itself is external: it cleans up after perform has returned or  *)
(* raised, and DNSAuthenticator's own perform and cleanup call _perform    *)
(* and _cleanup once for each challenge.                                   *)
(*                                                                         *)
(* A request ends with a status code, with a "ConnectionError" (or an      *)
(* HTTPException, which is handled alike) or with a "TimeoutError".        *)
(***************************************************************************)
EXTENDS Naturals, Sequences

CONSTANTS
  Orders,  \* what runs of certbot ask for: sequences of challenges
  None     \* no connection, no reply

VARIABLES
  phase,      \* "idle", "perform", "issued", "cleanup" or "ended"
  order,      \* the challenges of this run
  todo,       \* those _perform or _cleanup still has to be called for
  call,       \* the connection of the request under way
  reply,      \* what has come of it, if anything yet
  confirmed,  \* history: the challenges whose POST was answered with 201
  deleted,    \* history: those whose DELETE was answered with 204
  toredown    \* history: the teardown script has been run

vars == <<phase, order, todo, call, reply, confirmed, deleted, toredown>>

Phases == {"idle", "perform", "issued", "cleanup", "ended"}

Init ==
  /\ phase = "idle"
  /\ order = <<>>
  /\ todo = <<>>
  /\ call = None
  /\ reply = None
  /\ confirmed = {}
  /\ deleted = {}
  /\ toredown = FALSE

\* perform runs the setup script first.  If that raises, nothing is attempted
\* and there will be nothing to clean up but the script's work.
perform ==
  /\ phase = "idle"
  /\ order' \in Orders
  /\ \/ phase' = "perform" /\ todo' = order'
     \/ phase' = "cleanup" /\ todo' = <<>>
  /\ confirmed' = {}
  /\ deleted' = {}
  /\ toredown' = FALSE
  /\ UNCHANGED <<call, reply>>

-----------------------------------------------------------------------------
(* One request.                                                            *)

\* The next request can be made.
Calling == phase \in {"perform", "cleanup"} /\ todo # <<>> /\ call = None

\* POST or DELETE, /register/ and the domain, and the two headers.
Request ==
  [wellformed |-> TRUE,
   method |-> IF phase = "perform" THEN "POST" ELSE "DELETE",
   path |-> "register",
   domain |-> Head(todo).domain, name |-> Head(todo).name, value |-> Head(todo).value]

Connects(c) ==
  /\ Calling
  /\ call' = c
  /\ UNCHANGED <<phase, order, todo, reply, confirmed, deleted, toredown>>

\* Mutant of Closed: the response of one request is kept for the next.
ClosedLeavesReply == call' = None /\ UNCHANGED reply

\* The connection is closed in any case.
Closed == call' = None /\ reply' = None

\* Mutant of _perform: the status is not looked at.
PerformAnyStatus(result) ==
  /\ phase = "perform"
  /\ Closed
  /\ IF result \notin {"ConnectionError", "TimeoutError"}
     THEN /\ todo' = Tail(todo)
          /\ confirmed' = confirmed \cup {Head(todo)}
          /\ UNCHANGED phase
     ELSE /\ phase' = "cleanup"
          /\ todo' = order
          /\ UNCHANGED confirmed
  /\ UNCHANGED <<order, deleted, toredown>>

\* Anything but CREATED makes _perform raise, and certbot clean up.
_perform(result) ==
  /\ phase = "perform"
  /\ Closed
  /\ IF result = "CREATED"
     THEN /\ todo' = Tail(todo)
          /\ confirmed' = confirmed \cup {Head(todo)}
          /\ UNCHANGED phase
     ELSE /\ phase' = "cleanup"
          /\ todo' = order
          /\ UNCHANGED confirmed
  /\ UNCHANGED <<order, deleted, toredown>>

\* Anything but NO_CONTENT is a warning and the next challenge follows; only a
\* TimeoutError, which is neither an HTTPException nor a ConnectionError, leaves
\* _cleanup and with it cleanup.
_cleanup(result) ==
  /\ phase = "cleanup"
  /\ Closed
  /\ IF result = "TimeoutError"
     THEN phase' = "ended" /\ UNCHANGED todo
     ELSE todo' = Tail(todo) /\ UNCHANGED phase
  /\ deleted' = IF result = "NO_CONTENT" THEN deleted \cup {Head(todo)} ELSE deleted
  /\ UNCHANGED <<order, confirmed, toredown>>

Outcome(result) == _perform(result) \/ _cleanup(result)

-----------------------------------------------------------------------------
(* The rest of the run.                                                    *)

\* perform returns, and certbot has the challenges validated.
Performed ==
  /\ phase = "perform"
  /\ todo = <<>>
  /\ phase' = "issued"
  /\ UNCHANGED <<order, todo, call, reply, confirmed, deleted, toredown>>

cleanup ==
  /\ phase = "issued"
  /\ phase' = "cleanup"
  /\ todo' = order
  /\ UNCHANGED <<order, call, reply, confirmed, deleted, toredown>>

\* The teardown script runs once the last _cleanup has returned.
Teardown ==
  /\ phase = "cleanup"
  /\ todo = <<>>
  /\ toredown' = TRUE
  /\ phase' = "ended"
  /\ UNCHANGED <<order, todo, call, reply, confirmed, deleted>>

\* The process ends; certbot may be run again.
Return ==
  /\ phase = "ended"
  /\ phase' = "idle"
  /\ UNCHANGED <<order, todo, call, reply, confirmed, deleted, toredown>>

-----------------------------------------------------------------------------

\* The shape of the state.
TypeOK ==
  /\ phase \in Phases
  /\ order \in Orders \cup {<<>>}
  /\ \E k \in 0..Len(order) : todo = SubSeq(order, k + 1, Len(order))
  /\ reply # None => call # None
  /\ call # None => todo # <<>>
  /\ toredown \in BOOLEAN
=============================================================================
