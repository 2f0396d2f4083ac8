------------------------------- MODULE Champion -------------------------------
(***************************************************************************)
(* What the server promises, without its sockets, its limiter and its      *)
(* loop: a set of registered challenges of which it forgets one at a time, *)
(* and only when there is no place left, and answers that tell what is     *)
(* registered at the moment they are sent.                                 *)
(***************************************************************************)
EXTENDS Naturals

CONSTANTS
  Challenge,  \* [domain, name, value]
  Names,      \* the names asked for
  CaseFold,   \* a name in lower case
  MAX_LEN,    \* how many registrations there is place for
  None        \* no answer

VARIABLES
  running,   \* the process is there
  registry,  \* the challenges that are registered
  places,    \* the registrations that can be taken before one is forgotten
  answer     \* the answer to a query about challenges that is being sent

vars == <<running, registry, places, answer>>

\* Nothing is registered or deleted while an answer is being sent.
Free == running /\ answer = None

Matching(name) == {c \in registry : CaseFold[c.name] = CaseFold[name]}

\* What is to be said to a query for the name: NoError or NXDomain, and for TXT
\* the values.
Truth(type, name) ==
  [type |-> type, name |-> name, found |-> Matching(name) # {},
   values |-> IF type = "TXT" THEN {c.value : c \in Matching(name)} ELSE {}]

Init ==
  /\ running = FALSE
  /\ registry = {}
  /\ places = MAX_LEN
  /\ answer = None

\* A registration uses up a place, also one that is repeated.  Without a place
\* it may cost one other challenge its registration.
Register(c) ==
  /\ Free
  /\ \/ /\ places > 0
        /\ places' = places - 1
        /\ registry' = registry \cup {c}
     \/ /\ places = 0
        /\ UNCHANGED places
        /\ \E oldest \in Challenge : registry' = (registry \ {oldest}) \cup {c}
  /\ UNCHANGED <<running, answer>>

\* A deletion takes back one challenge, however often it was registered, and no
\* other; it gives back the places.
Delete(c) ==
  /\ Free
  /\ c \in registry
  /\ registry' = registry \ {c}
  /\ places' \in (places + 1)..MAX_LEN
  /\ UNCHANGED <<running, answer>>

Answer(type, name) ==
  /\ Free
  /\ answer' = Truth(type, name)
  /\ UNCHANGED <<running, registry, places>>

Deliver ==
  /\ answer # None
  /\ answer' = None
  /\ UNCHANGED <<running, registry, places>>

Start ==
  /\ ~running
  /\ running' = TRUE
  /\ UNCHANGED <<registry, places, answer>>

\* The process ends; the list was in memory only.
Stop ==
  /\ Free
  /\ running' = FALSE
  /\ registry' = {}
  /\ places' = MAX_LEN
  /\ UNCHANGED answer

Next ==
  \/ \E c \in Challenge : Register(c) \/ Delete(c)
  \/ \E type \in {"TXT", "SOA", "NS"}, name \in Names : Answer(type, name)
  \/ Deliver
  \/ Start
  \/ Stop

Spec == Init /\ [][Next]_vars
=============================================================================
