------------------------------- MODULE MCServer -------------------------------
(* Small instances of the server: one domain, a challenge name in two      *)
(* spellings, one value for each request that registers.                   *)
EXTENDS ServerPromise

CONSTANTS a1, a2, d1, lower, lowerDot, upper, v1, v2

MCCaseFold == [n \in {lower, upper} |-> lower]
MCTrimDots == [x \in {d1, lower, lowerDot, upper} |-> IF x = lowerDot THEN lower ELSE x]
MCTimes == {0, 4}

\* A request that is well formed, has both headers and goes to /register/.
Registration(method, name, value) ==
  [wellformed |-> TRUE, method |-> method, path |-> "register", domain |-> d1,
   name |-> name, value |-> value]

\* Registrations and deletions, dotted and not; the other requests below.
MCChanges ==
  {Registration("POST", lowerDot, v1), Registration("POST", upper, v2),
   Registration("DELETE", lower, v1)}

\* One registration, its deletion, and what is turned away.
MCRequests ==
  {Registration("POST", lower, v1), Registration("DELETE", lower, v1),
   Registration("PUT", lower, v1), Registration("POST", Missing, v1),
   Registration("DELETE", lower, NotUtf8),
   [Registration("GET", lower, v1) EXCEPT !.path = "root"],
   [Registration("GET", lower, v1) EXCEPT !.path = "elsewhere"],
   [Registration("POST", lower, v1) EXCEPT !.wellformed = FALSE]}

MCHealth == {[Registration("GET", lower, v1) EXCEPT !.path = "root"]}

\* A TXT query for the name that is processed, and the others as changes to it.
Txt == [short |-> FALSE, reply |-> FALSE, opcode |-> "Standard", num_questions |-> 1,
        question |-> "whole", query_type |-> "TXT", acme |-> TRUE, name |-> lower]

Cut == [Txt EXCEPT !.question = "cut"]

From(addr, m) == [src |-> [ip |-> addr, port |-> 1], message |-> m]

MCQueries == {From(a1, Txt), From(a1, [Txt EXCEPT !.query_type = "SOA"])}

MCMessages ==
  {Txt, [Txt EXCEPT !.short = TRUE], [Txt EXCEPT !.reply = TRUE],
   [Txt EXCEPT !.opcode = "Status"], [Txt EXCEPT !.num_questions = 0],
   [Txt EXCEPT !.question = "malformed"], [Txt EXCEPT !.query_type = "other"],
   [Txt EXCEPT !.acme = FALSE], [Txt EXCEPT !.query_type = "NS"],
   [Txt EXCEPT !.query_type = "A"], [Txt EXCEPT !.query_type = "AAAA"]}

MCDatagrams ==
  {From(a1, m) : m \in MCMessages \cup {Cut}}
    \cup {From("unspecified", Txt), [From(a2, Txt) EXCEPT !.src.port = 0]}

\* Datagrams for runs that are not about answers: ignored, and answered.
MCLive == {From("unspecified", Txt), From(a1, [Txt EXCEPT !.query_type = "A"])}

MCCut == {From(a1, Txt), From(a1, Cut)}
=============================================================================
