---------------------------- MODULE ServerPromise ----------------------------
(* The server implements Champion: its list stands for a set, what is free *)
(* up to MAX_LEN for the places, and the response handle_dns is sending    *)
(* for the answer, if the query was about challenges.                      *)
EXTENDS Server

\* The challenges in the list, whatever their order and their number.
Listed == {list[i] : i \in DOMAIN list}

\* What a client can read from a response about challenges.
Told(r) ==
  [type |-> r.message.query_type, name |-> r.message.name,
   found |-> r.body.rcode = "NoError",
   values |-> IF r.message.query_type = "TXT"
              THEN {r.body.answers[k].value : k \in DOMAIN r.body.answers}
              ELSE {}]

\* The query a response belongs to is one about challenges.
TellsAboutChallenges(r) ==
  /\ r # None
  /\ ReadMessageResult(r.message) = "Process"
  /\ r.message.query_type \in {"TXT", "SOA", "NS"}

Telling == IF TellsAboutChallenges(response) THEN Told(response) ELSE None

Champion ==
  INSTANCE Champion WITH
    Challenge <- Challenges!Challenge,
    running <- pc # "down",
    registry <- Listed,
    places <- MAX_LEN - Len(list),
    answer <- Telling

\* Every step of the loop, of the clients and of the kernel is a step of the
\* abstract server or changes nothing there (main.rs:55-148): registrations and
\* deletions come one at a time, never between an answer and its sending, and
\* each answer is the truth about the list (dns_handler.rs:91-131).
PromiseKept == Champion!Spec
=============================================================================
