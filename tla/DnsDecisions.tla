----------------------------- MODULE DnsDecisions -----------------------------
(***************************************************************************)
(* That the reader, the response and DnsHandler, which Server builds on,   *)
(* make the same of a message: what becomes of its bytes is what           *)
(* DnsHandler says of the record that stands for them.                     *)
(***************************************************************************)
EXTENDS DnsResponse

Handler == INSTANCE DnsHandler WITH
  QueryNames <- Seq(Byte), HasIpV4 <- V4 # <<>>, HasIpV6 <- V6 # <<>>

TypeName(code) ==
  IF IsValid(code) THEN CHOOSE t \in DOMAIN QueryType : QueryType[t] = code ELSE "other"

\* The message as DnsHandler has it, as far as it has been read.
message ==
  [short |-> FALSE,
   reply |-> IsReply(bytes),
   opcode |-> CASE opcode(bytes) = 0 -> "Standard"
                [] opcode(bytes) = 1 -> "Inverse"
                [] opcode(bytes) = 2 -> "Status"
                [] OTHER -> "Other",
   num_questions |-> IF num_questions(bytes) <= 2 THEN num_questions(bytes) ELSE 2,
   question |-> CASE outcome = "Panic" -> "cut"
                  [] outcome \in {"Reading", "Ok"} -> "whole"
                  [] OTHER -> "malformed",
   query_type |-> IF question = <<>> THEN "other" ELSE TypeName(question[1]),
   acme |-> is_acme_challenge,
   name |-> name]

\* The values that the response tells: the strings of its TXT answers.
ValuesTold ==
  IF message.query_type = "TXT"
  THEN [k \in DOMAIN response.answers |-> Tail(response.answers[k].value)]
  ELSE <<>>

\* The response as DnsHandler has it: of an answer, its type and, if it tells a
\* value, that value.
ResponseTold ==
  Handler!Response(
    response.rcode,
    [k \in DOMAIN response.answers |->
       LET a == response.answers[k] IN
       Handler!Answer(TypeName(a.query_type),
                      IF a.query_type = QueryType.TXT THEN Tail(a.value) ELSE "fixed")])

\* A message is ignored, ends the process or gets a response as DnsHandler has
\* it, and that response is the one that handle_request makes of some values and
\* of whether any were found (dns/mod.rs:42-141, dns_handler.rs:77-143).
DecisionsAgree ==
  /\ message \in Handler!Message
  /\ state = "ignored" => Handler!DontRespond(message)
  /\ outcome = "Panic" => Handler!Panics(message)
  /\ Sent =>
       /\ ~Handler!DontRespond(message)
       /\ ~Handler!Panics(message)
       /\ ValuesTold \in Seq(Values)
       /\ \E found \in BOOLEAN :
            ResponseTold = Handler!handle_request(message, ValuesTold, found)
=============================================================================
