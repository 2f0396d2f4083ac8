------------------------------ MODULE DnsHandler ------------------------------
(***************************************************************************)
(* What the server makes of one DNS message: response_for_message in       *)
(* dns/mod.rs and handle_request in dns_handler.rs.  A message is a record *)
(* of what the two tell apart; how its bytes are read is not modelled      *)
(* here.                                                                   *)
(***************************************************************************)
EXTENDS Sequences, Naturals

CONSTANTS
  QueryNames,  \* the names asked for
  HasIpV4,     \* server_ips.v4 is known
  HasIpV6      \* server_ips.v6 is known

QueryTypes == {"A", "NS", "SOA", "TXT", "AAAA", "other"}

Message ==
  [short : BOOLEAN,                 \* fewer bytes than a header
   reply : BOOLEAN,
   opcode : {"Standard", "Inverse", "Status", "Other"},
   num_questions : 0..2,
   question : {"whole",             \* the name, then a type and a class
               "malformed",         \* Query::from_bytes returns an error
               "cut"},              \* the bytes end in the type, in the class
                                    \* or after the first byte of a pointer
   query_type : QueryTypes,
   acme : BOOLEAN,                  \* the first label is _acme-challenge
   name : QueryNames]

ResponseCode == {"NoError", "FormErr", "NXDomain", "Refused"}

-----------------------------------------------------------------------------
(* response_for_message: the checks in the order of the code.              *)

DontRespond(m) == m.short \/ m.reply

\* u16_at indexes past the end of the message: the thread panics.
Panics(m) ==
  /\ ~DontRespond(m)
  /\ m.opcode = "Standard"
  /\ m.num_questions = 1
  /\ m.question = "cut"

\* The rcode of ReadMessageResult::EarlyExit, or Process.
ReadMessageResult(m) ==
  CASE m.opcode # "Standard" -> "Refused"
    [] m.opcode = "Standard" /\ m.num_questions # 1 -> "FormErr"
    [] m.opcode = "Standard" /\ m.num_questions = 1 /\ m.question = "malformed" -> "FormErr"
    [] m.opcode = "Standard" /\ m.num_questions = 1 /\ m.question # "malformed" ->
         IF m.query_type = "other" \/ ~m.acme THEN "Refused" ELSE "Process"

-----------------------------------------------------------------------------
(* handle_request, given what the list of challenges holds for the name:   *)
(* the values named yields, and whether any finds one.                     *)

Answer(type, value) == [type |-> type, value |-> value]

\* One answer that carries no challenge value, if the condition holds.
AnswerIf(cond, type) == IF cond THEN <<Answer(type, "fixed")>> ELSE <<>>

Answers(m, values, found) ==
  CASE m.query_type = "TXT" -> [k \in DOMAIN values |-> Answer("TXT", values[k])]
    [] m.query_type = "SOA" -> AnswerIf(found, "SOA")
    [] m.query_type = "NS" -> AnswerIf(found, "NS")
    [] m.query_type = "A" -> AnswerIf(HasIpV4, "A")
    [] m.query_type = "AAAA" -> AnswerIf(HasIpV6, "AAAA")

Response(rcode, answers) == [rcode |-> rcode, answers |-> answers]

\* The response to a message that gets one.
handle_request(m, values, found) ==
  LET read == ReadMessageResult(m) IN
  IF read # "Process" THEN Response(read, <<>>)
  ELSE LET answers == Answers(m, values, found) IN
       Response(IF answers = <<>> THEN "NXDomain" ELSE "NoError", answers)

-----------------------------------------------------------------------------

\* Source addresses no answer is sent to: port 0, the unspecified address of
\* either family, and the IPv4 broadcast address.
valid_return_address(src) ==
  src.port # 0 /\ src.ip \notin {"unspecified", "broadcast"}
=============================================================================
