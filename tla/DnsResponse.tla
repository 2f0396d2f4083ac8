----------------------------- MODULE DnsResponse -----------------------------
(***************************************************************************)
(* From the bytes of a message to the bytes of the response: the header,   *)
(* dns/header.rs; the question, read as DnsQuery has it; the Response that *)
(* response_for_message and handle_request build field by field and answer *)
(* by answer; and what to_bytes writes, dns/response.rs.                   *)
(***************************************************************************)
EXTENDS DnsQuery, SequencesExt

CONSTANTS
  Values,     \* the values of challenges, in bytes
  V4, V6,     \* the bytes of server_ips, or <<>>
  MAX_ANSWERS \* how many values a name has

\* An HTTP head is read into 4096 bytes, and holds the whole of a value
\* (main.rs:95); an address has 4 or 16 bytes.
ASSUME ResponseAssumption ==
  /\ \A v \in Values : v \in Seq(Byte) /\ Len(v) < 4096
  /\ V4 \in Seq(Byte) /\ Len(V4) \in {0, 4}
  /\ V6 \in Seq(Byte) /\ Len(V6) \in {0, 16}
  /\ MAX_ANSWERS \in 0..MAX_U16

QueryType == [A |-> 1, NS |-> 2, SOA |-> 6, TXT |-> 16, AAAA |-> 28]
IsValid(type) == \E t \in DOMAIN QueryType : QueryType[t] = type

ResponseCode == [NoError |-> 0, FormErr |-> 1, NXDomain |-> 3, Refused |-> 5]
IN_CLASS == 1
ANSWER_TTL == 30

VARIABLES
  response,  \* the Response: [transaction_id, recursion_desired, rcode, query,
             \* answers]
  state,     \* "idle", "header", "question", "sent" or "ignored"
  wire       \* the bytes that were sent

rvars == <<vars, response, state, wire>>

-----------------------------------------------------------------------------
(* QueryHeader::from_bytes, on the bytes h.                                *)

transaction_id(h) == u16_at(h, 0)
IsReply(h) == h[3] \div 128 = 1
opcode(h) == (h[3] \div 8) % 16
recursion_desired(h) == h[3] % 2
num_questions(h) == u16_at(h, 4)

-----------------------------------------------------------------------------
(* Response::to_bytes.                                                     *)

u32(n) == u16(n \div 65536) \o u16(n % 65536)

Answer(owner, type, value) == [name |-> owner, query_type |-> type, value |-> value]

\* Mutant of answer_bytes: the length byte of the value is not counted.
AnswerBytesShort(a) ==
  a.name \o u16(a.query_type) \o u16(IN_CLASS) \o u32(ANSWER_TTL)
    \o u16(Len(a.value) - 1) \o a.value

\* Answer::to_bytes
answer_bytes(a) ==
  a.name \o u16(a.query_type) \o u16(IN_CLASS) \o u32(ANSWER_TTL)
    \o u16(Len(a.value)) \o a.value

\* A reply, authoritative, authentic.  The query is a sequence of at most one.
to_bytes(r) ==
  u16(r.transaction_id)
    \o <<128 + 4 + r.recursion_desired, 32 + ResponseCode[r.rcode]>>
    \o u16(Len(r.query)) \o u16(Len(r.answers)) \o u16(0) \o u16(0)
    \o FlattenSeq([k \in DOMAIN r.query |-> query_bytes(r.query[k])])
    \o FlattenSeq([k \in DOMAIN r.answers |-> answer_bytes(r.answers[k])])

-----------------------------------------------------------------------------
(* response_for_message.                                                   *)

\* Response::new
NewResponse(h) ==
  [transaction_id |-> transaction_id(h), recursion_desired |-> recursion_desired(h),
   rcode |-> "NoError", query |-> <<>>, answers |-> <<>>]

\* The message is not looked at while the response is made.
Receive ==
  /\ state = "idle"
  /\ ~IsReply(bytes)
  /\ response' = NewResponse(bytes)
  /\ state' = "header"
  /\ UNCHANGED <<vars, wire>>

Ignore ==
  /\ state = "idle"
  /\ IsReply(bytes)
  /\ state' = "ignored"
  /\ UNCHANGED <<vars, response, wire>>

Send(rcode) ==
  /\ response' = [response EXCEPT !.rcode = rcode]
  /\ state' = "sent"
  /\ wire' = to_bytes(response')
  /\ UNCHANGED vars

\* An early exit with no question in the response.
RefuseOpcode == state = "header" /\ opcode(bytes) # 0 /\ Send("Refused")

\* There is one question, and it is being read.
HasQuestion == state = "header" /\ opcode(bytes) = 0 /\ num_questions(bytes) = 1

ReadQuestion == HasQuestion /\ from_bytes /\ UNCHANGED <<response, state, wire>>

RejectCount ==
  /\ state = "header"
  /\ opcode(bytes) = 0
  /\ num_questions(bytes) # 1
  /\ Send("FormErr")

RejectQuestion ==
  HasQuestion /\ outcome \notin {"Reading", "Ok", "Panic"} /\ Send("FormErr")

TakeQuestion ==
  /\ HasQuestion
  /\ outcome = "Ok"
  /\ response' = [response EXCEPT !.query = <<Query>>]
  /\ state' = "question"
  /\ UNCHANGED <<vars, wire>>

\* The question of this response, and its type.
Question == response.query[1]
Asked(type) == Question.query_type = QueryType[type]

\* Mutant of Processes: the first label is not looked at.
ProcessesAnyName == IsValid(Question.query_type)

Processes == IsValid(Question.query_type) /\ Question.is_acme_challenge

RefuseQuestion ==
  /\ state = "question"
  /\ ~Processes
  /\ Send("Refused")

-----------------------------------------------------------------------------
(* handle_request.                                                         *)

AddAnswer(type, value) ==
  /\ state = "question"
  /\ Processes
  /\ Asked(type)
  /\ response' = [response EXCEPT
                    !.answers = Append(@, Answer(Question.query_name, QueryType[type], value))]
  /\ UNCHANGED <<vars, state, wire>>

\* Mutant of add_txt_answer: the length byte counts itself.
AddTxtAnswerLonger ==
  /\ Len(response.answers) < MAX_ANSWERS
  /\ \E value \in Values : AddAnswer("TXT", u8(Len(value) + 1) \o value)

\* One answer for each value found.
add_txt_answer ==
  /\ Len(response.answers) < MAX_ANSWERS
  /\ \E value \in Values : AddAnswer("TXT", u8(Len(value)) \o value)

Unanswered == response.answers = <<>>

\* The name without its first label.
parent(n) == SubSeq(n, n[1] + 2, Len(n))

add_ns_answer == Unanswered /\ AddAnswer("NS", parent(Question.query_name))

add_soa_answer ==
  /\ Unanswered
  /\ AddAnswer("SOA", Question.query_name \o Question.query_name \o u32(1) \o u32(10800)
                        \o u32(3600) \o u32(604800) \o u32(30))

add_a_answer == Unanswered /\ V4 # <<>> /\ AddAnswer("A", V4)

add_aaaa_answer == Unanswered /\ V6 # <<>> /\ AddAnswer("AAAA", V6)

\* Mutant of Complete: nothing found is no error.
CompleteNoError ==
  /\ state = "question"
  /\ Processes
  /\ Asked("A") => (Unanswered <=> V4 = <<>>)
  /\ Asked("AAAA") => (Unanswered <=> V6 = <<>>)
  /\ Send("NoError")

\* set_rcode_nxdomain if nothing was found, set_rcode_noerror otherwise; for A
\* and AAAA it depends on the address alone.
Complete ==
  /\ state = "question"
  /\ Processes
  /\ Asked("A") => (Unanswered <=> V4 = <<>>)
  /\ Asked("AAAA") => (Unanswered <=> V6 = <<>>)
  /\ Send(IF Unanswered THEN "NXDomain" ELSE "NoError")

-----------------------------------------------------------------------------

\* The response is sent, there is none, or the thread is gone.
Done == (state \in {"sent", "ignored"} \/ outcome = "Panic") /\ UNCHANGED rvars

RInit ==
  /\ Init
  /\ response = NewResponse(bytes)
  /\ state = "idle"
  /\ wire = <<>>

RNext ==
  \/ Receive
  \/ Ignore
  \/ RefuseOpcode
  \/ RejectCount
  \/ ReadQuestion
  \/ RejectQuestion
  \/ TakeQuestion
  \/ RefuseQuestion
  \/ add_txt_answer
  \/ add_ns_answer
  \/ add_soa_answer
  \/ add_a_answer
  \/ add_aaaa_answer
  \/ Complete
  \/ Done

RSpec == RInit /\ [][RNext]_rvars

-----------------------------------------------------------------------------
(* A reader of responses, after RFC 1035: positions count from 1.          *)

\* The position behind the name at p, if it is written out: labels of less than
\* 64 bytes behind their lengths, and a length of 0.  Otherwise 0: a length has
\* its top two bits clear, and to_bytes writes no pointer.
NameEnd[p \in Nat \ {0}] ==
  IF p > Len(wire) THEN 0
  ELSE IF wire[p] = 0 THEN p + 1
  ELSE IF wire[p] < 64 THEN NameEnd[p + wire[p] + 1]
  ELSE 0

\* The record at p, and the position behind it.
RecordAt(p) ==
  LET n == NameEnd[p]
      rdata == n + 10
      next == rdata + u16_at(wire, n + 7)
  IN [answer |-> Answer(SubSeq(wire, p, n - 1), u16_at(wire, n - 1),
                        SubSeq(wire, rdata, next - 1)),
      rdata |-> rdata, next |-> next]

\* There is no question, or the name of the one there is can be read.
QuestionFound == u16_at(wire, 4) = 0 \/ NameEnd[13] # 0

\* The position behind the question, if it is found.
QuestionEnd == IF u16_at(wire, 4) = 0 THEN 13 ELSE NameEnd[13] + 4

\* Where the first record starts, then the one behind it, as many as are counted.
RecordStart[k \in 0..u16_at(wire, 6)] ==
  IF k = 0 THEN QuestionEnd ELSE RecordAt(RecordStart[k - 1]).next

Records == [k \in 1..u16_at(wire, 6) |-> RecordAt(RecordStart[k - 1])]
End == RecordStart[u16_at(wire, 6)]

-----------------------------------------------------------------------------
(* Properties.                                                             *)

Sent == state = "sent"

\* The shape of the state; a response that is sent has answers when and only
\* when its code is NoError.
RTypeOK ==
  /\ TypeOK
  /\ state \in {"idle", "header", "question", "sent", "ignored"}
  /\ response.rcode \in DOMAIN ResponseCode
  /\ wire \in Seq(Byte)
  /\ Sent => (response.rcode = "NoError" <=> response.answers # <<>>)

\* The client recognises the response as the one to its query (response.rs:89-110):
\* same id, same RD, a reply, and the question.  That of a query without pointers
\* is found, and is byte for byte what the client asked.  With pointers it is
\* the name as label_at had it, and it is found when and only when no label has
\* 64 bytes or more: label_at takes any byte for a length (query.rs:124-142).
MatchesQuery ==
  Sent =>
    /\ SubSeq(wire, 1, 2) = SubSeq(bytes, 1, 2)
    /\ IsReply(wire)
    /\ recursion_desired(wire) = recursion_desired(bytes)
    /\ wire[4] % 16 = ResponseCode[response.rcode]
    /\ u16_at(wire, 4) = Len(response.query)
    /\ response.query # <<>> =>
         /\ QuestionFound <=> \A k \in DOMAIN labels : Len(labels[k]) < 64
         /\ QuestionFound => SubSeq(wire, 13, QuestionEnd - 1) = query_bytes(Question)
         /\ ~pointed =>
              /\ QuestionFound
              /\ SubSeq(wire, 13, QuestionEnd - 1) = SubSeq(bytes, 13, QuestionEnd - 1)

\* A client that finds the question finds the answers that were added, each with
\* its name, type and data, and nothing behind them (response.rs:112-118,
\* 151-162).
AnswersReadBack ==
  Sent /\ QuestionFound =>
    /\ [k \in DOMAIN Records |-> Records[k].answer] = response.answers
    /\ End = Len(wire) + 1

\* The data of a TXT answer hold a value behind a length byte, and are one string
\* when and only when the value has at most 255 bytes: the length is cast to a
\* byte.  Those of an NS answer are one whole name, those of an SOA answer two
\* names and five numbers (response.rs:50-87).
DataReadsBack ==
  Sent /\ QuestionFound =>
    \A k \in DOMAIN Records :
      LET r == Records[k] IN
      /\ r.answer.query_type = QueryType.TXT =>
           /\ SubSeq(wire, r.rdata + 1, r.next - 1) \in Values
           /\ r.rdata + 1 + wire[r.rdata] = r.next <=> r.next - r.rdata <= 256
      /\ r.answer.query_type = QueryType.NS => NameEnd[r.rdata] = r.next
      /\ r.answer.query_type = QueryType.SOA => NameEnd[NameEnd[r.rdata]] + 20 = r.next

\* "TXT answers with each challenge value that corresponds to the challenge name"
\* (README.md): the data of each TXT answer are one string, a value.
TextIsValue ==
  Sent /\ QuestionFound =>
    \A k \in DOMAIN Records :
      LET r == Records[k] IN
      r.answer.query_type = QueryType.TXT =>
        /\ r.rdata + 1 + wire[r.rdata] = r.next
        /\ SubSeq(wire, r.rdata + 1, r.next - 1) \in Values
=============================================================================
