------------------------------- MODULE DnsQuery -------------------------------
(***************************************************************************)
(* How the question of a DNS message is read, dns/query.rs: the labels of  *)
(* the name one by one, then type and class, then the labels again to put  *)
(* the name together.  Positions count from 0, as in the code.  A byte is  *)
(* a length if its top two bits are clear, and begins a pointer if they    *)
(* are set.                                                                *)
(***************************************************************************)
EXTENDS Naturals, Sequences

CONSTANTS
  MAX_NAME,              \* the longest name: 255
  LowerCase,             \* to_ascii_lowercase, on a byte
  ACME_CHALLENGE_LABEL,  \* in lower case
  Messages               \* the messages that arrive, a header or more

Byte == 0..255

\* u16::MAX
MAX_U16 == 65535

\* QueryHeader::LENGTH
LENGTH == 12

ASSUME QueryAssumption ==
  /\ MAX_NAME \in Byte
  /\ LowerCase \in [Byte -> Byte]
  /\ ACME_CHALLENGE_LABEL \in Seq(Byte) \ {<<>>}
  /\ \A m \in Messages : m \in Seq(Byte) /\ Len(m) >= LENGTH

VARIABLES
  bytes,     \* the message
  cursor,    \* the position of the next label, then of the type
  labels,    \* the labels read so far
  pointed,   \* history: some label was found by a pointer
  question,  \* the type and the class, once they are read
  name,      \* query_name_bytes, while it is put together
  used,      \* how many labels it is made of
  outcome    \* Reading, Ok, an error or Panic

vars == <<bytes, cursor, labels, pointed, question, name, used, outcome>>

Outcomes ==
  {"Reading", "Ok", "TooShort", "TooLong", "InvalidLabelLength",
   "InvalidNameEncoding", "Panic"}

-----------------------------------------------------------------------------

At(pos) == bytes[pos + 1]

\* u16_at indexes two bytes without looking at the length.
Indexes(pos) == pos + 1 < Len(bytes)
u16_at(b, pos) == b[pos + 1] * 256 + b[pos + 2]

\* The bytes of a number; a cast to a narrower one keeps the low bits.
u8(n) == <<n % 256>>
u16(n) == <<(n \div 256) % 256, n % 256>>

\* Mutant of IsLength: any byte that does not begin a pointer is a length.
IsNoPointer(b) == b < 192

IsLength(b) == b < 64
IsPointer(b) == b >= 192

\* label_at finds a whole label at pos, and its bytes.  It does not look at the
\* top bits of the length.
LabelFits(pos) == pos < Len(bytes) /\ pos + 1 + At(pos) <= Len(bytes)
label_at(pos) == SubSeq(bytes, pos + 2, pos + 1 + At(pos))

\* The loop over labels has not ended.
Naming == outcome = "Reading" /\ question = <<>>

\* It goes on: there is a byte, and the last label was not the empty one.
Looping ==
  /\ Naming
  /\ cursor < Len(bytes)
  /\ labels # <<>> => labels[Len(labels)] # <<>>

Ends(result) ==
  /\ outcome' = result
  /\ UNCHANGED <<bytes, cursor, labels, pointed, question, name, used>>

\* A label that is written here.
ReadLabel ==
  /\ Looping
  /\ IsLength(At(cursor))
  /\ LabelFits(cursor)
  /\ labels' = Append(labels, label_at(cursor))
  /\ cursor' = cursor + 1 + At(cursor)
  /\ UNCHANGED <<bytes, pointed, question, name, used, outcome>>

Pointer == u16_at(bytes, cursor) % 16384

\* A label is found at the pointer, and the loop goes on behind the pointer.
Points == Looping /\ IsPointer(At(cursor)) /\ Indexes(cursor)

\* Mutant of FollowPointer: the rest of the name is read from there as well.
FollowPointerOn ==
  /\ Points
  /\ Pointer < cursor
  /\ LabelFits(Pointer)
  /\ labels' = Append(labels, label_at(Pointer))
  /\ cursor' = Pointer + 1 + At(Pointer)
  /\ pointed' = TRUE
  /\ UNCHANGED <<bytes, question, name, used, outcome>>

FollowPointer ==
  /\ Points
  /\ Pointer < cursor
  /\ LabelFits(Pointer)
  /\ labels' = Append(labels, label_at(Pointer))
  /\ cursor' = cursor + 2
  /\ pointed' = TRUE
  /\ UNCHANGED <<bytes, question, name, used, outcome>>

\* A label that is longer than what follows, here or at a pointer.
CutLabel ==
  /\ \/ Looping /\ IsLength(At(cursor)) /\ ~LabelFits(cursor)
     \/ Points /\ Pointer < cursor /\ ~LabelFits(Pointer)
  /\ Ends("TooShort")

\* A pointer that does not point back, and a byte that is neither a length nor
\* part of a pointer.
BadLabel ==
  /\ \/ Points /\ Pointer >= cursor
     \/ Looping /\ ~IsLength(At(cursor)) /\ ~IsPointer(At(cursor))
  /\ Ends("InvalidLabelLength")

\* The second byte of a pointer is missing.
CutPointer ==
  /\ Looping
  /\ IsPointer(At(cursor))
  /\ ~Indexes(cursor)
  /\ Ends("Panic")

-----------------------------------------------------------------------------

NameRead == Naming /\ ~Looping

\* Mutant of ReadTail: a type or class that is missing is 0.
ReadTailLeniently ==
  /\ NameRead
  /\ question' = IF Indexes(cursor + 2) THEN <<u16_at(bytes, cursor), u16_at(bytes, cursor + 2)>> ELSE <<0, 0>>
  /\ UNCHANGED <<bytes, cursor, labels, pointed, name, used, outcome>>

\* The type and the class, read before anything is said of the labels.
ReadTail ==
  /\ NameRead
  /\ Indexes(cursor + 2)
  /\ question' = <<u16_at(bytes, cursor), u16_at(bytes, cursor + 2)>>
  /\ UNCHANGED <<bytes, cursor, labels, pointed, name, used, outcome>>

CutTail == NameRead /\ ~Indexes(cursor + 2) /\ Ends("Panic")

\* The loop that puts the name together is at this label.
Joining == outcome = "Reading" /\ question # <<>> /\ used < Len(labels)
Label == labels[used + 1]

is_ascii(label) == \A i \in DOMAIN label : label[i] < 128

\* Mutant of Fits: a name may not be as long as the limit.
FitsBelow == Len(name) + Len(Label) + 1 < MAX_NAME

Fits == Len(name) + Len(Label) + 1 <= MAX_NAME

\* Mutant of AddLabel: the name is put into lower case.
AddLabelInLowerCase ==
  /\ Joining
  /\ is_ascii(Label)
  /\ Fits
  /\ name' = name \o u8(Len(Label)) \o [i \in DOMAIN Label |-> LowerCase[Label[i]]]
  /\ used' = used + 1
  /\ UNCHANGED <<bytes, cursor, labels, pointed, question, outcome>>

AddLabel ==
  /\ Joining
  /\ is_ascii(Label)
  /\ Fits
  /\ name' = name \o u8(Len(Label)) \o Label
  /\ used' = used + 1
  /\ UNCHANGED <<bytes, cursor, labels, pointed, question, outcome>>

BadEncoding == Joining /\ ~is_ascii(Label) /\ Ends("InvalidNameEncoding")

TooLong == Joining /\ is_ascii(Label) /\ ~Fits /\ Ends("TooLong")

Finish ==
  /\ outcome = "Reading"
  /\ question # <<>>
  /\ used = Len(labels)
  /\ Ends("Ok")

\* What an Ok holds besides the name, the type and the class.
cursor_at_end == cursor + 4

\* Mutant of is_acme_challenge: a longer label will do.
BeginsAcmeChallenge ==
  /\ labels # <<>>
  /\ Len(labels[1]) >= Len(ACME_CHALLENGE_LABEL)
  /\ \A i \in DOMAIN ACME_CHALLENGE_LABEL :
       LowerCase[labels[1][i]] = ACME_CHALLENGE_LABEL[i]

is_acme_challenge ==
  labels # <<>> /\ [i \in DOMAIN labels[1] |-> LowerCase[labels[1][i]]] = ACME_CHALLENGE_LABEL

\* The Query of an Ok, and Query::to_bytes of one.
Query ==
  [query_name |-> name, query_type |-> question[1], query_class |-> question[2],
   is_acme_challenge |-> is_acme_challenge]

query_bytes(q) == q.query_name \o u16(q.query_type) \o u16(q.query_class)

-----------------------------------------------------------------------------

Init ==
  /\ bytes \in Messages
  /\ cursor = LENGTH
  /\ labels = <<>>
  /\ pointed = FALSE
  /\ question = <<>>
  /\ name = <<>>
  /\ used = 0
  /\ outcome = "Reading"

\* Query::from_bytes, step by step.
from_bytes ==
  \/ ReadLabel
  \/ FollowPointer
  \/ CutLabel
  \/ BadLabel
  \/ CutPointer
  \/ ReadTail
  \/ CutTail
  \/ AddLabel
  \/ BadEncoding
  \/ TooLong
  \/ Finish

Spec == Init /\ [][from_bytes]_vars

-----------------------------------------------------------------------------
(* A reader of names, after RFC 1035.                                      *)

\* The position behind the name at p, if it is written out in ASCII: labels of
\* less than 64 bytes behind their lengths, and a length of 0.  Otherwise 0.
PlainEnd[p \in Nat] ==
  IF p >= Len(bytes) THEN 0
  ELSE IF At(p) = 0 THEN p + 1
  ELSE IF /\ At(p) < 64
          /\ p + 1 + At(p) <= Len(bytes)
          /\ \A i \in 1..At(p) : bytes[p + 1 + i] < 128
       THEN PlainEnd[p + 1 + At(p)]
  ELSE 0

-----------------------------------------------------------------------------
(* Properties.                                                             *)

\* The shape of the state, and the limit of a name (query.rs:69).
TypeOK ==
  /\ bytes \in Seq(Byte)
  /\ cursor \in LENGTH..Len(bytes)
  /\ labels \in Seq(Seq(Byte))
  /\ pointed \in BOOLEAN
  /\ question \in {<<>>} \cup (0..MAX_U16) \X (0..MAX_U16)
  /\ name \in Seq(Byte)
  /\ Len(name) <= MAX_NAME
  /\ used \in 0..Len(labels)
  /\ outcome \in Outcomes

\* Each label costs at least a byte of the message, wherever it was found: the
\* reader ends, which is all the more needed as nothing else runs meanwhile
\* (query.rs:32-39, 109-117).
ReadingEnds == Len(labels) <= cursor - LENGTH

\* A name that is read ends with the empty label, and holds no other: one that
\* the message cut short is never taken for whole (query.rs:32-39).
NameIsWhole ==
  outcome = "Ok" =>
    /\ labels # <<>>
    /\ \A k \in DOMAIN labels : labels[k] = <<>> <=> k = Len(labels)

\* Without pointers, the question of the response is byte for byte that of the
\* query (query.rs:92-100): a resolver drops a response to another question.
EchoesQuestion ==
  outcome = "Ok" /\ ~pointed => query_bytes(Query) = SubSeq(bytes, LENGTH + 1, cursor_at_end)

\* Each name that is written out is read whenever a type and a class follow,
\* unless it exceeds the limit, whatever comes after; and without pointers
\* nothing else is read (query.rs:27-86).
NamesAreRead ==
  LET end == PlainEnd[LENGTH] IN
  /\ outcome # "Reading" /\ end # 0 /\ end + 4 <= Len(bytes) =>
       IF end - LENGTH <= MAX_NAME
       THEN outcome = "Ok" /\ name = SubSeq(bytes, LENGTH + 1, end)
       ELSE outcome = "TooLong"
  /\ outcome = "Ok" /\ ~pointed => cursor = end

\* The first label of an ACME query can be taken off by its length byte, and a
\* name is left (response.rs:64-65).
ParentIsName ==
  outcome = "Ok" /\ is_acme_challenge =>
    /\ name[1] = Len(ACME_CHALLENGE_LABEL)
    /\ name[1] + 1 < Len(name)
    /\ name[name[1] + 2] = Len(labels[2])
=============================================================================
