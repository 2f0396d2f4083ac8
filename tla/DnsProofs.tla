------------------------------- MODULE DnsProofs -------------------------------
(***************************************************************************)
(* What holds of the reader of questions for every message, every limit of *)
(* a name up to 255 and every challenge label, and of the responses that   *)
(* are made of what it reads.  The reader is one step of several in        *)
(* DnsResponse: the invariants are proved for its own steps, and every     *)
(* step of DnsResponse is one of those or leaves the reader alone.         *)
(***************************************************************************)
EXTENDS DnsResponse, TLAPS, WellFoundedInduction

\* Induction on the numbers, for a set.
LEMMA NatsInduct ==
  ASSUME NEW S, 0 \in S, \A n \in Nat : n \in S => n + 1 \in S
  PROVE  \A n \in Nat : n \in S
<1> DEFINE T == {n \in Nat : n \notin S}
           R == {ss \in Nat \X Nat : ss[1] < ss[2]}
<1>1. SUFFICES ASSUME T # {} PROVE FALSE
  OBVIOUS
<1>2. T \subseteq Nat
  OBVIOUS
<1>3. IsWellFoundedOn(R, Nat)
  BY NatLessThanWellFounded DEF OpToRel
<1>4. \A x, y \in Nat : x < y => <<x, y>> \in R
  OBVIOUS
<1> HIDE DEF R, T
<1>5. PICK x \in T : \A y \in T : ~ (<<y, x>> \in R)
  BY <1>1, <1>2, <1>3, WFMin
<1>6. x \in Nat /\ x \notin S /\ x # 0
  BY <1>5 DEF T
<1>7. x - 1 \in Nat /\ x - 1 < x
  BY <1>6
<1>8. x - 1 \notin T
  BY <1>4, <1>5, <1>6, <1>7
<1>9. x - 1 \in S
  BY <1>7, <1>8 DEF T
<1> QED
  BY <1>6, <1>7, <1>9

\* The numbers that a byte holds.
LEMMA Bytes == \A b : b \in Byte <=> b \in Nat /\ b <= 255
BY DEF Byte

\* The largest number of 16 bits is a number.
LEMMA MaxU16 == MAX_U16 \in Nat
BY DEF MAX_U16

\* A label that fits is as long as its length byte says, which is one byte.
LEMMA LabelBytes ==
  ASSUME bytes \in Seq(Byte), NEW pos \in Nat, LabelFits(pos)
  PROVE  /\ At(pos) \in Byte
         /\ label_at(pos) \in Seq(Byte)
         /\ Len(label_at(pos)) = At(pos)
         /\ \A i \in 1..At(pos) : label_at(pos)[i] = bytes[pos + 1 + i]
<1>1. pos + 1 \in 1..Len(bytes)
  BY DEF LabelFits
<1>2. At(pos) \in Byte
  BY <1>1 DEF At
<1>3. /\ pos + 2 \in 1..Len(bytes) + 1
      /\ pos + 1 + At(pos) \in (pos + 1)..Len(bytes)
  BY <1>1, <1>2, Bytes DEF LabelFits
<1>4. At(pos) \in Nat
  BY <1>2, Bytes
<1>5. Len(label_at(pos)) = At(pos)
  BY <1>3, <1>4 DEF label_at
<1>6. \A i \in 1..At(pos) : label_at(pos)[i] = bytes[pos + 1 + i]
  BY <1>3, <1>4 DEF label_at
<1>7. label_at(pos) \in Seq(Byte)
  BY <1>3, <1>4 DEF label_at
<1> QED
  BY <1>2, <1>5, <1>6, <1>7

\* Two bytes make a number of 16 bits.
LEMMA Numbers ==
  ASSUME bytes \in Seq(Byte), NEW pos \in Nat, Indexes(pos)
  PROVE  /\ bytes[pos + 1] \in Byte /\ bytes[pos + 2] \in Byte
         /\ u16_at(bytes, pos) \in 0..MAX_U16
<1>1. pos + 1 \in 1..Len(bytes) /\ pos + 2 \in 1..Len(bytes)
  BY DEF Indexes
<1>2. bytes[pos + 1] \in Byte /\ bytes[pos + 2] \in Byte
  BY <1>1
<1>3. /\ bytes[pos + 1] \in Nat /\ bytes[pos + 1] <= 255
      /\ bytes[pos + 2] \in Nat /\ bytes[pos + 2] <= 255
  BY <1>2, Bytes, Zenon
<1>4. \A a, b \in Nat : a <= 255 /\ b <= 255 => a * 256 + b <= MAX_U16
  BY DEF MAX_U16
<1>5. \A a, b \in Nat : a <= 255 /\ b <= 255 => a * 256 + b \in 0..MAX_U16
  <2>1. \A a, b \in Nat : a * 256 + b \in Nat
    OBVIOUS
  <2>2. \A n \in Nat : n <= MAX_U16 => n \in 0..MAX_U16
    BY MaxU16
  <2> QED
    BY <1>4, <2>1, <2>2, Zenon
<1>6. u16_at(bytes, pos) \in 0..MAX_U16
  BY <1>3, <1>5, Zenon DEF u16_at
<1> QED
  BY <1>2, <1>6, Zenon

\* The conjuncts of TypeOK, one by one.
LEMMA Parts ==
  ASSUME TypeOK
  PROVE  /\ bytes \in Seq(Byte)
         /\ cursor \in LENGTH..Len(bytes)
         /\ cursor \in Nat
         /\ labels \in Seq(Seq(Byte))
         /\ name \in Seq(Byte)
         /\ Len(name) <= MAX_NAME
         /\ used \in 0..Len(labels)
         /\ used \in Nat
         /\ outcome \in Outcomes
         /\ pointed \in BOOLEAN
<1>1. bytes \in Seq(Byte) /\ cursor \in LENGTH..Len(bytes)
  BY Zenon DEF TypeOK
<1>2. cursor \in Nat
  BY <1>1 DEF LENGTH
<1>3. labels \in Seq(Seq(Byte)) /\ used \in 0..Len(labels)
  BY Zenon DEF TypeOK
<1>4. used \in Nat
  BY <1>3
<1> QED
  BY <1>1, <1>2, <1>3, <1>4, Zenon DEF TypeOK

\* What a pointer says is a position.
LEMMA PointerIsPosition ==
  ASSUME TypeOK, Indexes(cursor)
  PROVE  Pointer \in Nat
<1>1. u16_at(bytes, cursor) \in 0..MAX_U16
  BY Parts, Numbers, Zenon
<1>2. u16_at(bytes, cursor) \in Nat
  BY <1>1, MaxU16
<1> QED
  BY <1>2 DEF Pointer

-----------------------------------------------------------------------------
(* The shape of the state, and the end of the reading.                     *)

\* A message that has arrived has the shape.
LEMMA TypeInit == Init => TypeOK
<1> SUFFICES ASSUME Init PROVE TypeOK
  OBVIOUS
<1>1. bytes \in Seq(Byte) /\ Len(bytes) >= LENGTH
  BY QueryAssumption DEF Init
<1>2. cursor \in LENGTH..Len(bytes)
  BY <1>1 DEF Init, LENGTH
<1>3. MAX_NAME \in Nat
  BY QueryAssumption, Bytes, Zenon
<1>4. name \in Seq(Byte) /\ Len(name) <= MAX_NAME
  BY <1>3 DEF Init
<1>5. labels \in Seq(Seq(Byte)) /\ used \in 0..Len(labels)
  BY DEF Init
<1>6. outcome \in Outcomes
  BY DEF Init, Outcomes
<1> QED
  BY <1>1, <1>2, <1>4, <1>5, <1>6, Zenon DEF Init, TypeOK

\* Either way to a label adds one, and goes on behind what was read here.
LEMMA LabelIsAdded ==
  ASSUME TypeOK, ReadLabel \/ FollowPointer
  PROVE  \E pos \in Nat :
           /\ LabelFits(pos)
           /\ labels' = Append(labels, label_at(pos))
           /\ cursor' \in (cursor + 1)..Len(bytes)
           /\ cursor' \in Nat
           /\ Looping
           /\ UNCHANGED <<bytes, question, name, used, outcome>>
<1>0. cursor \in Nat /\ cursor \in LENGTH..Len(bytes) /\ bytes \in Seq(Byte)
  BY Parts, Zenon
<1>1. CASE ReadLabel
  <2>1. At(cursor) \in Nat
    BY <1>0, <1>1, LabelBytes, Bytes DEF ReadLabel
  <2>2. cursor' \in (cursor + 1)..Len(bytes) /\ cursor' \in Nat
    BY <1>0, <1>1, <2>1 DEF ReadLabel, LabelFits
  <2> QED
    BY <1>0, <1>1, <2>2 DEF ReadLabel
<1>2. CASE FollowPointer
  <2>1. Pointer \in Nat
    BY <1>2, PointerIsPosition DEF FollowPointer, Points
  <2>2. cursor' \in (cursor + 1)..Len(bytes) /\ cursor' \in Nat
    BY <1>0, <1>2 DEF FollowPointer, Points, Indexes
  <2> QED
    BY <1>2, <2>1, <2>2 DEF FollowPointer, Points
<1> QED
  BY <1>1, <1>2

\* The steps that only give an outcome, which is not Ok.
Gives == CutLabel \/ BadLabel \/ CutPointer \/ CutTail \/ BadEncoding \/ TooLong

\* A step that ends the reading with an error changes nothing else.
LEMMA GivesOutcome ==
  ASSUME Gives
  PROVE  /\ outcome' \in Outcomes \ {"Ok"}
         /\ UNCHANGED <<bytes, cursor, labels, pointed, question, name, used>>
<1> QED
  BY DEF Gives, CutLabel, BadLabel, CutPointer, CutTail, BadEncoding, TooLong, Ends, Outcomes

\* The cases of a step of the reader.
LEMMA Steps ==
  ASSUME [from_bytes]_vars
  PROVE  \/ ReadLabel \/ FollowPointer
         \/ Gives
         \/ ReadTail
         \/ AddLabel
         \/ Finish
         \/ UNCHANGED vars
BY DEF from_bytes, Gives

\* A label that is added to the name has a length of one byte.
LEMMA NameGrows ==
  ASSUME TypeOK, AddLabel
  PROVE  /\ Label \in Seq(Byte)
         /\ used + 1 \in 1..Len(labels)
         /\ name' \in Seq(Byte)
         /\ Len(name') = Len(name) + 1 + Len(Label)
         /\ \A i \in 1..Len(name) : name'[i] = name[i]
         /\ name'[Len(name) + 1] = Len(Label) % 256
         /\ \A i \in 1..Len(Label) : name'[Len(name) + 1 + i] = Label[i]
<1>1. used \in Nat /\ used + 1 \in 1..Len(labels) /\ labels \in Seq(Seq(Byte))
  BY DEF TypeOK, AddLabel, Joining
<1>2. Label \in Seq(Byte)
  BY <1>1 DEF Label
<1>3. Len(Label) \in Nat
  BY <1>2
<1>4. Len(Label) % 256 \in Byte
  BY <1>3, Bytes
<1>5. u8(Len(Label)) \in Seq(Byte) /\ Len(u8(Len(Label))) = 1 /\ u8(Len(Label))[1] = Len(Label) % 256
  BY <1>4 DEF u8
<1>0. name \in Seq(Byte)
  BY Parts
<1>6. name \in Seq(Byte) /\ Len(name) \in Nat
  BY <1>0
<1> DEFINE m == name \o u8(Len(Label))
<1>7. name' = m \o Label
  BY DEF AddLabel
<1>8. /\ m \in Seq(Byte)
      /\ Len(m) = Len(name) + 1
      /\ \A i \in 1..Len(name) : m[i] = name[i]
      /\ \A i \in 1..1 : m[Len(name) + i] = u8(Len(Label))[i]
  <2> DEFINE n == u8(Len(Label))
  <2>0. n \in Seq(Byte)
    BY <1>5
  <2>1. Len(n) = 1
    BY <1>5
  <2> HIDE DEF n
  <2>2. name \o n \in Seq(Byte)
    BY <1>0, <2>0
  <2>5. Len(name \o n) = Len(name) + Len(n)
    BY <1>0, <2>0
  <2>3. \A i \in 1..Len(name) : (name \o n)[i] = name[i]
    BY <1>0, <2>0
  <2>4. \A i \in 1..Len(n) : (name \o n)[Len(name) + i] = n[i]
    BY <1>0, <2>0
  <2> QED
    BY <2>1, <2>2, <2>3, <2>4, <2>5 DEF n
<1> HIDE DEF m
<1>9. m[Len(name) + 1] = Len(Label) % 256
  BY <1>5, <1>8
<1>10. /\ m \o Label \in Seq(Byte)
       /\ Len(m \o Label) = Len(m) + Len(Label)
  BY <1>2, <1>8
<1>11. \A i \in 1..Len(m) : (m \o Label)[i] = m[i]
  BY <1>2, <1>8
<1>12. \A i \in 1..Len(Label) : (m \o Label)[Len(m) + i] = Label[i]
  BY <1>2, <1>8
<1>13. \A i \in 1..Len(name) : name'[i] = name[i]
  BY <1>6, <1>7, <1>8, <1>11
<1>14. name'[Len(name) + 1] = Len(Label) % 256
  BY <1>6, <1>7, <1>8, <1>9, <1>11
<1>15. \A i \in 1..Len(Label) : name'[Len(name) + 1 + i] = Label[i]
  BY <1>7, <1>8, <1>12, Zenon
<1>16. name' \in Seq(Byte) /\ Len(name') = Len(name) + 1 + Len(Label)
  BY <1>7, <1>8, <1>10
<1> QED
  BY <1>1, <1>2, <1>13, <1>14, <1>15, <1>16

\* Each step of the reader keeps the shape.
LEMMA TypeInductive == TypeOK /\ [from_bytes]_vars => TypeOK'
<1> SUFFICES ASSUME TypeOK, [from_bytes]_vars PROVE TypeOK'
  OBVIOUS
<1>0. bytes \in Seq(Byte) /\ labels \in Seq(Seq(Byte)) /\ cursor \in LENGTH..Len(bytes) /\ cursor \in Nat
  BY DEF TypeOK, LENGTH
<1>1. CASE ReadLabel \/ FollowPointer
  <2>1. PICK pos \in Nat :
           /\ LabelFits(pos)
           /\ labels' = Append(labels, label_at(pos))
           /\ cursor' \in (cursor + 1)..Len(bytes)
           /\ UNCHANGED <<bytes, question, name, used, outcome>>
    BY <1>1, LabelIsAdded
  <2>2. label_at(pos) \in Seq(Byte)
    BY <1>0, <2>1, LabelBytes
  <2>3. labels' \in Seq(Seq(Byte)) /\ Len(labels') = Len(labels) + 1
    BY <1>0, <2>1, <2>2
  <2>4. used' \in 0..Len(labels')
    BY <1>0, <2>1, <2>3 DEF TypeOK
  <2>5. cursor' \in LENGTH..Len(bytes')
    BY <1>0, <2>1 DEF LENGTH
  <2>6. pointed' \in BOOLEAN
    BY <1>1 DEF ReadLabel, FollowPointer, TypeOK
  <2> QED
    BY <2>1, <2>3, <2>4, <2>5, <2>6 DEF TypeOK
<1>2. CASE Gives
  BY <1>2, GivesOutcome DEF TypeOK
<1>3. CASE ReadTail
  <2>1. Indexes(cursor) /\ Indexes(cursor + 2)
    BY <1>0, <1>3 DEF ReadTail, Indexes
  <2>2. u16_at(bytes, cursor) \in 0..MAX_U16 /\ u16_at(bytes, cursor + 2) \in 0..MAX_U16
    BY <1>0, <2>1, Numbers
  <2>3. question' \in (0..MAX_U16) \X (0..MAX_U16)
    BY <1>3, <2>2 DEF ReadTail
  <2> QED
    BY <1>3, <2>3 DEF TypeOK, ReadTail
<1>4. CASE AddLabel
  <2>1. name' \in Seq(Byte) /\ Len(name') = Len(name) + 1 + Len(Label) /\ Label \in Seq(Byte)
    BY <1>4, NameGrows
  <2>2. Len(name') <= MAX_NAME
    BY <1>4, <2>1 DEF AddLabel, Fits, TypeOK
  <2>3. used' \in 0..Len(labels')
    BY <1>0, <1>4 DEF TypeOK, AddLabel, Joining
  <2> QED
    BY <1>4, <2>1, <2>2, <2>3 DEF TypeOK, AddLabel
<1>5. CASE Finish
  BY <1>5 DEF Finish, Ends, TypeOK, Outcomes
<1>6. CASE UNCHANGED vars
  BY <1>6 DEF vars, TypeOK
<1> QED
  BY <1>1, <1>2, <1>3, <1>4, <1>5, <1>6, Steps

-----------------------------------------------------------------------------
(* The inductive invariant: what the labels, the question and the name     *)
(* have to do with each other.                                             *)

\* No label but the last is empty.  The question is what stands behind the
\* name, which is complete by then; the name is put together only after that.
Whole ==
  /\ \A k \in 1..(Len(labels) - 1) : labels[k] # <<>>
  /\ question # <<>> =>
       /\ labels # <<>>
       /\ labels[Len(labels)] = <<>>
       /\ cursor + 4 <= Len(bytes)
       /\ question = <<u16_at(bytes, cursor), u16_at(bytes, cursor + 2)>>
  /\ question = <<>> => used = 0
  /\ outcome = "Ok" => question # <<>> /\ used = Len(labels)

Short == \A k \in 1..Len(labels) : Len(labels[k]) <= 255

\* Nothing has been read of a message that has arrived.
LEMMA WholeInit == Init => Whole /\ Short /\ ReadingEnds
BY DEF Init, Whole, Short, ReadingEnds, LENGTH

\* A label is read only if the last one was not empty, and costs a byte at least.
LEMMA WholeInductive ==
  TypeOK /\ Whole /\ Short /\ ReadingEnds /\ [from_bytes]_vars
    => Whole' /\ Short' /\ ReadingEnds'
<1> SUFFICES ASSUME TypeOK, Whole, Short, ReadingEnds, [from_bytes]_vars
             PROVE  Whole' /\ Short' /\ ReadingEnds'
  OBVIOUS
<1>0. /\ bytes \in Seq(Byte) /\ labels \in Seq(Seq(Byte)) /\ cursor \in Nat
      /\ used \in Nat
  BY Parts, Zenon
<1>7. Len(labels) \in Nat
  BY <1>0
<1>8. \A k \in 1..(Len(labels) - 1) : labels[k] # <<>>
  BY Zenon DEF Whole
<1>9. \A k \in 1..Len(labels) : Len(labels[k]) <= 255
  BY Zenon DEF Short
<1>10. Len(labels) <= cursor - LENGTH
  BY Zenon DEF ReadingEnds
<1>1. CASE ReadLabel \/ FollowPointer
  <2>1. PICK pos \in Nat :
           /\ LabelFits(pos)
           /\ labels' = Append(labels, label_at(pos))
           /\ cursor' \in (cursor + 1)..Len(bytes)
           /\ Looping
           /\ UNCHANGED <<bytes, question, name, used, outcome>>
    BY <1>1, LabelIsAdded
  <2>2. label_at(pos) \in Seq(Byte) /\ Len(label_at(pos)) <= 255
    BY <1>0, <2>1, LabelBytes, Bytes, Zenon
  <2> DEFINE l == label_at(pos)
  <2>3. l \in Seq(Byte) /\ Len(l) <= 255 /\ labels' = Append(labels, l)
    BY <2>1, <2>2
  <2> HIDE DEF l
  <2>4. /\ Len(labels') = Len(labels) + 1
        /\ labels'[Len(labels) + 1] = l
        /\ \A k \in 1..Len(labels) : labels'[k] = labels[k]
    BY <1>0, <2>3
  <2>5. question = <<>> /\ outcome = "Reading"
    BY <2>1 DEF Looping, Naming
  <2>6. labels # <<>> => labels[Len(labels)] # <<>>
    BY <2>1 DEF Looping
  <2>7. Len(labels) # 0 => labels # <<>>
    OBVIOUS
  <2>8. \A k \in 1..Len(labels) : labels[k] # <<>>
    BY <1>7, <1>8, <2>6, <2>7
  <2>9. \A k \in 1..(Len(labels') - 1) : labels'[k] # <<>>
    BY <1>7, <2>4, <2>8
  <2>10. Short'
    <3>1. \A k \in 1..Len(labels') : Len(labels'[k]) <= 255
      BY <1>7, <1>9, <2>3, <2>4
    <3> QED
      BY <3>1 DEF Short
  <2>11. ReadingEnds'
    BY <1>0, <1>7, <1>10, <2>1, <2>4 DEF ReadingEnds, LENGTH
  <2>12. used = 0
    BY <2>5 DEF Whole
  <2>13. Whole'
    BY <2>1, <2>5, <2>9, <2>12 DEF Whole
  <2> QED
    BY <2>10, <2>11, <2>13
<1>2. CASE Gives
  <2>1. outcome' # "Ok" /\ UNCHANGED <<bytes, cursor, labels, pointed, question, name, used>>
    BY <1>2, GivesOutcome
  <2> QED
    BY <2>1 DEF Whole, Short, ReadingEnds
<1>3. CASE ReadTail
  <2>1. /\ question = <<>> /\ outcome = "Reading"
        /\ question' = <<u16_at(bytes, cursor), u16_at(bytes, cursor + 2)>>
        /\ UNCHANGED <<bytes, cursor, labels, used, outcome>>
    BY <1>3 DEF ReadTail, NameRead, Naming
  <2>2. cursor + 4 <= Len(bytes)
    BY <1>0, <1>3 DEF ReadTail, Indexes
  <2>3. labels # <<>> /\ labels[Len(labels)] = <<>>
    BY <1>0, <1>3, <2>2 DEF ReadTail, NameRead, Looping
  <2>4. question' # <<>>
    BY <2>1
  <2>5. Whole'
    BY <1>8, <2>1, <2>2, <2>3, <2>4 DEF Whole
  <2> QED
    BY <2>1, <2>5 DEF Short, ReadingEnds
<1>4. CASE AddLabel
  <2>1. question # <<>> /\ outcome = "Reading" /\ UNCHANGED <<bytes, cursor, labels, question, outcome>>
    BY <1>4 DEF AddLabel, Joining
  <2> QED
    BY <2>1 DEF Whole, Short, ReadingEnds
<1>5. CASE Finish
  <2>1. question # <<>> /\ used = Len(labels) /\ UNCHANGED <<bytes, cursor, labels, question, used>>
    BY <1>5 DEF Finish, Ends
  <2> QED
    BY <2>1 DEF Whole, Short, ReadingEnds
<1>6. CASE UNCHANGED vars
  BY <1>6 DEF vars, Whole, Short, ReadingEnds
<1> QED
  BY <1>1, <1>2, <1>3, <1>4, <1>5, <1>6, Steps

\* How the name begins: with the first label, and then the second, each behind
\* its length.
Begins ==
  /\ used = 0 => name = <<>>
  /\ used >= 1 => name[1] = Len(labels[1])
  /\ used = 1 => Len(name) = Len(labels[1]) + 1
  /\ used >= 2 => /\ Len(name) >= Len(labels[1]) + 2
                  /\ name[Len(labels[1]) + 2] = Len(labels[2])

\* Only the first label that is joined changes how the name begins.
LEMMA BeginsInductive ==
  TypeOK /\ Whole /\ Short /\ Begins /\ [from_bytes]_vars => Begins'
<1> SUFFICES ASSUME TypeOK, Whole, Short, Begins, [from_bytes]_vars PROVE Begins'
  OBVIOUS
<1>0. /\ labels \in Seq(Seq(Byte)) /\ used \in Nat /\ used \in 0..Len(labels)
      /\ name \in Seq(Byte)
  BY Parts, Zenon
<1>7. Len(labels) \in Nat /\ Len(name) \in Nat
  BY <1>0
<1>8. \A k \in 1..Len(labels) : Len(labels[k]) \in Nat /\ Len(labels[k]) <= 255
  BY <1>0 DEF Short
<1>1. CASE ReadLabel \/ FollowPointer
  <2>1. Looping /\ UNCHANGED <<name, used>>
    BY <1>1, LabelIsAdded
  <2>2. used = 0
    BY <2>1 DEF Looping, Naming, Whole
  <2> QED
    BY <2>1, <2>2 DEF Begins
<1>2. CASE Gives
  <2>1. UNCHANGED <<labels, name, used>>
    BY <1>2, GivesOutcome
  <2> QED
    BY <2>1 DEF Begins
<1>3. CASE ReadTail
  BY <1>3 DEF ReadTail, Begins
<1>4. CASE AddLabel
  <2>1. UNCHANGED labels /\ used' = used + 1 /\ Label = labels[used + 1]
    BY <1>4 DEF AddLabel, Label
  <2>2. /\ used + 1 \in 1..Len(labels)
        /\ Len(name') = Len(name) + 1 + Len(Label)
        /\ \A i \in 1..Len(name) : name'[i] = name[i]
        /\ name'[Len(name) + 1] = Len(Label) % 256
    BY <1>4, NameGrows
  <2>3. Len(Label) \in Nat /\ Len(Label) <= 255
    BY <1>8, <2>1, <2>2
  <2>4. name'[Len(name) + 1] = Len(Label)
    BY <2>2, <2>3
  <2>5. CASE used = 0
    <3>1. name = <<>> /\ Len(name) = 0
      BY <2>5 DEF Begins
    <3> QED
      BY <2>1, <2>2, <2>3, <2>4, <2>5, <3>1 DEF Begins
  <2>6. CASE used = 1
    <3>1. name[1] = Len(labels[1]) /\ Len(name) = Len(labels[1]) + 1
      BY <2>6 DEF Begins
    <3>2. Len(labels[1]) \in Nat
      BY <1>8, <2>2, <2>6
    <3>3. name'[1] = Len(labels[1])
      BY <1>7, <2>2, <3>1, <3>2
    <3>4. used' = 2 /\ Label = labels[2]
      BY <2>1, <2>6
    <3>5. name'[Len(labels[1]) + 2] = Len(labels[2])
      BY <2>4, <3>1, <3>2, <3>4
    <3>6. Len(name') >= Len(labels[1]) + 2
      BY <2>2, <2>3, <3>1, <3>2
    <3> QED
      BY <2>1, <3>3, <3>4, <3>5, <3>6 DEF Begins
  <2>7. CASE used >= 2
    <3>1. /\ name[1] = Len(labels[1])
          /\ Len(name) >= Len(labels[1]) + 2
          /\ name[Len(labels[1]) + 2] = Len(labels[2])
      BY <1>0, <2>7 DEF Begins
    <3>2. Len(labels[1]) \in Nat
      BY <1>0, <1>8, <2>2, <2>7
    <3>3. name'[1] = Len(labels[1]) /\ name'[Len(labels[1]) + 2] = Len(labels[2])
      BY <1>7, <2>2, <3>1, <3>2
    <3>4. Len(name') >= Len(labels[1]) + 2
      BY <1>7, <2>2, <2>3, <3>1, <3>2
    <3> QED
      BY <1>0, <2>1, <2>7, <3>3, <3>4 DEF Begins
  <2> QED
    BY <1>0, <2>5, <2>6, <2>7
<1>5. CASE Finish
  BY <1>5 DEF Finish, Ends, Begins
<1>6. CASE UNCHANGED vars
  BY <1>6 DEF vars, Begins
<1> QED
  BY <1>1, <1>2, <1>3, <1>4, <1>5, <1>6, Steps

-----------------------------------------------------------------------------
(* The name as it stands in the message.                                   *)

\* p has the positions of the labels, one behind the other, and of what is
\* behind the last.
Starts(p) ==
  /\ p \in [1..(Len(labels) + 1) -> Nat]
  /\ p[1] = LENGTH
  /\ p[Len(labels) + 1] = cursor
  /\ \A k \in 1..Len(labels) :
       /\ p[k] >= LENGTH
       /\ LabelFits(p[k])
       /\ labels[k] = label_at(p[k])
       /\ p[k + 1] = p[k] + 1 + At(p[k])

\* The bytes of the message from its question up to a position.
UpTo(pos) == SubSeq(bytes, LENGTH + 1, pos)

\* Without pointers, the name is a copy of the message as far as it is put
\* together.
Copied == ~pointed => \E p : Starts(p) /\ name = UpTo(p[used + 1])

\* The name is empty, and the first label is expected behind the header.
LEMMA CopiedInit == Init => Copied
<1> SUFFICES ASSUME Init PROVE Copied
  OBVIOUS
<1> DEFINE p == [k \in 1..1 |-> LENGTH]
<1>1. bytes \in Seq(Byte) /\ labels = <<>> /\ name = <<>> /\ used = 0 /\ cursor = LENGTH
  BY QueryAssumption DEF Init
<1>2. Len(labels) = 0
  BY <1>1
<1>3. Starts(p)
  BY <1>1, <1>2 DEF Starts, LENGTH
<1>4. UpTo(LENGTH) = <<>>
  BY <1>1 DEF UpTo, LENGTH
<1>5. p[used + 1] = LENGTH
  BY <1>1
<1> QED
  BY <1>1, <1>3, <1>4, <1>5 DEF Copied

\* A label that is added to a copy makes a longer copy.
LEMMA LongerCopy ==
  ASSUME TypeOK, AddLabel, Short,
         NEW pos \in Nat, pos >= LENGTH, LabelFits(pos),
         Label = label_at(pos), name = UpTo(pos)
  PROVE  name' = UpTo(pos + 1 + At(pos))
<1>0. bytes \in Seq(Byte) /\ name \in Seq(Byte)
  BY Parts, Zenon
<1>1. /\ At(pos) \in Nat /\ At(pos) <= 255
      /\ Len(Label) = At(pos)
      /\ \A i \in 1..At(pos) : Label[i] = bytes[pos + 1 + i]
  BY <1>0, LabelBytes, Bytes, Zenon
<1>2. pos + 1 + At(pos) <= Len(bytes) /\ Len(bytes) \in Nat
  BY <1>0 DEF LabelFits
<1>3. Len(name) = pos - LENGTH /\ \A i \in 1..(pos - LENGTH) : name[i] = bytes[LENGTH + i]
  BY <1>0, <1>1, <1>2 DEF UpTo, LENGTH
<1>4. /\ name' \in Seq(Byte)
      /\ Len(name') = Len(name) + 1 + Len(Label)
      /\ \A i \in 1..Len(name) : name'[i] = name[i]
      /\ name'[Len(name) + 1] = Len(Label) % 256
      /\ \A i \in 1..Len(Label) : name'[Len(name) + 1 + i] = Label[i]
  BY NameGrows
<1>5. name'[pos - LENGTH + 1] = bytes[pos + 1]
  <2>1. Len(Label) % 256 = At(pos)
    BY <1>1
  <2>2. name'[pos - LENGTH + 1] = At(pos)
    BY <1>3, <1>4, <2>1, Zenon
  <2> QED
    BY <2>2, Zenon DEF At
<1>6. \A i \in 1..(pos - LENGTH) : name'[i] = bytes[LENGTH + i]
  BY <1>3, <1>4
<1>7. \A i \in 1..At(pos) : name'[pos - LENGTH + 1 + i] = bytes[pos + 1 + i]
  BY <1>1, <1>3, <1>4
<1> DEFINE n == pos + 1 + At(pos) - LENGTH
<1>8. n \in Nat /\ Len(name') = n
  BY <1>1, <1>3, <1>4 DEF LENGTH
<1>9. \A i \in 1..n : name'[i] = bytes[LENGTH + i]
  <2> SUFFICES ASSUME NEW i \in 1..n PROVE name'[i] = bytes[LENGTH + i]
    OBVIOUS
  <2>1. CASE i <= pos - LENGTH
    BY <1>6, <2>1 DEF LENGTH
  <2>2. CASE i = pos - LENGTH + 1
    BY <1>5, <2>2 DEF LENGTH
  <2>3. CASE i > pos - LENGTH + 1
    <3>1. i - (pos - LENGTH + 1) \in 1..At(pos)
      BY <1>1, <2>3 DEF LENGTH
    <3> QED
      BY <1>7, <3>1 DEF LENGTH
  <2> QED
    BY <2>1, <2>2, <2>3 DEF LENGTH
<1>10. /\ UpTo(pos + 1 + At(pos)) \in Seq(Byte)
       /\ Len(UpTo(pos + 1 + At(pos))) = n
       /\ \A i \in 1..n : UpTo(pos + 1 + At(pos))[i] = bytes[LENGTH + i]
  BY <1>0, <1>1, <1>2 DEF UpTo, LENGTH
<1> DEFINE m == UpTo(pos + 1 + At(pos))
<1> HIDE DEF n, m
<1>11. m \in Seq(Byte) /\ Len(m) = n /\ \A i \in 1..n : m[i] = bytes[LENGTH + i]
  BY <1>10 DEF m
<1>12. name' = m
  BY <1>4, <1>8, <1>9, <1>11
<1> QED
  BY <1>12 DEF m

\* A label that is read is one more position, a label that is joined goes up to the next.
LEMMA CopiedInductive ==
  TypeOK /\ Whole /\ Short /\ Copied /\ [from_bytes]_vars => Copied'
<1> SUFFICES ASSUME TypeOK, Whole, Short, Copied, [from_bytes]_vars, ~pointed'
             PROVE  (\E p : Starts(p) /\ name = UpTo(p[used + 1]))'
  BY DEF Copied
<1>0. /\ bytes \in Seq(Byte) /\ labels \in Seq(Seq(Byte)) /\ cursor \in Nat
      /\ cursor \in LENGTH..Len(bytes) /\ used \in Nat /\ used \in 0..Len(labels)
  BY Parts, Zenon
<1>7. ~pointed
  BY Steps, GivesOutcome DEF ReadLabel, FollowPointer, ReadTail, AddLabel, Finish, Ends, vars
<1>8. PICK p : Starts(p) /\ name = UpTo(p[used + 1])
  BY <1>7 DEF Copied
<1>9. Len(labels) \in Nat
  BY <1>0
<1>10. /\ p \in [1..(Len(labels) + 1) -> Nat]
       /\ p[1] = LENGTH
       /\ p[Len(labels) + 1] = cursor
       /\ \A k \in 1..Len(labels) :
            /\ p[k] >= LENGTH
            /\ LabelFits(p[k])
            /\ labels[k] = label_at(p[k])
            /\ p[k + 1] = p[k] + 1 + At(p[k])
  BY <1>8, Zenon DEF Starts
<1>1. CASE ReadLabel
  <2>1. /\ LabelFits(cursor)
        /\ labels' = Append(labels, label_at(cursor))
        /\ cursor' = cursor + 1 + At(cursor)
        /\ UNCHANGED <<bytes, name, used>>
    BY <1>1, Zenon DEF ReadLabel
  <2>2. label_at(cursor) \in Seq(Byte) /\ At(cursor) \in Nat
    BY <1>0, <2>1, LabelBytes, Bytes, Zenon
  <2>3. /\ Len(labels') = Len(labels) + 1
        /\ labels'[Len(labels) + 1] = label_at(cursor)
        /\ \A k \in 1..Len(labels) : labels'[k] = labels[k]
    <3> DEFINE l == label_at(cursor)
    <3>1. l \in Seq(Byte) /\ labels' = Append(labels, l)
      BY <2>1, <2>2
    <3> HIDE DEF l
    <3>2. /\ Len(labels') = Len(labels) + 1
          /\ labels'[Len(labels) + 1] = l
          /\ \A k \in 1..Len(labels) : labels'[k] = labels[k]
      BY <1>0, <3>1
    <3> QED
      BY <3>2 DEF l
  <2>4. cursor' \in Nat
    BY <1>0, <2>1, <2>2
  <2>5. PICK q \in [1..(Len(labels) + 2) -> Nat] :
           /\ \A k \in 1..(Len(labels) + 1) : q[k] = p[k]
           /\ q[Len(labels) + 2] = cursor'
    <3> DEFINE r == [k \in 1..(Len(labels) + 2) |-> IF k <= Len(labels) + 1 THEN p[k] ELSE cursor']
    <3>1. /\ r \in [1..(Len(labels) + 2) -> Nat]
          /\ \A k \in 1..(Len(labels) + 1) : r[k] = p[k]
          /\ r[Len(labels) + 2] = cursor'
      BY <1>9, <1>10, <2>4
    <3> QED
      BY <3>1, Zenon
  <2>6. \A x : At(x)' = At(x) /\ (LabelFits(x)' <=> LabelFits(x)) /\ label_at(x)' = label_at(x)
    BY <2>1, Zenon DEF At, LabelFits, label_at
  <2>7. ASSUME NEW k \in 1..(Len(labels) + 1)
        PROVE  /\ q[k] >= LENGTH
               /\ LabelFits(q[k])
               /\ labels'[k] = label_at(q[k])
               /\ q[k + 1] = q[k] + 1 + At(q[k])
    <3>1. CASE k \in 1..Len(labels)
      <4>1. q[k] = p[k] /\ q[k + 1] = p[k + 1] /\ labels'[k] = labels[k]
        BY <1>9, <2>3, <2>5, <3>1
      <4> QED
        BY <1>10, <3>1, <4>1, Zenon
    <3>2. CASE k = Len(labels) + 1
      <4>1. q[k] = cursor /\ q[k + 1] = cursor' /\ labels'[k] = label_at(cursor)
        BY <1>9, <1>10, <2>3, <2>5, <3>2
      <4>2. cursor >= LENGTH
        BY <1>0 DEF LENGTH
      <4> QED
        BY <2>1, <4>1, <4>2, Zenon
    <3> QED
      BY <1>9, <3>1, <3>2
  <2>8. q[1] = LENGTH /\ 1 \in 1..(Len(labels) + 1)
    BY <1>9, <1>10, <2>5
  <2>9. Starts(q)'
    <3>1. Len(labels') + 1 = Len(labels) + 2 /\ Len(labels') = Len(labels) + 1
      BY <1>9, <2>3
    <3>2. /\ q \in [1..(Len(labels') + 1) -> Nat]
          /\ q[1] = LENGTH
          /\ q[Len(labels') + 1] = cursor'
      BY <2>5, <2>8, <3>1, Zenon
    <3>3. \A k \in 1..Len(labels') :
            /\ q[k] >= LENGTH
            /\ LabelFits(q[k])'
            /\ labels'[k] = label_at(q[k])'
            /\ q[k + 1] = q[k] + 1 + At(q[k])'
      BY <2>6, <2>7, <3>1, Zenon
    <3>4. LENGTH' = LENGTH
      BY DEF LENGTH
    <3> QED
      BY <3>2, <3>3, <3>4, Zenon DEF Starts
  <2>10. q[used' + 1] = p[used + 1]
    BY <1>0, <1>9, <2>1, <2>5
  <2>11. (name = UpTo(q[used + 1]))'
    BY <1>8, <2>1, <2>10, Zenon DEF UpTo, LENGTH
  <2> QED
    BY <2>9, <2>11, Zenon
<1>2. CASE FollowPointer
  BY <1>2 DEF FollowPointer
<1>3. CASE AddLabel
  <2>1. UNCHANGED <<bytes, cursor, labels>> /\ used' = used + 1
    BY <1>3 DEF AddLabel
  <2>2. used + 1 \in 1..Len(labels) /\ Label = labels[used + 1]
    BY <1>3, NameGrows DEF Label
  <2>3. PICK pos \in Nat : pos = p[used + 1]
    <3>1. p[used + 1] \in Nat
      BY <1>9, <1>10, <2>2
    <3> QED
      BY <3>1, Zenon
  <2>4. pos >= LENGTH /\ LabelFits(pos) /\ Label = label_at(pos) /\ name = UpTo(pos)
    BY <1>8, <1>10, <2>2, <2>3, Zenon
  <2>5. p[used' + 1] = pos + 1 + At(pos)
    BY <1>10, <2>1, <2>2, <2>3, Zenon
  <2>6. name' = UpTo(pos + 1 + At(pos))
    BY <1>3, <2>4, LongerCopy, Zenon
  <2>7. Starts(p)'
    BY <1>8, <2>1, Zenon DEF Starts, At, LabelFits, label_at, LENGTH
  <2>8. (name = UpTo(p[used + 1]))'
    BY <2>1, <2>5, <2>6, Zenon DEF UpTo, LENGTH
  <2> QED
    BY <2>7, <2>8, Zenon
<1>4. CASE UNCHANGED <<bytes, cursor, labels, name, used>>
  <2>1. Starts(p)'
    BY <1>4, <1>8, Zenon DEF Starts, At, LabelFits, label_at, LENGTH
  <2>2. (name = UpTo(p[used + 1]))'
    BY <1>4, <1>8, Zenon DEF UpTo, LENGTH
  <2> QED
    BY <2>1, <2>2
<1>5. ReadLabel \/ FollowPointer \/ AddLabel \/ UNCHANGED <<bytes, cursor, labels, name, used>>
  BY Steps, GivesOutcome, Zenon DEF ReadTail, Finish, Ends, vars
<1> QED
  BY <1>1, <1>2, <1>3, <1>4, <1>5

\* The two bytes of a number are those that were read.
LEMMA BytesBack ==
  ASSUME bytes \in Seq(Byte), NEW pos \in Nat, Indexes(pos)
  PROVE  u16(u16_at(bytes, pos)) = <<bytes[pos + 1], bytes[pos + 2]>>
<1>1. /\ bytes[pos + 1] \in Nat /\ bytes[pos + 1] <= 255
      /\ bytes[pos + 2] \in Nat /\ bytes[pos + 2] <= 255
  BY Numbers, Bytes, Zenon
<1>2. \A a, b \in Nat : a <= 255 /\ b <= 255 =>
        ((a * 256 + b) \div 256) % 256 = a /\ (a * 256 + b) % 256 = b
  OBVIOUS
<1> DEFINE a == bytes[pos + 1]
           b == bytes[pos + 2]
<1>3. u16(u16_at(bytes, pos)) = <<((a * 256 + b) \div 256) % 256, (a * 256 + b) % 256>>
  BY DEF u16, u16_at
<1> HIDE DEF a, b
<1>4. ((a * 256 + b) \div 256) % 256 = a /\ (a * 256 + b) % 256 = b
  BY <1>1, <1>2 DEF a, b
<1>5. u16(u16_at(bytes, pos)) = <<a, b>>
  BY <1>3, <1>4
<1> QED
  BY <1>5 DEF a, b

\* What is where in a concatenation.
LEMMA Joined ==
  \A s, t \in Seq(Byte) :
    /\ s \o t \in Seq(Byte)
    /\ Len(s \o t) = Len(s) + Len(t)
    /\ \A i \in 1..Len(s) : (s \o t)[i] = s[i]
    /\ \A i \in 1..Len(t) : (s \o t)[Len(s) + i] = t[i]
OBVIOUS

\* A sequence with two more bytes behind it.
LEMMA Appended ==
  ASSUME NEW s \in Seq(Byte), NEW t \in Seq(Byte), NEW n \in Nat, Len(s) = n, Len(t) = 2
  PROVE  /\ s \o t \in Seq(Byte)
         /\ Len(s \o t) = n + 2
         /\ \A i \in 1..n : (s \o t)[i] = s[i]
         /\ (s \o t)[n + 1] = t[1]
         /\ (s \o t)[n + 2] = t[2]
<1> DEFINE u == s \o t
<1>3. /\ u \in Seq(Byte)
      /\ Len(u) = Len(s) + Len(t)
      /\ \A i \in 1..Len(s) : u[i] = s[i]
      /\ \A i \in 1..Len(t) : u[Len(s) + i] = t[i]
  BY Joined
<1> HIDE DEF u
<1>1. /\ u \in Seq(Byte)
      /\ Len(u) = n + 2
      /\ \A i \in 1..n : u[i] = s[i]
      /\ \A i \in 1..2 : u[n + i] = t[i]
  BY <1>3, Zenon
<1>2. 1 \in 1..2 /\ 2 \in 1..2
  OBVIOUS
<1> QED
  BY <1>1, <1>2, Zenon DEF u

\* Two sequences with the same bytes are one.
LEMMA SameBytes ==
  ASSUME NEW s \in Seq(Byte), NEW t \in Seq(Byte), NEW n, Len(s) = n, Len(t) = n,
         \A i \in 1..n : s[i] = t[i]
  PROVE  s = t
OBVIOUS

\* Without pointers, what is echoed is what the message has.
LEMMA CopyIsWhole ==
  TypeOK /\ Whole /\ Copied => EchoesQuestion
<1> SUFFICES ASSUME TypeOK, Whole, Copied, outcome = "Ok", ~pointed
             PROVE  query_bytes(Query) = SubSeq(bytes, LENGTH + 1, cursor_at_end)
  BY DEF EchoesQuestion
<1>0. /\ bytes \in Seq(Byte) /\ name \in Seq(Byte) /\ cursor \in Nat
      /\ cursor \in LENGTH..Len(bytes) /\ used \in Nat
  BY Parts, Zenon
<1>1. /\ used = Len(labels)
      /\ cursor + 4 <= Len(bytes)
      /\ question = <<u16_at(bytes, cursor), u16_at(bytes, cursor + 2)>>
  BY DEF Whole
<1>2. name = UpTo(cursor)
  BY <1>1 DEF Copied, Starts
<1>3. Indexes(cursor) /\ Indexes(cursor + 2) /\ cursor + 2 \in Nat
  BY <1>0, <1>1 DEF Indexes
<1>4. /\ u16(question[1]) = <<bytes[cursor + 1], bytes[cursor + 2]>>
      /\ u16(question[2]) = <<bytes[cursor + 2 + 1], bytes[cursor + 2 + 2]>>
  BY <1>0, <1>1, <1>3, BytesBack
<1>5. /\ bytes[cursor + 1] \in Byte /\ bytes[cursor + 2] \in Byte
      /\ bytes[cursor + 2 + 1] \in Byte /\ bytes[cursor + 2 + 2] \in Byte
  BY <1>0, <1>3, Numbers
<1> DEFINE n == cursor - LENGTH
           t == u16(question[1])
           c == u16(question[2])
<1>6. /\ t \in Seq(Byte) /\ Len(t) = 2 /\ t[1] = bytes[cursor + 1] /\ t[2] = bytes[cursor + 2]
      /\ c \in Seq(Byte) /\ Len(c) = 2 /\ c[1] = bytes[cursor + 3] /\ c[2] = bytes[cursor + 4]
  BY <1>0, <1>4, <1>5
<1>7. n \in Nat /\ cursor = LENGTH + n /\ LENGTH \in Nat
  BY <1>0 DEF LENGTH
<1>8. Len(name) = n /\ \A i \in 1..n : name[i] = bytes[LENGTH + i]
  BY <1>0, <1>2 DEF UpTo, LENGTH
<1>9. query_bytes(Query) = name \o t \o c
  BY DEF query_bytes, Query
<1> HIDE DEF t, c
<1>10. /\ name \o t \in Seq(Byte)
       /\ Len(name \o t) = n + 2
       /\ \A i \in 1..n : (name \o t)[i] = bytes[LENGTH + i]
       /\ (name \o t)[n + 1] = bytes[LENGTH + n + 1]
       /\ (name \o t)[n + 2] = bytes[LENGTH + n + 2]
  <2>1. /\ name \o t \in Seq(Byte)
        /\ Len(name \o t) = n + 2
        /\ \A i \in 1..n : (name \o t)[i] = name[i]
        /\ (name \o t)[n + 1] = t[1]
        /\ (name \o t)[n + 2] = t[2]
    <3>1. name \in Seq(Byte) /\ t \in Seq(Byte) /\ n \in Nat /\ Len(name) = n /\ Len(t) = 2
      BY <1>0, <1>6, <1>7, <1>8, Zenon
    <3> QED
      BY <3>1, Appended, Zenon
  <2> QED
    BY <1>6, <1>7, <1>8, <2>1, Zenon
<1> DEFINE m == name \o t
<1> HIDE DEF n, m
<1>11. /\ m \in Seq(Byte)
       /\ Len(m) = n + 2
       /\ \A i \in 1..n : m[i] = bytes[LENGTH + i]
       /\ m[n + 1] = bytes[LENGTH + n + 1]
       /\ m[n + 2] = bytes[LENGTH + n + 2]
  BY <1>10 DEF m
<1>12. /\ m \o c \in Seq(Byte)
       /\ Len(m \o c) = n + 2 + 2
       /\ \A i \in 1..(n + 2) : (m \o c)[i] = m[i]
       /\ (m \o c)[n + 2 + 1] = c[1]
       /\ (m \o c)[n + 2 + 2] = c[2]
  <2> DEFINE k == n + 2
  <2>1. k \in Nat /\ Len(m) = k
    BY <1>7, <1>11
  <2>3. m \in Seq(Byte) /\ c \in Seq(Byte) /\ Len(c) = 2
    BY <1>6, <1>11, Zenon
  <2> HIDE DEF k
  <2>2. /\ m \o c \in Seq(Byte)
        /\ Len(m \o c) = k + 2
        /\ \A i \in 1..k : (m \o c)[i] = m[i]
        /\ (m \o c)[k + 1] = c[1]
        /\ (m \o c)[k + 2] = c[2]
    BY <2>1, <2>3, Appended, Zenon
  <2> QED
    BY <2>2 DEF k
<1>15. \A i \in 1..(n + 4) : (m \o c)[i] = bytes[LENGTH + i]
  <2>1. (m \o c)[n + 3] = bytes[LENGTH + n + 3] /\ (m \o c)[n + 4] = bytes[LENGTH + n + 4]
    <3>1. /\ n + 3 = n + 2 + 1 /\ n + 4 = n + 2 + 2
          /\ cursor + 3 = LENGTH + n + 3 /\ cursor + 4 = LENGTH + n + 4
      BY <1>7
    <3> QED
      BY <1>6, <1>12, <3>1, Zenon
  <2> SUFFICES ASSUME NEW i \in 1..(n + 4) PROVE (m \o c)[i] = bytes[LENGTH + i]
    OBVIOUS
  <2>2. i \in 1..n \/ i = n + 1 \/ i = n + 2 \/ i = n + 3 \/ i = n + 4
    BY <1>7
  <2>3. i \in 1..n => i \in 1..(n + 2)
    BY <1>7
  <2>4. n + 1 \in 1..(n + 2) /\ n + 2 \in 1..(n + 2)
    BY <1>7
  <2>5. LENGTH + (n + 1) = LENGTH + n + 1 /\ LENGTH + (n + 2) = LENGTH + n + 2
        /\ LENGTH + (n + 3) = LENGTH + n + 3 /\ LENGTH + (n + 4) = LENGTH + n + 4
    BY <1>7
  <2> QED
    BY <1>11, <1>12, <2>1, <2>2, <2>3, <2>4, <2>5, Zenon
<1> DEFINE e == SubSeq(bytes, LENGTH + 1, LENGTH + n + 4)
<1>16. e \in Seq(Byte) /\ Len(e) = n + 4 /\ \A i \in 1..(n + 4) : e[i] = bytes[LENGTH + i]
  BY <1>0, <1>1, <1>7
<1> HIDE DEF e
<1>17. m \o c \in Seq(Byte) /\ Len(m \o c) = n + 4
  BY <1>7, <1>12
<1>18. m \o c = e
  <2>1. \A i \in 1..(n + 4) : (m \o c)[i] = e[i]
    BY <1>15, <1>16, Zenon
  <2> QED
    BY <1>16, <1>17, <2>1, SameBytes, Zenon
<1> QED
  BY <1>7, <1>9, <1>18 DEF m, e, cursor_at_end

-----------------------------------------------------------------------------
(* The theorems about the reader.                                          *)

ReaderInv == TypeOK /\ Whole /\ Short /\ ReadingEnds /\ Begins /\ Copied

\* The inductive invariant of the reader holds of a message that has arrived.
LEMMA ReaderInit == Init => ReaderInv
<1>1. Init => Begins
  BY DEF Init, Begins
<1> QED
  BY <1>1, TypeInit, WholeInit, CopiedInit DEF ReaderInv

\* Each step of the reader keeps it.
LEMMA ReaderInductive == ReaderInv /\ [from_bytes]_vars => ReaderInv'
BY TypeInductive, WholeInductive, BeginsInductive, CopiedInductive DEF ReaderInv

\* It always holds.
LEMMA ReaderCorrect == Spec => []ReaderInv
BY ReaderInit, ReaderInductive, PTL DEF Spec

\* The first label of the name of an ACME query is not the empty one, and so
\* there is a second.
LEMMA AcmeHasParent ==
  ReaderInv => ParentIsName
<1> SUFFICES ASSUME ReaderInv, outcome = "Ok", is_acme_challenge
             PROVE  /\ name[1] = Len(ACME_CHALLENGE_LABEL)
                    /\ name[1] + 1 < Len(name)
                    /\ name[name[1] + 2] = Len(labels[2])
  BY DEF ParentIsName
<1>0. TypeOK /\ Whole /\ Begins
  BY DEF ReaderInv
<1>1. labels \in Seq(Seq(Byte)) /\ used \in Nat
  BY <1>0, Parts, Zenon
<1>2. used = Len(labels) /\ labels # <<>> /\ labels[Len(labels)] = <<>>
  BY <1>0 DEF Whole
<1>3. [i \in DOMAIN labels[1] |-> LowerCase[labels[1][i]]] = ACME_CHALLENGE_LABEL
  BY DEF is_acme_challenge
<1>4. ACME_CHALLENGE_LABEL \in Seq(Byte) /\ ACME_CHALLENGE_LABEL # <<>>
  BY QueryAssumption, Zenon
<1>5. labels[1] \in Seq(Byte)
  BY <1>1, <1>2
<1>6. DOMAIN labels[1] = DOMAIN ACME_CHALLENGE_LABEL
  BY <1>3, Zenon
<1>7. Len(labels[1]) = Len(ACME_CHALLENGE_LABEL)
  BY <1>4, <1>5, <1>6
<1>8. labels[1] # <<>>
  BY <1>4, <1>5, <1>7
<1>9. used >= 2
  BY <1>1, <1>2, <1>8
<1>10. /\ name[1] = Len(labels[1])
       /\ Len(name) >= Len(labels[1]) + 2
       /\ name[Len(labels[1]) + 2] = Len(labels[2])
  BY <1>0, <1>1, <1>9 DEF Begins
<1>11. Len(labels[1]) \in Nat /\ Len(name) \in Nat
  BY <1>0, <1>5, Parts
<1> QED
  BY <1>7, <1>10, <1>11

\* A name that is taken is whole.
LEMMA OkIsWhole == ReaderInv => NameIsWhole
<1> SUFFICES ASSUME ReaderInv, outcome = "Ok"
             PROVE  /\ labels # <<>>
                    /\ \A k \in DOMAIN labels : labels[k] = <<>> <=> k = Len(labels)
  BY DEF NameIsWhole
<1>1. labels \in Seq(Seq(Byte))
  BY Parts, Zenon DEF ReaderInv
<1>2. /\ labels # <<>> /\ labels[Len(labels)] = <<>>
      /\ \A k \in 1..(Len(labels) - 1) : labels[k] # <<>>
  BY DEF ReaderInv, Whole
<1>3. DOMAIN labels = 1..Len(labels) /\ Len(labels) \in Nat
  BY <1>1
<1> QED
  BY <1>2, <1>3

\* Nothing but the reader touches its state.
LEMMA ReaderStep == [RNext]_rvars => [from_bytes]_vars
BY DEF RNext, rvars, Receive, Ignore, RefuseOpcode, RejectCount, ReadQuestion, RejectQuestion,
       TakeQuestion, RefuseQuestion, add_txt_answer, add_ns_answer, add_soa_answer,
       add_a_answer, add_aaaa_answer, Complete, Done, AddAnswer, Send

\* What becomes of a message is, for the reader, nothing but its own steps.
LEMMA ReaderSteps == RSpec => Spec
<1>1. RInit => Init
  BY DEF RInit
<1> QED
  BY <1>1, ReaderStep, PTL DEF RSpec, Spec

\* Whatever the message, the reader takes a byte of it for every label it
\* finds, pointers or not: it ends.
THEOREM ReadingDoesEnd == RSpec => []ReadingEnds
<1>1. ReaderInv => ReadingEnds
  BY DEF ReaderInv
<1> QED
  BY <1>1, ReaderSteps, ReaderCorrect, PTL

\* A name that is taken has all of its labels, of a message that may end
\* anywhere.
THEOREM NamesAreWhole == RSpec => []NameIsWhole
BY OkIsWhole, ReaderSteps, ReaderCorrect, PTL

\* The question of a query without pointers is echoed byte for byte, whatever
\* its labels, its type and its class are.
THEOREM QuestionIsEchoed == RSpec => []EchoesQuestion
<1>1. ReaderInv => EchoesQuestion
  BY CopyIsWhole DEF ReaderInv
<1> QED
  BY <1>1, ReaderSteps, ReaderCorrect, PTL

\* An NS answer can be made of the name of every query that is let through to
\* it: there is a name behind its first label.
THEOREM ParentsAreNames == RSpec => []ParentIsName
BY AcmeHasParent, ReaderSteps, ReaderCorrect, PTL

\* The shape of the reader's state, and the limit of a name.
THEOREM ReaderTypeCorrect == RSpec => []TypeOK
<1>1. ReaderInv => TypeOK
  BY DEF ReaderInv
<1> QED
  BY <1>1, ReaderSteps, ReaderCorrect, PTL

-----------------------------------------------------------------------------
(* The code of a response.                                                 *)

IsResponse(r) ==
  r = [transaction_id |-> r.transaction_id, recursion_desired |-> r.recursion_desired,
       rcode |-> r.rcode, query |-> r.query, answers |-> r.answers]

IsSequence(a) == \E S : a \in Seq(S)

\* What is left alone when one field of a response is set.
LEMMA CodeIsSet ==
  ASSUME NEW r, NEW x, NEW s, IsResponse(r), s = [r EXCEPT !.rcode = x]
  PROVE  /\ IsResponse(s)
         /\ s.rcode = x
         /\ s.transaction_id = r.transaction_id /\ s.recursion_desired = r.recursion_desired
         /\ s.query = r.query /\ s.answers = r.answers
BY DEF IsResponse

\* The same, of the question.
LEMMA QueryIsSet ==
  ASSUME NEW r, NEW x, NEW s, IsResponse(r), s = [r EXCEPT !.query = x]
  PROVE  /\ IsResponse(s)
         /\ s.query = x
         /\ s.transaction_id = r.transaction_id /\ s.recursion_desired = r.recursion_desired
         /\ s.rcode = r.rcode /\ s.answers = r.answers
BY DEF IsResponse

\* The same, of the answers.
LEMMA AnswersAreSet ==
  ASSUME NEW r, NEW x, NEW s, IsResponse(r), s = [r EXCEPT !.answers = x]
  PROVE  /\ IsResponse(s)
         /\ s.answers = x
         /\ s.transaction_id = r.transaction_id /\ s.recursion_desired = r.recursion_desired
         /\ s.rcode = r.rcode /\ s.query = r.query
BY DEF IsResponse

\* No answers are a sequence of them.
LEMMA EmptyIsSequence == IsSequence(<<>>)
<1>1. <<>> \in Seq({})
  OBVIOUS
<1> QED
  BY <1>1, Zenon DEF IsSequence

\* Each answer of a longer sequence is the new one or one of the old ones.
LEMMA OneIsAppended ==
  ASSUME NEW a, NEW x, IsSequence(a)
  PROVE  /\ IsSequence(Append(a, x))
         /\ Append(a, x) # <<>>
         /\ \A k \in DOMAIN Append(a, x) :
              Append(a, x)[k] = x \/ (k \in DOMAIN a /\ Append(a, x)[k] = a[k])
<1>1. PICK S : a \in Seq(S)
  BY DEF IsSequence
<1> DEFINE b == Append(a, x)
           n == Len(a)
<1>2. a \in Seq(S \cup {x})
  BY <1>1
<1>3. /\ b \in Seq(S \cup {x})
      /\ b # <<>>
      /\ DOMAIN b = 1..(n + 1)
      /\ b[n + 1] = x
      /\ \A k \in 1..n : b[k] = a[k]
  BY <1>2
<1>4. DOMAIN a = 1..n /\ n \in Nat
  BY <1>2
<1> HIDE DEF b, n
<1>5. \A k \in 1..(n + 1) : k = n + 1 \/ k \in 1..n
  BY <1>4
<1>6. \A k \in DOMAIN b : b[k] = x \/ (k \in DOMAIN a /\ b[k] = a[k])
  <2> SUFFICES ASSUME NEW k \in 1..(n + 1) PROVE b[k] = x \/ (k \in 1..n /\ b[k] = a[k])
    BY <1>3, <1>4
  <2>1. CASE k = n + 1
    <3>1. b[k] = b[n + 1]
      BY <2>1
    <3>2. b[n + 1] = x
      BY <1>3, Zenon
    <3> QED
      BY <3>1, <3>2
  <2>2. CASE k \in 1..n
    BY <1>3, <2>2
  <2> QED
    BY <1>5, <2>1, <2>2
<1> QED
  BY <1>3, <1>6 DEF b, IsSequence

\* The response is that to the message: its id and its flag, its question if it
\* has one, and answers only to a valid question for a challenge, each of the
\* name and the type that are asked for.  Its code is NoError if it is sent
\* with an answer, and only then.
Responds ==
  /\ response.transaction_id = transaction_id(bytes)
  /\ response.recursion_desired = recursion_desired(bytes)
  /\ response.rcode \in DOMAIN ResponseCode
  /\ response.query # <<>> => outcome = "Ok" /\ response.query = <<Query>>
  /\ response.answers # <<>> => response.query # <<>> /\ Processes
  /\ \A k \in DOMAIN response.answers :
       /\ response.answers[k].name = Question.query_name
       /\ response.answers[k].query_type = Question.query_type
  /\ Sent => (response.rcode = "NoError" <=> response.answers # <<>>)

ResponseInv ==
  /\ IsResponse(response)
  /\ IsSequence(response.answers)
  /\ Responds
  /\ state \in {"idle", "header", "question", "sent", "ignored"}
  /\ state \in {"idle", "header", "ignored"} => response.query = <<>> /\ response.answers = <<>>
  /\ state = "question" => response.query # <<>>

\* The codes that a response can have.
LEMMA Codes == DOMAIN ResponseCode = {"NoError", "FormErr", "NXDomain", "Refused"}
BY DEF ResponseCode

\* What Response::new leaves.
LEMMA NewIsResponse ==
  /\ IsResponse(NewResponse(bytes))
  /\ NewResponse(bytes).transaction_id = transaction_id(bytes)
  /\ NewResponse(bytes).recursion_desired = recursion_desired(bytes)
  /\ NewResponse(bytes).rcode \in DOMAIN ResponseCode
  /\ NewResponse(bytes).query = <<>>
  /\ NewResponse(bytes).answers = <<>>
BY Codes DEF NewResponse, IsResponse

\* No response has been made at first.
LEMMA ResponseInit == RInit => ResponseInv
<1> SUFFICES ASSUME RInit PROVE ResponseInv
  OBVIOUS
<1>1. response = NewResponse(bytes) /\ state = "idle"
  BY DEF RInit
<1>2. DOMAIN <<>> = {}
  OBVIOUS
<1> QED
  BY <1>1, <1>2, EmptyIsSequence, NewIsResponse DEF ResponseInv, Responds, Sent

\* A response that is sent with a code.
LEMMA SendKeeps ==
  ASSUME ResponseInv, NEW rcode \in DOMAIN ResponseCode, Send(rcode),
         (response.answers # <<>>) <=> (rcode = "NoError")
  PROVE  ResponseInv'
<1>1. /\ response' = [response EXCEPT !.rcode = rcode]
      /\ state' = "sent"
      /\ UNCHANGED vars
  BY DEF Send
<1>5. /\ IsResponse(response')
      /\ response'.rcode = rcode
      /\ response'.transaction_id = response.transaction_id
      /\ response'.recursion_desired = response.recursion_desired
      /\ response'.query = response.query
      /\ response'.answers = response.answers
  <2>1. IsResponse(response)
    BY DEF ResponseInv
  <2> QED
    BY <1>1, <2>1, CodeIsSet
<1>2. IsResponse(response)' /\ IsSequence(response.answers)'
  BY <1>5 DEF IsResponse, ResponseInv
<1>3. UNCHANGED <<bytes, outcome, transaction_id(bytes), recursion_desired(bytes), Query, Question, Processes>>
  BY <1>1, <1>5 DEF vars, transaction_id, recursion_desired, Query, is_acme_challenge, Question, Processes
<1>4. Responds'
  BY <1>1, <1>3, <1>5 DEF ResponseInv, Responds, Sent
<1> QED
  BY <1>1, <1>2, <1>4, <1>5 DEF ResponseInv

\* An answer that is added.
LEMMA AnswerKeeps ==
  ASSUME ResponseInv, NEW type, NEW value, AddAnswer(type, value)
  PROVE  ResponseInv'
<1> DEFINE x == Answer(Question.query_name, QueryType[type], value)
<1>1. /\ state = "question" /\ UNCHANGED <<vars, state>>
      /\ Processes
      /\ Question.query_type = QueryType[type]
      /\ response' = [response EXCEPT !.answers = Append(@, x)]
  BY DEF AddAnswer, Asked
<1>2. x.name = Question.query_name /\ x.query_type = Question.query_type
  BY <1>1 DEF Answer
<1> HIDE DEF x
<1>8. /\ IsResponse(response)'
      /\ response'.answers = Append(response.answers, x)
      /\ UNCHANGED <<response.transaction_id, response.recursion_desired, response.rcode, response.query>>
  <2> DEFINE b == Append(response.answers, x)
  <2>1. response' = [response EXCEPT !.answers = b] /\ IsResponse(response)
    BY <1>1 DEF ResponseInv
  <2> HIDE DEF b
  <2>2. /\ IsResponse(response')
        /\ response'.answers = b
        /\ response'.transaction_id = response.transaction_id
        /\ response'.recursion_desired = response.recursion_desired
        /\ response'.rcode = response.rcode
        /\ response'.query = response.query
    BY <2>1, AnswersAreSet
  <2>3. IsResponse(response)'
    BY <2>2 DEF IsResponse
  <2> QED
    BY <2>2, <2>3 DEF b
<1>9. IsSequence(response.answers)
  BY DEF ResponseInv
<1>3. /\ IsResponse(response)'
      /\ IsSequence(response.answers)'
      /\ UNCHANGED <<response.transaction_id, response.recursion_desired, response.rcode, response.query>>
      /\ response'.answers # <<>>
      /\ \A k \in DOMAIN response'.answers :
           \/ response'.answers[k] = x
           \/ (k \in DOMAIN response.answers /\ response'.answers[k] = response.answers[k])
  <2> DEFINE b == Append(response.answers, x)
  <2>1. /\ IsSequence(b)
        /\ b # <<>>
        /\ \A k \in DOMAIN b : b[k] = x \/ (k \in DOMAIN response.answers /\ b[k] = response.answers[k])
    BY <1>9, OneIsAppended
  <2> HIDE DEF b
  <2>2. response'.answers = b
    BY <1>8 DEF b
  <2>3. IsSequence(response.answers)'
    BY <2>1, <2>2 DEF IsSequence
  <2> QED
    BY <1>8, <2>1, <2>2, <2>3
<1>4. UNCHANGED <<bytes, outcome, transaction_id(bytes), recursion_desired(bytes), Query, Question, Processes>>
  BY <1>1, <1>3 DEF vars, transaction_id, recursion_desired, Query, is_acme_challenge, Question, Processes
<1>5. \A k \in DOMAIN response.answers :
        /\ response.answers[k].name = Question.query_name
        /\ response.answers[k].query_type = Question.query_type
  BY Zenon DEF ResponseInv, Responds
<1>6. \A k \in DOMAIN response'.answers :
        /\ response'.answers[k].name = Question.query_name
        /\ response'.answers[k].query_type = Question.query_type
  BY <1>2, <1>3, <1>5, Zenon
<1>7. Responds'
  BY <1>1, <1>3, <1>4, <1>6 DEF ResponseInv, Responds, Sent
<1> QED
  BY <1>1, <1>3, <1>7 DEF ResponseInv

\* Every step keeps what is said of the response.
LEMMA ResponseInductive == ResponseInv /\ [RNext]_rvars => ResponseInv'
<1> SUFFICES ASSUME ResponseInv, [RNext]_rvars PROVE ResponseInv'
  OBVIOUS
<1>1. CASE Receive
  <2>1. /\ response' = NewResponse(bytes) /\ state' = "header" /\ UNCHANGED bytes
    BY <1>1 DEF Receive, vars
  <2>2. DOMAIN <<>> = {}
    OBVIOUS
  <2>3. IsResponse(response)'
    BY <2>1, NewIsResponse DEF IsResponse
  <2>4. IsSequence(response.answers)'
    BY <2>1, NewIsResponse, EmptyIsSequence
  <2> QED
    BY <2>1, <2>2, <2>3, <2>4, NewIsResponse DEF ResponseInv, Responds, Sent, transaction_id, recursion_desired
<1>2. CASE RefuseOpcode \/ RejectCount \/ RejectQuestion
  <2>1. response.answers = <<>>
    BY <1>2 DEF RefuseOpcode, RejectCount, RejectQuestion, HasQuestion, ResponseInv
  <2>2. CASE RefuseOpcode
    BY <2>1, <2>2, Codes, SendKeeps DEF RefuseOpcode
  <2>3. CASE RejectCount \/ RejectQuestion
    BY <2>1, <2>3, Codes, SendKeeps DEF RejectCount, RejectQuestion
  <2> QED
    BY <1>2, <2>2, <2>3
<1>3. CASE ReadQuestion
  <2>1. state = "header" /\ UNCHANGED <<response, state>> /\ UNCHANGED bytes
    BY <1>3 DEF ReadQuestion, HasQuestion, from_bytes, ReadLabel, FollowPointer, CutLabel, BadLabel,
                CutPointer, ReadTail, CutTail, AddLabel, BadEncoding, TooLong, Finish, Ends
  <2>2. DOMAIN <<>> = {}
    OBVIOUS
  <2> QED
    BY <2>1, <2>2 DEF ResponseInv, Responds, Sent, transaction_id, recursion_desired
<1>4. CASE TakeQuestion
  <2>1. /\ state = "header" /\ state' = "question" /\ outcome = "Ok" /\ UNCHANGED vars
        /\ response' = [response EXCEPT !.query = <<Query>>]
    BY <1>4 DEF TakeQuestion, HasQuestion
  <2>5. /\ IsResponse(response')
        /\ response'.query = <<Query>>
        /\ response'.transaction_id = response.transaction_id
        /\ response'.recursion_desired = response.recursion_desired
        /\ response'.rcode = response.rcode
        /\ response'.answers = response.answers
    <3> DEFINE q == <<Query>>
    <3>1. response' = [response EXCEPT !.query = q] /\ IsResponse(response)
      BY <2>1 DEF ResponseInv
    <3> HIDE DEF q
    <3> QED
      BY <3>1, QueryIsSet DEF q
  <2>2. IsResponse(response)'
    BY <2>5 DEF IsResponse
  <2>6. IsSequence(response.answers)'
    BY <2>5 DEF ResponseInv
  <2>3. UNCHANGED <<bytes, outcome, transaction_id(bytes), recursion_desired(bytes), Query>>
    BY <2>1 DEF vars, transaction_id, recursion_desired, Query, is_acme_challenge
  <2>4. DOMAIN <<>> = {} /\ <<Query>> # <<>>
    OBVIOUS
  <2> QED
    BY <2>1, <2>2, <2>3, <2>4, <2>5, <2>6 DEF ResponseInv, Responds, Sent
<1>5. CASE RefuseQuestion
  <2>1. response.answers = <<>>
    BY <1>5 DEF RefuseQuestion, ResponseInv, Responds
  <2> QED
    BY <1>5, <2>1, Codes, SendKeeps DEF RefuseQuestion
<1>6. CASE add_txt_answer \/ add_ns_answer \/ add_soa_answer \/ add_a_answer \/ add_aaaa_answer
  <2>1. \E type, value : AddAnswer(type, value)
    BY <1>6 DEF add_txt_answer, add_ns_answer, add_soa_answer, add_a_answer, add_aaaa_answer
  <2> QED
    BY <2>1, AnswerKeeps, Zenon
<1>7. CASE Complete
  <2>1. Send(IF Unanswered THEN "NXDomain" ELSE "NoError")
    BY <1>7 DEF Complete
  <2> QED
    BY <2>1, Codes, SendKeeps DEF Unanswered
<1>8. CASE Ignore
  <2>1. state' = "ignored" /\ UNCHANGED <<vars, response>> /\ state = "idle"
    BY <1>8 DEF Ignore
  <2> QED
    BY <2>1 DEF vars, ResponseInv, Responds, Sent, transaction_id, recursion_desired, Query,
                is_acme_challenge, Question, Processes
<1>9. CASE UNCHANGED rvars
  BY <1>9 DEF rvars, vars, ResponseInv, Responds, Sent, transaction_id, recursion_desired, Query,
              is_acme_challenge, Question, Processes
<1> QED
  BY <1>1, <1>2, <1>3, <1>4, <1>5, <1>6, <1>7, <1>8, <1>9, Zenon DEF RNext, Done

\* Every response is that to the message that came: whatever the order of its
\* answers and their number, they answer what was asked.
THEOREM ResponseFits == RSpec => []Responds
<1>1. ResponseInv => Responds
  BY DEF ResponseInv
<1> QED
  BY <1>1, ResponseInit, ResponseInductive, PTL DEF RSpec

-----------------------------------------------------------------------------
(* The names that are read.                                                *)

\* A whole label of ASCII at p.
Plain(p) ==
  /\ At(p) < 64
  /\ p + 1 + At(p) <= Len(bytes)
  /\ \A i \in 1..At(p) : bytes[p + 1 + i] < 128

PlainStep(g, p) ==
  IF p >= Len(bytes) THEN 0
  ELSE IF At(p) = 0 THEN p + 1
  ELSE IF Plain(p) THEN g[p + 1 + At(p)]
  ELSE 0

\* There is a function as PlainEnd is meant to be: by induction on how far from the end of
\* the message it has to be right.
LEMMA PlainEndExists ==
  ASSUME bytes \in Seq(Byte)
  PROVE  \E g : g = [p \in Nat |-> PlainStep(g, p)]
<1> DEFINE l == Len(bytes)
           R(g, k) == \A p \in Nat : p + k >= l => g[p] = PlainStep(g, p)
           S == {k \in Nat : \E g \in [Nat -> Nat] : R(g, k)}
<1>0. l \in Nat /\ \A p \in Nat : p < l => At(p) \in Nat
  <2> SUFFICES ASSUME NEW p \in Nat, p < l PROVE At(p) \in Nat
    OBVIOUS
  <2>1. bytes[p + 1] \in Byte
    OBVIOUS
  <2> QED
    BY <2>1, Bytes DEF At
<1>1. 0 \in S
  <2> DEFINE g == [p \in Nat |-> 0]
  <2>1. g \in [Nat -> Nat]
    OBVIOUS
  <2>2. R(g, 0)
    <3> SUFFICES ASSUME NEW p \in Nat, p + 0 >= l PROVE g[p] = PlainStep(g, p)
      OBVIOUS
    <3>1. p >= Len(bytes)
      OBVIOUS
    <3> QED
      BY <3>1 DEF PlainStep
  <2> HIDE DEF g
  <2> QED
    BY <2>1, <2>2
<1>2. ASSUME NEW k \in Nat, k \in S
      PROVE  k + 1 \in S
  <2>1. PICK f \in [Nat -> Nat] : R(f, k)
    BY <1>2
  <2>2. CASE k >= l
    <3>1. R(f, k + 1)
      <4> SUFFICES ASSUME NEW p \in Nat PROVE p + k >= l
        BY <2>1
      <4> HIDE DEF l
      <4> QED
        BY <1>0, <2>2
    <3> QED
      BY <2>1, <3>1
  <2>3. CASE k < l
    <3> DEFINE q == l - (k + 1)
    <3>1. q \in Nat /\ q < l
      <4> HIDE DEF l
      <4> QED
        BY <1>0, <2>3
    <3>2. At(q) \in Nat
      BY <1>0, <3>1
    <3> HIDE DEF q
    <3>3. PlainStep(f, q) \in Nat
      <4>1. q + 1 \in Nat /\ q + 1 + At(q) \in Nat /\ 0 \in Nat
        <5> DEFINE a == At(q)
        <5>1. a \in Nat
          BY <3>2
        <5> HIDE DEF a
        <5>2. q + 1 \in Nat /\ q + 1 + a \in Nat
          BY <3>1, <5>1
        <5> QED
          BY <5>2 DEF a
      <4>2. f[q + 1 + At(q)] \in Nat
        BY <2>1, <4>1
      <4> QED
        BY <4>1, <4>2, Zenon DEF PlainStep
    <3> DEFINE g == [f EXCEPT ![q] = PlainStep(f, q)]
    <3>4. /\ g \in [Nat -> Nat]
          /\ g[q] = PlainStep(f, q)
          /\ \A p \in Nat : p # q => g[p] = f[p]
      BY <2>1, <3>1, <3>3
    <3> HIDE DEF g
    <3>5. \A p \in Nat : p >= q => PlainStep(g, p) = PlainStep(f, p)
      <4> SUFFICES ASSUME NEW p \in Nat, p >= q PROVE PlainStep(g, p) = PlainStep(f, p)
        OBVIOUS
      <4>1. CASE p >= Len(bytes)
        BY <4>1 DEF PlainStep
      <4>2. CASE p < Len(bytes)
        <5>1. At(p) \in Nat
          BY <1>0, <4>2
        <5> DEFINE a == At(p)
        <5>4. a \in Nat
          BY <5>1
        <5> HIDE DEF a
        <5>5. p + 1 + a \in Nat /\ p + 1 + a # q
          BY <3>1, <5>4
        <5>2. p + 1 + At(p) \in Nat /\ p + 1 + At(p) # q
          BY <5>5 DEF a
        <5>3. g[p + 1 + At(p)] = f[p + 1 + At(p)]
          BY <3>4, <5>2
        <5> QED
          BY <5>3, Zenon DEF PlainStep
      <4> QED
        BY <1>0, <4>1, <4>2
    <3>6. R(g, k + 1)
      <4> SUFFICES ASSUME NEW p \in Nat, p + (k + 1) >= l PROVE g[p] = PlainStep(g, p)
        OBVIOUS
      <4>1. p >= q
        BY <1>0 DEF q
      <4>2. CASE p = q
        BY <3>4, <3>5, <4>1, <4>2
      <4>3. CASE p # q
        <5>1. p + k >= l
          BY <1>0, <4>1, <4>3 DEF q
        <5> QED
          BY <2>1, <3>4, <3>5, <4>1, <4>3, <5>1
      <4> QED
        BY <4>2, <4>3
    <3> HIDE DEF R
    <3>7. \E h \in [Nat -> Nat] : R(h, k + 1)
      BY <3>4, <3>6, Zenon
    <3>8. k + 1 \in Nat
      OBVIOUS
    <3> QED
      BY <3>7, <3>8, Zenon
  <2> HIDE DEF l, S
  <2> QED
    BY <1>0, <2>2, <2>3
<1> HIDE DEF S
<1>3. \A k \in Nat : k \in S
  BY <1>1, <1>2, NatsInduct
<1>4. l \in S
  BY <1>0, <1>3
<1>5. PICK f \in [Nat -> Nat] : R(f, l)
  BY <1>4 DEF S
<1>6. \A p \in Nat : f[p] = PlainStep(f, p)
  <2> SUFFICES ASSUME NEW p \in Nat PROVE p + l >= l
    BY <1>5
  <2> HIDE DEF l
  <2> QED
    BY <1>0
<1>7. f = [p \in Nat |-> f[p]]
  BY <1>5
<1>8. f = [p \in Nat |-> PlainStep(f, p)]
  BY <1>6, <1>7
<1> QED
  BY <1>8

\* PlainEnd is such a function.
LEMMA PlainEndIs ==
  ASSUME bytes \in Seq(Byte)
  PROVE  \A p \in Nat : PlainEnd[p] = PlainStep(PlainEnd, p)
<1>1. PlainEnd = CHOOSE g : g = [p \in Nat |-> PlainStep(g, p)]
  BY Zenon DEF PlainEnd, PlainStep, Plain
<1> DEFINE e == CHOOSE g : g = [p \in Nat |-> PlainStep(g, p)]
<1>2. e = [p \in Nat |-> PlainStep(e, p)]
  BY PlainEndExists, Zenon
<1>3. PlainEnd = e
  BY <1>1
<1> HIDE DEF e
<1>4. \A p \in Nat : e[p] = PlainStep(e, p)
  BY <1>2
<1> QED
  BY <1>3, <1>4

\* What is said of the labels read so far.
Ascii == \A k \in 1..Len(labels) : is_ascii(labels[k])
Ended == labels # <<>> /\ labels[Len(labels)] = <<>>

\* The rest of the name is written out if and only if all of it is.
Tracks ==
  /\ Ended => PlainEnd[LENGTH] = cursor
  /\ ~Ended => PlainEnd[LENGTH] = PlainEnd[cursor]

\* A name that is written out, with a type and a class.
Written == PlainEnd[LENGTH] # 0 /\ PlainEnd[LENGTH] + 4 <= Len(bytes)

\* The labels are those of the name as it is written; those that are joined are ASCII.
PlainInv ==
  /\ \A k \in 1..used : is_ascii(labels[k])
  /\ ~pointed /\ Ascii => Tracks
  /\ Written =>
       /\ ~pointed /\ Ascii
       /\ outcome \in {"Reading", "Ok", "TooLong"}
       /\ outcome = "TooLong" => ~ (PlainEnd[LENGTH] - LENGTH <= MAX_NAME)

\* Nothing has been read at first.
LEMMA PlainInit == Init => PlainInv
<1> SUFFICES ASSUME Init PROVE PlainInv
  OBVIOUS
<1>1. labels = <<>> /\ used = 0 /\ cursor = LENGTH /\ ~pointed /\ outcome = "Reading"
  BY DEF Init
<1>2. Ascii /\ ~Ended /\ \A k \in 1..used : is_ascii(labels[k])
  BY <1>1 DEF Ascii, Ended
<1>3. Tracks
  BY <1>1, <1>2 DEF Tracks
<1> QED
  BY <1>1, <1>2, <1>3 DEF PlainInv

\* One label of ASCII, read where it is written, is one step of PlainEnd.
LEMMA LabelIsPlain ==
  ASSUME TypeOK, ReadLabel, is_ascii(label_at(cursor))
  PROVE  /\ labels'[Len(labels')] = <<>> => PlainEnd[cursor] = cursor'
         /\ labels'[Len(labels')] # <<>> => PlainEnd[cursor] = PlainEnd[cursor']
<1>0. bytes \in Seq(Byte) /\ cursor \in Nat /\ labels \in Seq(Seq(Byte))
  BY Parts, Zenon
<1>1. /\ Looping /\ IsLength(At(cursor)) /\ LabelFits(cursor)
      /\ labels' = Append(labels, label_at(cursor))
      /\ cursor' = cursor + 1 + At(cursor)
  BY DEF ReadLabel
<1> DEFINE l == label_at(cursor)
           a == At(cursor)
<1>2. /\ a \in Nat /\ l \in Seq(Byte) /\ Len(l) = a
      /\ \A i \in 1..a : l[i] = bytes[cursor + 1 + i]
  BY <1>0, <1>1, LabelBytes, Bytes, Zenon
<1>3. labels'[Len(labels')] = l
  <2> HIDE DEF l
  <2>1. labels' = Append(labels, l)
    BY <1>1 DEF l
  <2> QED
    BY <1>0, <1>2, <2>1
<1>4. l = <<>> <=> a = 0
  <2> HIDE DEF l, a
  <2> QED
    BY <1>2
<1>5. PlainEnd[cursor] = PlainStep(PlainEnd, cursor)
  BY <1>0, PlainEndIs
<1>6. Plain(cursor)
  <2>1. DOMAIN l = 1..a
    <3> HIDE DEF l, a
    <3> QED
      BY <1>2
  <2>2. \A i \in 1..a : l[i] < 128
    BY <2>1 DEF is_ascii
  <2>3. \A i \in 1..a : bytes[cursor + 1 + i] < 128
    BY <1>2, <2>2, Zenon
  <2> QED
    BY <1>1, <2>3, Zenon DEF Plain, IsLength, LabelFits
<1>7. ~ (cursor >= Len(bytes))
  BY <1>0, <1>1 DEF Looping
<1>8. PlainEnd[cursor] = IF a = 0 THEN cursor + 1 ELSE PlainEnd[cursor + 1 + a]
  BY <1>5, <1>6, <1>7, Zenon DEF PlainStep
<1>9. cursor' = cursor + 1 + a /\ (a = 0 => cursor' = cursor + 1)
  <2>1. cursor' = cursor + 1 + a
    BY <1>1, Zenon
  <2> HIDE DEF a
  <2> QED
    BY <1>0, <2>1
<1> HIDE DEF l, a
<1> QED
  BY <1>3, <1>4, <1>8, <1>9

\* Where a name goes on that is written out, there is a whole label of ASCII.
LEMMA GoesOn ==
  ASSUME TypeOK, PlainEnd[cursor] # 0
  PROVE  /\ cursor < Len(bytes)
         /\ IsLength(At(cursor)) /\ ~ IsPointer(At(cursor))
         /\ LabelFits(cursor)
         /\ is_ascii(label_at(cursor))
<1>0. bytes \in Seq(Byte) /\ cursor \in Nat /\ Len(bytes) \in Nat
  BY Parts
<1>1. PlainEnd[cursor] = PlainStep(PlainEnd, cursor)
  BY <1>0, PlainEndIs
<1>2. ~ (cursor >= Len(bytes)) /\ (At(cursor) = 0 \/ Plain(cursor))
  BY <1>1, Zenon DEF PlainStep
<1>3. cursor < Len(bytes)
  BY <1>0, <1>2
<1>4. bytes[cursor + 1] \in Byte
  BY <1>0, <1>3
<1> DEFINE a == At(cursor)
<1>5. a \in Nat
  BY <1>4, Bytes, Zenon DEF At
<1>6. a < 64 /\ cursor + 1 + a <= Len(bytes) /\ \A i \in 1..a : bytes[cursor + 1 + i] < 128
  <2>1. CASE a = 0
    <3> HIDE DEF a
    <3> QED
      BY <1>0, <1>3, <2>1
  <2>2. CASE a # 0
    BY <1>2, <2>2 DEF Plain
  <2> QED
    BY <2>1, <2>2
<1>7. LabelFits(cursor)
  BY <1>3, <1>6, Zenon DEF LabelFits
<1>8. IsLength(a) /\ ~ IsPointer(a)
  <2> HIDE DEF a
  <2> QED
    BY <1>5, <1>6 DEF IsLength, IsPointer
<1>9. is_ascii(label_at(cursor))
  <2> DEFINE l == label_at(cursor)
  <2>1. l \in Seq(Byte) /\ Len(l) = a /\ \A i \in 1..a : l[i] = bytes[cursor + 1 + i]
    BY <1>0, <1>7, LabelBytes, Zenon
  <2>2. DOMAIN l = 1..a
    <3> HIDE DEF l, a
    <3> QED
      BY <2>1
  <2>3. \A i \in 1..a : l[i] < 128
    BY <1>6, <2>1, Zenon
  <2> QED
    BY <2>2, <2>3, Zenon DEF is_ascii
<1> QED
  BY <1>3, <1>7, <1>8, <1>9

\* What it makes of a position depends on the message alone.
LEMMA PlainEndStays ==
  ASSUME bytes' = bytes
  PROVE  PlainEnd' = PlainEnd
<1> DEFINE Octet(b, p) == b[p + 1]
           Wholly(b, p) == /\ Octet(b, p) < 64
                           /\ p + 1 + Octet(b, p) <= Len(b)
                           /\ \A i \in 1..Octet(b, p) : b[p + 1 + i] < 128
           Read(b, g, p) == IF p >= Len(b) THEN 0
                            ELSE IF Octet(b, p) = 0 THEN p + 1
                            ELSE IF Wholly(b, p) THEN g[p + 1 + Octet(b, p)]
                            ELSE 0
           EndIn(b) == CHOOSE g : g = [p \in Nat |-> Read(b, g, p)]
<1>1. PlainEnd = EndIn(bytes)
  BY Zenon DEF PlainEnd, At
<1>2. PlainEnd' = EndIn(bytes')
  BY Zenon DEF PlainEnd, At
<1> HIDE DEF EndIn
<1> QED
  BY <1>1, <1>2

\* The labels that have been found lie before what is read next.
LEMMA StartsBefore ==
  ASSUME TypeOK, NEW p, Starts(p)
  PROVE  \A k \in 1..(Len(labels) + 1) : p[k] \in Nat /\ p[k] <= cursor
<1>0. bytes \in Seq(Byte) /\ labels \in Seq(Seq(Byte)) /\ cursor \in Nat
  BY Parts, Zenon
<1> DEFINE n == Len(labels) + 1
           S == {k \in Nat : k < n => p[n - k] <= cursor}
<1>1. n \in Nat /\ n >= 1
  BY <1>0
<1>2. /\ p \in [1..n -> Nat] /\ p[n] = cursor
      /\ \A k \in 1..(n - 1) : LabelFits(p[k]) /\ p[k + 1] = p[k] + 1 + At(p[k])
  <2>1. n - 1 = Len(labels)
    BY <1>0
  <2> HIDE DEF n
  <2>2. /\ \A k \in 1..Len(labels) : LabelFits(p[k]) /\ p[k + 1] = p[k] + 1 + At(p[k])
    BY Zenon DEF Starts
  <2>3. p \in [1..n -> Nat] /\ p[n] = cursor
    BY Zenon DEF Starts, n
  <2> QED
    BY <2>1, <2>2, <2>3
<1> HIDE DEF n
<1>3. 0 \in S
  BY <1>0, <1>1, <1>2
<1>4. ASSUME NEW k \in Nat, k \in S PROVE k + 1 \in S
  <2> SUFFICES ASSUME k + 1 < n PROVE p[n - (k + 1)] <= cursor
    OBVIOUS
  <2> DEFINE i == n - (k + 1)
  <2>1. i \in 1..(n - 1) /\ i + 1 = n - k /\ k < n /\ i \in 1..n
    BY <1>1
  <2>2. p[i + 1] <= cursor
    BY <1>4, <2>1
  <2> HIDE DEF i
  <2>3. p[i] \in Nat
    BY <1>2, <2>1
  <2>4. LabelFits(p[i]) /\ p[i + 1] = p[i] + 1 + At(p[i])
    BY <1>2, <2>1
  <2> DEFINE a == At(p[i])
             q == p[i]
             r == p[i + 1]
  <2>5. a \in Nat
    BY <1>0, <2>3, <2>4, LabelBytes, Bytes, Zenon
  <2>6. q \in Nat /\ r = q + 1 + a /\ r <= cursor
    BY <2>2, <2>3, <2>4
  <2> HIDE DEF a, q, r
  <2>7. q <= cursor
    BY <1>0, <2>5, <2>6
  <2> QED
    BY <2>7 DEF q, i
<1> HIDE DEF S
<1>5. \A k \in Nat : k \in S
  BY <1>3, <1>4, NatsInduct
<1>6. ASSUME NEW k \in 1..n PROVE p[k] \in Nat /\ p[k] <= cursor
  <2>1. n - k \in Nat /\ n - k < n /\ n - (n - k) = k
    BY <1>1
  <2>2. n - k \in S
    BY <1>5, <2>1
  <2> QED
    BY <1>2, <2>1, <2>2 DEF S
<1> QED
  BY <1>6 DEF n

\* A name that is too long when it is put together is too long as it is written.
LEMMA TooLongIs ==
  ASSUME TypeOK, Whole, Copied, ~pointed, TooLong
  PROVE  ~ (cursor - LENGTH <= MAX_NAME)
<1>0. /\ bytes \in Seq(Byte) /\ labels \in Seq(Seq(Byte)) /\ cursor \in Nat /\ used \in Nat
      /\ name \in Seq(Byte)
  BY Parts, Zenon
<1>1. PICK p : Starts(p) /\ name = UpTo(p[used + 1])
  BY DEF Copied
<1>2. used + 1 \in 1..Len(labels) /\ used + 2 \in 1..(Len(labels) + 1) /\ used + 1 + 1 = used + 2
  BY <1>0 DEF TooLong, Joining
<1> DEFINE q == p[used + 1]
           a == At(q)
           r == p[used + 2]
<1>3. LabelFits(q) /\ Label = label_at(q) /\ r = q + 1 + a /\ q >= LENGTH
  <2>1. LabelFits(q) /\ labels[used + 1] = label_at(q) /\ p[used + 1 + 1] = q + 1 + a /\ q >= LENGTH
    BY <1>1, <1>2, Zenon DEF Starts
  <2> QED
    BY <1>2, <2>1, Zenon DEF Label
<1>4. q \in Nat /\ r <= cursor
  BY <1>1, <1>2, StartsBefore
<1>5. a \in Nat /\ Len(Label) = a
  BY <1>0, <1>3, <1>4, LabelBytes, Bytes, Zenon
<1>6. name = UpTo(q) /\ q <= Len(bytes)
  <2>1. q < Len(bytes)
    BY <1>3, Zenon DEF LabelFits
  <2> HIDE DEF q
  <2> QED
    BY <1>0, <1>1, <1>4, <2>1 DEF q
<1> HIDE DEF q, a, r
<1>7. Len(name) = q - LENGTH
  BY <1>0, <1>3, <1>4, <1>6 DEF UpTo, LENGTH
<1>8. ~ (Len(name) + Len(Label) + 1 <= MAX_NAME)
  BY DEF TooLong, Fits
<1>9. MAX_NAME \in Nat /\ LENGTH \in Nat
  BY QueryAssumption, Bytes, Zenon DEF LENGTH
<1>10. LENGTH \in Nat
  BY DEF LENGTH
<1>11. MAX_NAME \in Nat
  BY QueryAssumption, Bytes, Zenon
<1> QED
  BY <1>0, <1>3, <1>4, <1>5, <1>7, <1>8, <1>10, <1>11

\* Every step of the reader keeps that account: a name that is written out is read to
\* its end, label by label, and nothing is in the way of its question.
LEMMA PlainInductive ==
  ReaderInv /\ PlainInv /\ [from_bytes]_vars => PlainInv'
<1> SUFFICES ASSUME ReaderInv, PlainInv, [from_bytes]_vars PROVE PlainInv'
  OBVIOUS
<1>0. TypeOK /\ Whole /\ Copied
  BY DEF ReaderInv
<1>1. /\ bytes \in Seq(Byte) /\ labels \in Seq(Seq(Byte)) /\ cursor \in Nat /\ used \in Nat
      /\ used \in 0..Len(labels) /\ Len(labels) \in Nat
  BY <1>0, Parts
<1>2. \A k \in 1..used : is_ascii(labels[k])
  BY DEF PlainInv
<1>3. ~pointed /\ Ascii => Tracks
  BY DEF PlainInv
<1>4. Written =>
       /\ ~pointed /\ Ascii
       /\ outcome \in {"Reading", "Ok", "TooLong"}
       /\ outcome = "TooLong" => ~ (PlainEnd[LENGTH] - LENGTH <= MAX_NAME)
  BY DEF PlainInv
<1>5. bytes' = bytes
  BY Steps, GivesOutcome DEF ReadLabel, FollowPointer, ReadTail, AddLabel, Finish, Ends, vars
<1>6. PlainEnd' = PlainEnd
  BY <1>5, PlainEndStays
<1>7. (Written' <=> Written) /\ LENGTH' = LENGTH
  BY <1>5, <1>6 DEF Written, LENGTH
<1>8. question # <<>> => Ended
  BY <1>0 DEF Whole, Ended
<1>9. Looping => ~Ended
  BY DEF Looping, Ended
\* While labels are read of a name that is written out, there is another one.
<1>10. ASSUME Written, Naming, ~Ended
       PROVE  /\ cursor < Len(bytes)
              /\ IsLength(At(cursor)) /\ ~ IsPointer(At(cursor))
              /\ LabelFits(cursor)
              /\ is_ascii(label_at(cursor))
  <2>1. PlainEnd[cursor] # 0
    BY <1>3, <1>4, <1>10 DEF Tracks, Written
  <2> QED
    BY <1>0, <2>1, GoesOn
<1>11. CASE ReadLabel
  <2>1. /\ Looping /\ labels' = Append(labels, label_at(cursor))
        /\ UNCHANGED <<bytes, pointed, question, name, used, outcome>>
    BY <1>11 DEF ReadLabel
  <2>2. ~Ended
    BY <1>9, <2>1
  <2> DEFINE l == label_at(cursor)
  <2>3. l \in Seq(Byte)
    BY <1>1, <1>11, LabelBytes, Zenon DEF ReadLabel
  <2>4. labels' = Append(labels, l)
    BY <2>1
  <2> HIDE DEF l
  <2>5. /\ Len(labels') = Len(labels) + 1 /\ labels'[Len(labels) + 1] = l /\ labels' # <<>>
        /\ \A k \in 1..Len(labels) : labels'[k] = labels[k]
    BY <1>1, <2>3, <2>4
  <2>6. Ascii' <=> Ascii /\ is_ascii(l)
    <3>1. Ascii' <=> \A k \in 1..(Len(labels) + 1) : is_ascii(labels'[k])
      BY <2>5, Zenon DEF Ascii, is_ascii
    <3>2. \A k : k \in 1..(Len(labels) + 1) <=> (k \in 1..Len(labels) \/ k = Len(labels) + 1)
      BY <1>1
    <3> QED
      BY <2>5, <3>1, <3>2, Zenon DEF Ascii
  <2>7. \A k \in 1..used' : is_ascii(labels'[k])
    <3>1. used' = used /\ \A k \in 1..used : k \in 1..Len(labels)
      BY <1>1, <2>1
    <3> QED
      BY <1>2, <2>5, <3>1, Zenon
  <2>8. ASSUME ~pointed', Ascii' PROVE Tracks'
    <3>1. PlainEnd[LENGTH] = PlainEnd[cursor]
      BY <1>3, <2>1, <2>2, <2>6, <2>8 DEF Tracks
    <3>2. /\ labels'[Len(labels')] = <<>> => PlainEnd[cursor] = cursor'
          /\ labels'[Len(labels')] # <<>> => PlainEnd[cursor] = PlainEnd[cursor']
      BY <1>0, <1>11, <2>6, <2>8, LabelIsPlain DEF l
    <3>3. Ended' <=> labels'[Len(labels')] = <<>>
      BY <2>5, Zenon DEF Ended
    <3> QED
      BY <1>6, <1>7, <3>1, <3>2, <3>3, Zenon DEF Tracks
  <2>9. ASSUME Written' PROVE
          /\ ~pointed' /\ Ascii'
          /\ outcome' \in {"Reading", "Ok", "TooLong"}
          /\ outcome' = "TooLong" => ~ (PlainEnd'[LENGTH'] - LENGTH' <= MAX_NAME)
    <3>1. Written /\ Naming
      BY <1>7, <2>1, <2>9 DEF Looping
    <3>2. is_ascii(l)
      BY <1>10, <2>2, <3>1 DEF l
    <3> QED
      BY <1>4, <1>6, <1>7, <2>1, <2>6, <3>1, <3>2, Zenon
  <2> QED
    BY <2>7, <2>8, <2>9, Zenon DEF PlainInv
<1>12. CASE FollowPointer
  <2>1. Looping /\ IsPointer(At(cursor)) /\ pointed' = TRUE /\ used' = used
    BY <1>12 DEF FollowPointer, Points
  <2>2. ~Written
    BY <1>9, <1>10, <2>1 DEF Looping
  <2>3. used = 0
    BY <1>0, <2>1 DEF Whole, Looping, Naming
  <2>4. \A k \in 1..used' : is_ascii(labels'[k])
    BY <2>1, <2>3
  <2> QED
    BY <1>7, <2>1, <2>2, <2>4, Zenon DEF PlainInv
<1>13. CASE Gives
  <2>1. UNCHANGED <<bytes, cursor, labels, pointed, question, name, used>>
    BY <1>13, GivesOutcome
  <2>2. (Ascii' <=> Ascii) /\ (Ended' <=> Ended) /\ (Tracks' <=> Tracks)
    BY <1>6, <1>7, <2>1 DEF Ascii, Ended, Tracks, is_ascii
  <2>3. ASSUME Written PROVE TooLong
    <3>1. ~pointed /\ Ascii /\ Tracks
      BY <1>3, <1>4, <2>3
    <3>2. ~CutLabel /\ ~BadLabel /\ ~CutPointer
      BY <1>9, <1>10, <2>3 DEF CutLabel, BadLabel, CutPointer, Points, Looping
    <3>3. ~BadEncoding
      <4>1. Joining => is_ascii(Label)
        <5> SUFFICES ASSUME Joining PROVE is_ascii(Label)
          OBVIOUS
        <5>1. used + 1 \in 1..Len(labels)
          BY <1>1 DEF Joining
        <5> QED
          BY <3>1, <5>1 DEF Ascii, Label
      <4> QED
        BY <4>1 DEF BadEncoding
    <3>4. ~CutTail
      <4> SUFFICES ASSUME NameRead PROVE Indexes(cursor + 2)
        BY DEF CutTail
      <4>1. Ended
        <5>1. ~Ended => cursor < Len(bytes)
          BY <1>10, <2>3 DEF NameRead
        <5> QED
          BY <5>1 DEF NameRead, Looping, Ended
      <4>2. cursor + 4 <= Len(bytes)
        BY <2>3, <3>1, <4>1 DEF Tracks, Written
      <4> QED
        BY <1>1, <4>2 DEF Indexes
    <3> QED
      BY <1>13, <3>2, <3>3, <3>4 DEF Gives
  <2>4. ASSUME Written PROVE outcome' = "TooLong" /\ ~ (PlainEnd[LENGTH] - LENGTH <= MAX_NAME)
    <3>1. TooLong /\ ~pointed /\ Tracks /\ Ended
      BY <1>3, <1>4, <1>8, <2>3, <2>4 DEF TooLong, Joining
    <3>2. PlainEnd[LENGTH] = cursor
      BY <3>1 DEF Tracks
    <3>3. ~ (cursor - LENGTH <= MAX_NAME)
      BY <1>0, <3>1, TooLongIs
    <3> QED
      BY <3>1, <3>2, <3>3 DEF TooLong, Ends
  <2>5. \A k \in 1..used' : is_ascii(labels'[k])
    BY <1>2, <2>1
  <2>6. ~pointed' /\ Ascii' => Tracks'
    BY <1>3, <2>1, <2>2
  <2>7. Written' =>
          /\ ~pointed' /\ Ascii'
          /\ outcome' \in {"Reading", "Ok", "TooLong"}
          /\ outcome' = "TooLong" => ~ (PlainEnd'[LENGTH'] - LENGTH' <= MAX_NAME)
    BY <1>4, <1>6, <1>7, <2>1, <2>2, <2>4
  <2> QED
    BY <2>5, <2>6, <2>7, Zenon DEF PlainInv
<1>14. CASE AddLabel
  <2>1. UNCHANGED <<bytes, cursor, labels, pointed, question, outcome>> /\ used' = used + 1
    BY <1>14 DEF AddLabel
  <2>2. (Ascii' <=> Ascii) /\ (Ended' <=> Ended) /\ (Tracks' <=> Tracks)
    BY <1>6, <1>7, <2>1 DEF Ascii, Ended, Tracks, is_ascii
  <2>3. \A k \in 1..used' : is_ascii(labels'[k])
    <3>1. is_ascii(labels[used + 1])
      BY <1>14 DEF AddLabel, Label
    <3>2. \A k \in 1..(used + 1) : k \in 1..used \/ k = used + 1
      BY <1>1
    <3> QED
      BY <1>2, <2>1, <3>1, <3>2, Zenon
  <2>4. ~pointed' /\ Ascii' => Tracks'
    BY <1>3, <2>1, <2>2
  <2>5. Written' =>
          /\ ~pointed' /\ Ascii'
          /\ outcome' \in {"Reading", "Ok", "TooLong"}
          /\ outcome' = "TooLong" => ~ (PlainEnd'[LENGTH'] - LENGTH' <= MAX_NAME)
    BY <1>4, <1>6, <1>7, <2>1, <2>2
  <2> QED
    BY <2>3, <2>4, <2>5, Zenon DEF PlainInv
<1>15. CASE ReadTail \/ Finish \/ UNCHANGED vars
  <2>1. UNCHANGED <<bytes, cursor, labels, pointed, used>> /\ outcome' \in {outcome, "Ok"}
    BY <1>15 DEF ReadTail, Finish, Ends, vars
  <2>2. (Ascii' <=> Ascii) /\ (Ended' <=> Ended) /\ (Tracks' <=> Tracks)
    BY <1>6, <1>7, <2>1 DEF Ascii, Ended, Tracks, is_ascii
  <2>3. \A k \in 1..used' : is_ascii(labels'[k])
    BY <1>2, <2>1
  <2>4. ~pointed' /\ Ascii' => Tracks'
    BY <1>3, <2>1, <2>2
  <2>5. Written' =>
          /\ ~pointed' /\ Ascii'
          /\ outcome' \in {"Reading", "Ok", "TooLong"}
          /\ outcome' = "TooLong" => ~ (PlainEnd'[LENGTH'] - LENGTH' <= MAX_NAME)
    BY <1>4, <1>6, <1>7, <2>1, <2>2
  <2> QED
    BY <2>3, <2>4, <2>5, Zenon DEF PlainInv
<1> QED
  BY <1>11, <1>12, <1>13, <1>14, <1>15, Steps

\* Where the reader has stopped, that is what was to be read.
LEMMA PlainIsRead == ReaderInv /\ PlainInv => NamesAreRead
<1> SUFFICES ASSUME ReaderInv, PlainInv PROVE NamesAreRead
  OBVIOUS
<1>0. TypeOK /\ Whole /\ Copied
  BY DEF ReaderInv
<1>1. /\ bytes \in Seq(Byte) /\ labels \in Seq(Seq(Byte)) /\ cursor \in Nat
      /\ cursor \in LENGTH..Len(bytes) /\ name \in Seq(Byte) /\ Len(name) <= MAX_NAME
  BY <1>0, Parts, Zenon
<1>2. ASSUME outcome = "Ok", ~pointed PROVE cursor = PlainEnd[LENGTH]
  <2>1. Ended /\ used = Len(labels)
    BY <1>0, <1>2 DEF Whole, Ended
  <2>2. Ascii
    BY <2>1 DEF PlainInv, Ascii
  <2>3. Tracks
    BY <1>2, <2>2 DEF PlainInv
  <2> QED
    BY <2>1, <2>3 DEF Tracks
<1>3. ASSUME outcome = "Ok", ~pointed PROVE name = UpTo(cursor)
  <2>1. used = Len(labels)
    BY <1>0, <1>3 DEF Whole
  <2> QED
    BY <1>0, <1>3, <2>1 DEF Copied, Starts
<1>4. UpTo(cursor) = SubSeq(bytes, LENGTH + 1, cursor) /\ Len(UpTo(cursor)) = cursor - LENGTH
  BY <1>1 DEF UpTo, LENGTH
<1>7. ASSUME outcome # "Reading", Written
      PROVE  IF PlainEnd[LENGTH] - LENGTH <= MAX_NAME
             THEN outcome = "Ok" /\ name = SubSeq(bytes, LENGTH + 1, PlainEnd[LENGTH])
             ELSE outcome = "TooLong"
  <2>1. ~pointed /\ (outcome = "Ok" \/ (outcome = "TooLong" /\ ~ (PlainEnd[LENGTH] - LENGTH <= MAX_NAME)))
    BY <1>7 DEF PlainInv
  <2>2. CASE outcome = "Ok"
    <3>1. cursor = PlainEnd[LENGTH] /\ name = UpTo(cursor)
      BY <1>2, <1>3, <2>1, <2>2
    <3>2. Len(name) = cursor - LENGTH
      BY <1>4, <3>1
    <3>3. PlainEnd[LENGTH] - LENGTH <= MAX_NAME
      BY <1>1, <3>1, <3>2
    <3> QED
      BY <1>4, <2>2, <3>1, <3>3
  <2>3. CASE outcome = "TooLong" /\ ~ (PlainEnd[LENGTH] - LENGTH <= MAX_NAME)
    BY <2>3
  <2> QED
    BY <2>1, <2>2, <2>3
<1> QED
  BY <1>2, <1>7 DEF NamesAreRead, Written

\* from_bytes takes a name that is written out for what it says, and leaves the cursor
\* behind it: whatever the message, if the labels of its name are whole and of ASCII and
\* a type and a class follow, it is read if it is not too long, byte for byte.
THEOREM WrittenNamesAreRead == RSpec => []NamesAreRead
<1>1. Spec => []NamesAreRead
  BY ReaderInit, ReaderInductive, PlainInit, PlainInductive, PlainIsRead, PTL DEF Spec
<1> QED
  BY <1>1, ReaderSteps, PTL
================================================================================
