---------------------------- MODULE MCDnsResponse ----------------------------
(* Four sets of messages, each of which varies one part: the bytes of the  *)
(* name, the type that is asked for, the header, and the lengths of labels *)
(* and names near their limits.  The label "a" stands for _acme-challenge, *)
(* and "A" is its upper case.                                              *)
EXTENDS DnsDecisions

MCLowerCase == [b \in 0..255 |-> IF b = 65 THEN 97 ELSE b]

MCAcme == <<97>>

\* An id, the flags, the number of questions; the rest does not matter.
MCHeader(flags, count) ==
  <<1, 2, flags, 0, count \div 256, count % 256, 0, 0, 0, 0, 0, 1>>

\* Three lengths, two letters, a byte that is neither, and a pointer to the
\* header or, with 12 behind it, to the first label.
MCBytes == {0, 1, 2, 12, 65, 97, 130, 192}

MCBodies == UNION {[1..n -> MCBytes] : n \in 0..4}

\* What may be left of a type and a class, and the end of a name before them.
MCTails == {<<>>, <<0>>, <<0, 1, 0>>, <<0, 1, 0, 1>>, <<0, 0, 1, 0, 1>>}

-----------------------------------------------------------------------------
(* Names of up to two labels, written down as RFC 1035 has it.             *)

MCLabels == UNION {[1..n -> {65, 97}] : n \in 1..2}

MCNames ==
  {<<0>>} \cup {<<Len(l)>> \o l \o <<0>> : l \in MCLabels}
    \cup {<<Len(l)>> \o l \o <<Len(k)>> \o k \o <<0>> : l \in MCLabels, k \in MCLabels}

MCTypes == {1, 2, 6, 16, 28, 255}

-----------------------------------------------------------------------------
(* Names below the label "a" at the limits.                                *)

\* A label of length times the byte b.
MCLabel(length, b) == <<length>> \o [i \in 1..length |-> b]

\* Five labels, 254 to 256 bytes in all.
MCLongNames ==
  {<<1, 97>> \o MCLabel(63, 97) \o MCLabel(63, 97) \o MCLabel(63, 97) \o MCLabel(n, 97) \o <<0>> :
     n \in 58..60}

\* A label of 63 or of 64 bytes that is written out.
MCLongLabels == {<<1, 97>> \o MCLabel(n, 97) \o <<0>> : n \in {63, 64}}

\* Behind two labels of 40 bytes, a pointer to the first byte of the first,
\* which makes a label of as many bytes as it says.
MCPointedLabels ==
  {<<1, 97>> \o MCLabel(40, b) \o MCLabel(40, b) \o <<192, 15, 0>> : b \in {63, 64, 79}}

MCMessages ==
  {MCHeader(0, 1) \o body \o tail : body \in MCBodies, tail \in MCTails}
    \cup {MCHeader(1, 1) \o n \o <<0, t, 0, 1>> : n \in MCNames, t \in MCTypes}
    \cup {MCHeader(1, 1) \o n \o <<0, t, 0, 1>> :
            n \in MCLongNames \cup MCLongLabels \cup MCPointedLabels, t \in MCTypes}
    \cup {MCHeader(f, count) \o <<1, 97, 0, 0, 16, 0, 1>> : f \in 0..255, count \in {0, 1, 256}}

MCValue(length) == [i \in 1..length |-> 48]

\* Values at the limits of their length byte, and beyond.
MCValues == {MCValue(0), MCValue(1), MCValue(255), MCValue(256)}

MCV4 == <<192, 0, 2, 1>>
MCV6 == <<32, 1, 13, 184, 0, 0, 0, 0, 0, 0, 0, 0, 0, 0, 0, 1>>
=============================================================================
