---------------------------- MODULE MCChallenges ----------------------------
(* Small instance: a list of three, and names that differ in case only.    *)
EXTENDS Challenges, SequencesExt

CONSTANTS d1, lower, upper, v1, v2

MCCaseFold == [n \in {lower, upper} |-> lower]

\* The values are interchangeable.
Symmetry == Permutations({v1, v2})

\* At picks elements as the order-preserving filter of the library does.
ASSUME AtIsFilter ==
  \A l \in BoundedSeq({1, 2, 3}, 4), c \in {1, 2, 3} :
    At(l, {i \in DOMAIN l : l[i] # c}) = {Remove(l, c)}
=============================================================================
