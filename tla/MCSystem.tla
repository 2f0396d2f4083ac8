------------------------------- MODULE MCSystem -------------------------------
(* Small instances of the system: certbot asks for a certificate for a     *)
(* domain and its wildcard, two values under one name, or for the domain   *)
(* alone.  Nothing arrives at the DNS sockets.                             *)
EXTENDS System

CONSTANTS d1, n1, v1, v2

MCIdentity == [x \in {d1, n1} |-> x]
MCCaseFold == [x \in {n1} |-> x]

MCChallenge(value) == [domain |-> d1, name |-> n1, value |-> value]

MCOrders == {<<MCChallenge(v1), MCChallenge(v2)>>, <<MCChallenge(v1)>>}

MCRequests ==
  {[wellformed |-> TRUE, method |-> m, path |-> "register", domain |-> d1,
    name |-> n1, value |-> v] : m \in {"POST", "DELETE"}, v \in {v1, v2}}
=============================================================================
