------------------------------ MODULE Challenges ------------------------------
(***************************************************************************)
(* The list of registered ACME challenges, challenges.rs: a queue bounded  *)
(* by MAX_LEN that forgets its oldest entry when it overflows.             *)
(*                                                                         *)
(* The strings are model values.  eq_ignore_ascii_case compares names up   *)
(* to CaseFold, while cleanup compares whole challenges exactly.           *)
(***************************************************************************)
EXTENDS Naturals, Sequences, FiniteSets

CONSTANTS
  Domains,   \* the registered domains
  Names,     \* the challenge names, in every spelling that occurs
  Values,    \* the challenge values
  CaseFold,  \* a name in lower case
  MAX_LEN    \* how many challenges the list may hold

\* The code's MAX_LEN is 100.
ASSUME ListAssumption ==
  /\ MAX_LEN \in Nat \ {0}
  /\ CaseFold \in [Names -> Names]

VARIABLES
  list,    \* the LinkedList of Challenges, front first
  wanted,  \* history: the challenges set, and not cleaned up since
  since    \* history: the calls of set since the last one for a challenge,
           \* counted up to MAX_LEN

vars == <<list, wanted, since>>

Challenge == [domain : Domains, name : Names, value : Values]

-----------------------------------------------------------------------------
(* Queries.                                                                *)

\* pos lists positions in ascending order.
Ascending(pos) == \A i, j \in DOMAIN pos : i < j => pos[i] < pos[j]

\* The sequence of what l holds at the positions in P.
At(l, P) ==
  LET n == Cardinality(P) IN
  {[k \in 1..n |-> l[pos[k]]] : pos \in {p \in [1..n -> P] : Ascending(p)}}

\* Mutant of matches: names are compared as they are spelled.
MatchesExactly(c, name) == c.name = name

\* Challenge::matches
matches(c, name) == CaseFold[c.name] = CaseFold[name]

any(l, name) == \E i \in DOMAIN l : matches(l[i], name)

\* The values of the matching challenges, in the order of the list.
named(l, name) ==
  LET found == CHOOSE m \in At(l, {i \in DOMAIN l : matches(l[i], name)}) : TRUE IN
  [k \in DOMAIN found |-> found[k].value]

-----------------------------------------------------------------------------
(* Updates.                                                                *)

\* Mutant of Pushed: the list is never cut.
PushedUncut(l, c) == Append(l, c)

\* Mutant of Pushed: room is made before the list is full.
PushedEarly(l, c) ==
  LET longer == Append(l, c) IN
  IF Len(longer) >= MAX_LEN THEN Tail(longer) ELSE longer

\* The list after set: push_back, and pop_front when that is one too many.
Pushed(l, c) ==
  LET longer == Append(l, c) IN
  IF Len(longer) > MAX_LEN THEN Tail(longer) ELSE longer

\* Mutant of Dropped: the first match is removed, its duplicates stay.
DroppedFirst(l, c) ==
  At(l, {i \in DOMAIN l : l[i] # c \/ \E j \in 1..(i - 1) : l[j] = c})

\* Mutant of Dropped: every challenge for that name goes.
DroppedByName(l, c) == At(l, {i \in DOMAIN l : ~matches(l[i], c.name)})

\* The list after extract_if has dropped every challenge equal to c: the only
\* member of this set.
Dropped(l, c) == At(l, {i \in DOMAIN l : l[i] # c})

set(c) ==
  /\ list' = Pushed(list, c)
  /\ wanted' = wanted \cup {c}
  /\ since' = [d \in Challenge |->
                 IF d = c THEN 0
                 ELSE IF since[d] < MAX_LEN THEN since[d] + 1 ELSE since[d]]

cleanup(c) ==
  /\ list' \in Dropped(list, c)
  /\ wanted' = wanted \ {c}
  /\ UNCHANGED since

Init ==
  /\ list = <<>>
  /\ wanted = {}
  /\ since = [c \in Challenge |-> 0]

Next == \E c \in Challenge : set(c) \/ cleanup(c)

Spec == Init /\ [][Next]_vars

-----------------------------------------------------------------------------
(* Properties.                                                             *)

\* The shape of the list and of its history, and the bound of the list
\* (challenges.rs:44; README, "a maximum of 100").
TypeOK ==
  /\ list \in Seq(Challenge)
  /\ Len(list) <= MAX_LEN
  /\ wanted \in SUBSET Challenge
  /\ since \in [Challenge -> 0..MAX_LEN]

\* A challenge that was set and not cleaned up is served until MAX_LEN others
\* have been set after it (challenges.rs:42-51): neither a cleanup of another
\* challenge, nor one under a name that matches, nor a retried set that left
\* duplicates costs it its place.
Kept ==
  \A c \in wanted : since[c] < MAX_LEN => \E i \in DOMAIN list : list[i] = c

\* Only challenges that are wanted are served: one cleanup takes back every
\* duplicate that retried sets have left (challenges.rs:50).
NothingElse == \A i \in DOMAIN list : list[i] \in wanted

\* The inductive form of Kept: c is no further from the back than the number
\* of sets that came after its own (challenges.rs:43-46).
Placed(c) == \E i \in DOMAIN list : list[i] = c /\ Len(list) - i <= since[c]

AllPlaced == \A c \in wanted : since[c] < MAX_LEN => Placed(c)
=============================================================================
