------------------------------- MODULE Orders -------------------------------
(***************************************************************************)
(* Sorting by a key that tells elements apart: before is the set of pairs  *)
(* of which the first has the lower key.                                   *)
(***************************************************************************)
EXTENDS Integers, Sequences, FiniteSets

IsOrder(S, before) ==
    /\ \A x \in S : <<x, x>> \notin before
    /\ \A x, y \in S : x = y \/ <<x, y>> \in before \/ <<y, x>> \in before
    /\ \A x, y, z \in S : <<x, y>> \in before /\ <<y, z>> \in before => <<x, z>> \in before

PlaceIn(S, before, x) == Cardinality({y \in S : <<y, x>> \in before}) + 1

\* sorted.
Ordered(S, before) ==
    [i \in 1..Cardinality(S) |-> CHOOSE x \in S : PlaceIn(S, before, x) = i]

\* sorted, of numbers.
InTurn(S) == Ordered(S, {e \in S \X S : e[1] < e[2]})

\* min.
Foremost(S, before) == CHOOSE x \in S : \A y \in S \ {x} : <<x, y>> \in before
=============================================================================
