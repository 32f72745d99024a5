------------------------------- MODULE Values -------------------------------
(* The values the calculations share: numbers are integers, and Undefined  *)
(* stands for the source's undefined and null.                             *)
EXTENDS Integers, FiniteSetsExt, Functions, SequencesExt, TLC

CONSTANT Undefined

ASSUME UndefinedAssumption == Undefined \notin Int

AbsOf(n) == IF n < 0 THEN -n ELSE n

(* The elements of S in their order: k - 1 of them precede the k-th. *)
Arranged(S, precedes(_, _)) ==
    [k \in 1 .. Cardinality(S) |-> CHOOSE x \in S : Cardinality({y \in S : precedes(y, x)}) = k - 1]

Ascending(S) == Arranged(S, <)

(* Positions in ascending order of key, those of one key as they come. *)
PositionsBy(S, key(_), before(_, _)) ==
    Arranged(S, LAMBDA i, j : before(key(i), key(j)) \/ (~before(key(j), key(i)) /\ i < j))

(* The elements of seq in ascending order of key, equal ones as they come.  *)
SortedBy(seq, key(_), before(_, _)) ==
    LET order == SortSeq([i \in DOMAIN seq |-> i], LAMBDA i, j :
                    \/ before(key(seq[i]), key(seq[j]))
                    \/ ~before(key(seq[j]), key(seq[i])) /\ i < j)
    IN  [k \in DOMAIN seq |-> seq[order[k]]]
=============================================================================
