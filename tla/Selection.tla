------------------------------ MODULE Selection ------------------------------
(***************************************************************************)
(* What erasing elements of a vector leaves (std::vector::erase and        *)
(* std::remove): the others, in their order.                               *)
(***************************************************************************)
EXTENDS Integers, Sequences, FiniteSets

\* Of the numbers in S the k-th.
Nth(S, k) == CHOOSE i \in S : Cardinality({j \in S : j <= i}) = k

\* The elements of seq whose indexes are in S.
Selected(seq, S) == [k \in 1..Cardinality(S) |-> seq[Nth(S, k)]]

\* The elements of seq that are not e.
Erased(seq, e) == Selected(seq, {i \in DOMAIN seq : seq[i] # e})
=============================================================================
