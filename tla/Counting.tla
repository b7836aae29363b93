------------------------------ MODULE Counting ------------------------------
(***************************************************************************)
(* Sums of amounts, and filtered sequences: the k-th entry that a filter   *)
(* keeps is the one with k kept entries up to it.                          *)
(***************************************************************************)
EXTENDS Integers, FiniteSets, FiniteSetsExt

\* The sum of amount[x] over the members x of S.
Total(amount, S) == MapThenSumSet(LAMBDA x : amount[x], S)

\* How many of the indices I come no later than i.
Rank(I, i) == Cardinality(I \cap (1..i))

\* The entries of seq at the indices I, in their order.
AtIndices(seq, I) ==
  [k \in 1..Cardinality(I) |-> seq[CHOOSE i \in I : Rank(I, i) = k]]
=============================================================================
