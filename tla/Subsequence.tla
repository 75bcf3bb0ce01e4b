---------------------------- MODULE Subsequence -----------------------------
(***************************************************************************)
(* A list from which elements are taken out, the others staying in order   *)
(* (std::forward_list::remove, std::vector::erase of std::remove).  Said   *)
(* by what the result is, not by recursion, so that it can be reasoned     *)
(* about.                                                                  *)
(***************************************************************************)
EXTENDS Integers, Sequences, FiniteSets

\* The ways to walk through the positions in upward order: there is one.
Walks(kept) ==
    LET n == Cardinality(kept)
    IN  {f \in [1..n -> kept] :
            /\ \A i, j \in 1..n : i < j => f[i] < f[j]
            /\ \A k \in kept : \E i \in 1..n : f[i] = k}

\* The sequence of the elements of s at the positions kept.
Kept(s, kept) == {[i \in 1..Cardinality(kept) |-> s[f[i]]] : f \in Walks(kept)}

\* The sequence s without x.
Without(s, x) == Kept(s, {i \in 1..Len(s) : s[i] # x})
=============================================================================
