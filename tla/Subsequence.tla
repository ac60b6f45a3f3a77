----------------------------- MODULE Subsequence -----------------------------
(***************************************************************************)
(* The elements of a sequence at a set of positions, in their order: what  *)
(* Array.prototype.filter keeps. It is written without recursion, unlike   *)
(* SelectSeq, because the prover can reason about it (Subsequence_proofs). *)
(***************************************************************************)
EXTENDS Naturals, Sequences, FiniteSets

\* The k-th smallest element of the set I of numbers.
Nth(I, k) == CHOOSE i \in I : Cardinality({j \in I : j <= i}) = k

\* The subsequence of s at the positions I.
Pick(s, I) == [k \in 1 .. Cardinality(I) |-> s[Nth(I, k)]]
==============================================================================
