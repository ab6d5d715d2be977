------------------------------ MODULE Positions ------------------------------
(***************************************************************************)
(* Selections from a sequence by the set of the positions that stay.  They *)
(* are SelectSeq and sorting said with sets and cardinalities, which       *)
(* proofs can take apart.                                                  *)
(***************************************************************************)
EXTENDS Integers, Sequences, FiniteSets

\* A sequence, whatever its elements.
IsList(s) == s \in Seq({s[i] : i \in DOMAIN s})

(* The position in I that has k - 1 positions of I before it. *)
Nth(I, k) == CHOOSE i \in I : Cardinality({j \in I : j <= i}) = k

(* What s has at the positions in I, in the order of s. *)
Picked(s, I) == [k \in 1..Cardinality(I) |-> s[Nth(I, k)]]
=============================================================================
