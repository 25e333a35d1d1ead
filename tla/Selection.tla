------------------------------ MODULE Selection ------------------------------
(***************************************************************************)
(* What SelectSeq returns, by the indices it keeps: a form of it about     *)
(* which the proof system can reason.                                      *)
(***************************************************************************)
EXTENDS Naturals, Sequences, FiniteSets

\* The n-th smallest of a set of numbers.
Nth(S, n) == CHOOSE i \in S : Cardinality({j \in S : j < i}) = n - 1

\* The elements of a sequence at some of its indices, in their order.
Selected(q, S) == [n \in 1 .. Cardinality(S) |-> q[Nth(S, n)]]
=============================================================================
