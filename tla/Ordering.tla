------------------------------- MODULE Ordering -------------------------------
(***************************************************************************)
(* What ORDER BY, LIMIT and a sort return.  An order is a set of pairs     *)
(* <<m, n>>: m comes before n.                                             *)
(***************************************************************************)
EXTENDS Integers, FiniteSets

\* The elements of S as a sequence.
InOrder(S, order) ==
    [k \in 1..Cardinality(S) |->
        CHOOSE m \in S : Cardinality({n \in S : <<n, m>> \in order}) = k - 1]

\* The last elements of S, at most limit of them.
Newest(S, order, limit) ==
    {m \in S : Cardinality({n \in S : <<m, n>> \in order}) < limit}
=============================================================================
