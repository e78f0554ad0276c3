------------------------------- MODULE MCSessions -------------------------------
(* Instances of Sessions for TLC.                                            *)
EXTENDS Sessions, TLC

CONSTANTS p1, p2, t1, t2, t3

\* A process of two threads and one of a single thread.
TwoAndOne == t1 :> p1 @@ t2 :> p1 @@ t3 :> p2

Symmetry == Permutations({t1, t2}) \union Permutations(Files)

=============================================================================
