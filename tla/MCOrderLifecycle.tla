-------------------------- MODULE MCOrderLifecycle --------------------------
(* OrderLifecycle on a small instance: every sample belongs to the order. *)
EXTENDS OrderLifecycle, TLC

CONSTANTS c1, c2, c3, o1, s1

MCSampleOrder == [s \in {s1} |-> o1]

ClientSymmetry == Permutations(Clients)
=============================================================================
