----------------------------- MODULE MCPlatform -----------------------------
(* Platform on small instances: two overlapping requests everywhere.  The   *)
(* values x1 and x2 stand for any two rows, tabs or values that may be      *)
(* exchanged, whatever the part.                                            *)
EXTENDS Platform, TLC

CONSTANTS c1, c2, r1, r2, nid, x1, x2, x3, u1, u2, q1, p1, j1, j2

\* A leave of two days and one of half a day on the second of them.
Days == [r \in {r1, r2} |-> IF r = r1 THEN {1, 2} ELSE {2}]

\* What the employee is entitled to grows with the date, and may be recomputed: after a
\* raise the earlier date may come to more than the later one did.
Entitled == [d \in {1, 2} |-> IF d = 1 THEN {1, 3} ELSE {2, 3}]

\* Two tabs of one user, one of the other.
TabUsers == [t \in {x1, x2, x3} |-> IF t = x3 THEN u2 ELSE u1]

\* No roles, and a role that lets the user in by a wildcard.
Tokened == {{}, {<<"orders", "*">>}}

Updates == {<<"orders", "update">>}

\* Nothing in the table of routes depends on a constant, so this is the whole of it.
ASSUME RoutesAssumption == RoutesFitSeed

Symmetry == Permutations(Clients) \cup Permutations({x1, x2})
=============================================================================
