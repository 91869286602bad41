---------------------------- MODULE MCProcurement ----------------------------
(* Procurement on small instances, one for drafting and one for receiving. *)
EXTENDS Procurement, TLC

CONSTANTS c1, c2, p1, p2, l1, l2, l3, g1, g2

\* Drafting: totals from 1 to 4, on four sides of three thresholds.
DraftSpecs == {[qty |-> 1, price |-> 1], [qty |-> 2, price |-> 1]}

DraftThresholds == [lineMgr |-> 2, manager |-> 3, finance |-> 4]

\* Receiving: lines of one piece, of which one or none is accepted.
ReceiveSpecs == {[qty |-> 1, price |-> 1]}

ReceiveThresholds == [lineMgr |-> 1, manager |-> 2, finance |-> 3]

ReceiveEntries == {[received |-> 1, accepted |-> 1, rejected |-> 0]}

ReceivePatches == {[accepted |-> 0], [rejected |-> 1]}

Symmetry == Permutations(Clients) \cup Permutations(Orders)
                \cup Permutations(LineIds) \cup Permutations(Receipts)
=============================================================================
