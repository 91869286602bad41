---------------------------- MODULE MCStockLedger ----------------------------
(* StockLedger on small instances, one for receipts and one for counts. *)
EXTENDS StockLedger, TLC

CONSTANTS c1, c2, i1, i2, w1, w2, n1, g1

MCReorderLevel == [i \in Items |-> IF i = i1 THEN 1 ELSE 0]

\* Two accepted lines of one item, and a line of which nothing was accepted.
MCGrnLines ==
    [g \in Grns |->
        {[line |-> 1, item |-> i1, warehouse |-> w1, qty |-> 1],
         [line |-> 2, item |-> i1, warehouse |-> w2, qty |-> 1],
         [line |-> 3, item |-> i1, warehouse |-> w1, qty |-> 0]}]

ClientSymmetry == Permutations(Clients)
=============================================================================
