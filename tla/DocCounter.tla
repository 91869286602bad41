----------------------------- MODULE DocCounter -----------------------------
(***************************************************************************)
(* What sys.next_doc_number promises its callers: one counter per prefix,  *)
(* and a document that takes the next number in the same instant as it     *)
(* comes into existence.  No locks, no transactions, no formatting.        *)
(***************************************************************************)
EXTENDS Naturals

CONSTANT Prefixes

VARIABLES
    lastNumber,  \* lastNumber[p]: the counter row of prefix p
    documents    \* the documents that exist, as [prefix, number]

vars == <<lastNumber, documents>>

Init ==
    /\ lastNumber = [p \in Prefixes |-> 0]
    /\ documents = {}

Issue(p) ==
    /\ lastNumber' = [lastNumber EXCEPT ![p] = @ + 1]
    /\ documents' = documents \cup {[prefix |-> p, number |-> lastNumber[p] + 1]}

Next == \E p \in Prefixes : Issue(p)

Spec == Init /\ [][Next]_vars
=============================================================================
