-------------------------- MODULE DocNumberProofs ---------------------------
(***************************************************************************)
(* Proofs about DocNumber for any number of requests, prefixes and years:  *)
(* the row lock hands every transaction the successor of the committed     *)
(* counter, the committed numbers have no gap, printed numbers do not      *)
(* collide while they fit into pad_length digits, and the implementation   *)
(* refines the atomic counter DocCounter.                                  *)
(***************************************************************************)
EXTENDS DocNumber, TLAPS

\* Every counter, lock, transaction and document keeps its shape.
THEOREM TypeCorrect == Spec => []TypeOK
<1>1. Init => TypeOK
  BY YearAssumption DEF Init, TypeOK, TxState, NoTx
<1>2. TypeOK /\ [Next]_vars => TypeOK'
  <2> SUFFICES ASSUME TypeOK, [Next]_vars PROVE TypeOK'
    OBVIOUS
  <2> USE DEF TypeOK
  <2>1. CASE NewYear
    BY <2>1, YearAssumption DEF NewYear
  <2>2. ASSUME NEW c \in Clients, NEW p \in Prefixes, Begin(c, p)
        PROVE  TypeOK'
    BY <2>2 DEF Begin, Waiting, TxState
  <2>3. ASSUME NEW c \in Clients, NextDocNumber(c)
        PROVE  TypeOK'
    BY <2>3 DEF NextDocNumber, Numbered, TxState, NoTx
  <2>4. ASSUME NEW c \in Clients, Commit(c)
        PROVE  TypeOK'
    BY <2>4 DEF Commit, Holds, TxState, NoTx, Document
  <2>5. ASSUME NEW c \in Clients, Rollback(c)
        PROVE  TypeOK'
    BY <2>5 DEF Rollback, Holds, TxState, NoTx
  <2>6. CASE UNCHANGED vars
    BY <2>6 DEF vars
  <2>7. QED
    BY <2>1, <2>2, <2>3, <2>4, <2>5, <2>6 DEF Next
<1>3. QED
  BY <1>1, <1>2, PTL DEF Spec

\* A row lock has one owner, so its holder alone moves the counter: the
\* number it was given stays the successor of the committed one until it
\* commits or rolls back.
THEOREM HeldNumberSafe == Spec => []HeldNumberIsNext
<1>1. Init => HeldNumberIsNext
  BY DEF Init, HeldNumberIsNext, Holds, NoTx
<1>2. TypeOK /\ HeldNumberIsNext /\ [Next]_vars => HeldNumberIsNext'
  <2> SUFFICES ASSUME TypeOK, HeldNumberIsNext, [Next]_vars
               PROVE  HeldNumberIsNext'
    OBVIOUS
  <2> USE ClientAssumption DEF TypeOK, HeldNumberIsNext, Holds
  <2>1. CASE NewYear
    BY <2>1 DEF NewYear
  <2>2. ASSUME NEW c \in Clients, NEW p \in Prefixes, Begin(c, p)
        PROVE  HeldNumberIsNext'
    BY <2>2 DEF Begin, Waiting
  <2>3. ASSUME NEW c \in Clients, NextDocNumber(c)
        PROVE  HeldNumberIsNext'
    BY <2>3 DEF NextDocNumber, Numbered, TxState, NoTx
  <2>4. ASSUME NEW c \in Clients, Commit(c)
        PROVE  HeldNumberIsNext'
    BY <2>4 DEF Commit, NoTx, TxState
  <2>5. ASSUME NEW c \in Clients, Rollback(c)
        PROVE  HeldNumberIsNext'
    BY <2>5 DEF Rollback, NoTx, TxState
  <2>6. CASE UNCHANGED vars
    BY <2>6 DEF vars
  <2>7. QED
    BY <2>1, <2>2, <2>3, <2>4, <2>5, <2>6 DEF Next
<1>3. QED
  BY <1>1, <1>2, TypeCorrect, PTL DEF Spec

\* The numbers of the committed documents of prefix p.
Committed(p) == {d.number : d \in {e \in documents : e.prefix = p}}

\* A commit adds the one number that follows those already there; a rollback
\* returns its number, so the next holder takes it: no gap is ever left.
THEOREM GaplessSafe == Spec => []Gapless
<1>1. Init => Gapless
  BY DEF Init, Gapless
<1>2. TypeOK /\ HeldNumberIsNext /\ Gapless /\ [Next]_vars => Gapless'
  <2> SUFFICES ASSUME TypeOK, HeldNumberIsNext, Gapless, [Next]_vars
               PROVE  Gapless'
    OBVIOUS
  <2>1. CASE UNCHANGED <<lastNumber, documents>>
    BY <2>1 DEF Gapless
  <2>2. ASSUME NEW c \in Clients, Commit(c)
        PROVE  Gapless'
    <3> DEFINE q == tx[c].prefix
               n == lastNumber[q]
               Doc == [prefix |-> q, year |-> tx[c].year,
                       number |-> tx[c].number]
    <3>1. q \in Prefixes /\ n \in Nat /\ tx[c].number = n + 1
      BY <2>2 DEF Commit, Holds, TypeOK, TxState, NoTx, HeldNumberIsNext
    <3>2. /\ documents' = documents \cup {Doc}
          /\ lastNumber' = [lastNumber EXCEPT ![q] = n + 1]
      BY <2>2, <3>1 DEF Commit
    <3>3. ASSUME NEW p \in Prefixes
          PROVE  Committed(p)' = 1..lastNumber'[p]
      <4>1. Committed(p) = 1..lastNumber[p]
        BY DEF Gapless, Committed
      <4>2. CASE p = q
        <5>1. Committed(p)' = Committed(p) \cup {n + 1}
          <6>1. {e \in documents' : e.prefix = p}
                  = {e \in documents : e.prefix = p} \cup {Doc}
            BY <3>2, <4>2
          <6>2. Doc.number = n + 1
            BY <3>1
          <6>3. QED
            BY <6>1, <6>2 DEF Committed
        <5>2. lastNumber'[p] = n + 1
          BY <3>1, <3>2, <4>2 DEF TypeOK
        <5>3. 1..(n + 1) = 1..n \cup {n + 1}
          BY <3>1
        <5>4. QED
          BY <4>1, <4>2, <5>1, <5>2, <5>3
      <4>3. CASE p # q
        <5>1. {e \in documents' : e.prefix = p} = {e \in documents : e.prefix = p}
          BY <3>2, <4>3
        <5>2. lastNumber'[p] = lastNumber[p]
          BY <3>2, <4>3 DEF TypeOK
        <5>3. QED
          BY <4>1, <5>1, <5>2 DEF Committed
      <4>4. QED
        BY <4>2, <4>3
    <3>4. QED
      BY <3>3 DEF Gapless, Committed
  <2>3. QED
    BY <2>1, <2>2 DEF Next, vars, NewYear, Begin, NextDocNumber, Rollback
<1>3. QED
  BY <1>1, <1>2, TypeCorrect, HeldNumberSafe, PTL DEF Spec

\* The counters still print within pad_length digits.
WithinPadding == \A p \in Prefixes : lastNumber[p] + 1 < PadLimit

\* As long as the counters fit into pad_length digits, the text handed out is
\* never that of a committed document; beyond that LPAD cuts digits off and
\* the property fails (run pad_overflow).
THEOREM NoDuplicateWithinPadding == Spec => [](WithinPadding => NoDuplicateText)
<1>1. TypeOK /\ HeldNumberIsNext /\ Gapless /\ WithinPadding => NoDuplicateText
  <2> SUFFICES ASSUME TypeOK, HeldNumberIsNext, Gapless, WithinPadding,
                      NEW c \in Clients, Holds(c),
                      NEW d \in documents,
                      Text(d) = Text(tx[c])
               PROVE  FALSE
    BY DEF NoDuplicateText, UniqueNumber
  <2> DEFINE p == tx[c].prefix
             n == lastNumber[p]
  <2>1. /\ p \in Prefixes /\ n \in Nat
        /\ tx[c].number = n + 1
        /\ n + 1 < PadLimit
    BY DEF Holds, TypeOK, TxState, NoTx, HeldNumberIsNext, WithinPadding
  <2>2. d.prefix = p /\ LPad(d.number) = LPad(n + 1)
    BY <2>1 DEF Text
  <2>3. d.number \in 1..n
    BY <2>1, <2>2 DEF Gapless
  <2>4. PadLimit \in Nat
    BY <2>1, PadAssumption DEF PadLimit
  <2>5. LPad(d.number) = d.number /\ LPad(n + 1) = n + 1
    BY <2>1, <2>3, <2>4 DEF LPad
  <2>6. QED
    BY <2>1, <2>2, <2>3, <2>5
<1>2. QED
  BY <1>1, TypeCorrect, HeldNumberSafe, GaplessSafe, PTL

\* Only Commit changes a counter or the documents, and it changes them
\* together: a step of the implementation is a step of the atomic counter.
THEOREM RefinesCounter == Spec => ImplementsCounter
<1>1. Init => Counter!Init
  BY DEF Init, Counter!Init
<1>2. TypeOK /\ HeldNumberIsNext /\ [Next]_vars => [Counter!Next]_Counter!vars
  <2> SUFFICES ASSUME TypeOK, HeldNumberIsNext, [Next]_vars
               PROVE  [Counter!Next]_Counter!vars
    OBVIOUS
  <2> USE DEF Counter!vars
  <2>1. CASE NewYear
    BY <2>1 DEF NewYear
  <2>2. ASSUME NEW c \in Clients, NEW p \in Prefixes, Begin(c, p)
        PROVE  UNCHANGED Counter!vars
    BY <2>2 DEF Begin
  <2>3. ASSUME NEW c \in Clients, NextDocNumber(c)
        PROVE  UNCHANGED Counter!vars
    BY <2>3 DEF NextDocNumber
  <2>4. ASSUME NEW c \in Clients, Commit(c)
        PROVE  Counter!Next
    <3>1. tx[c].prefix \in Prefixes
      BY <2>4 DEF TypeOK, TxState, NoTx, Commit, Holds
    <3>2. Counter!Issue(tx[c].prefix)
      <4>1. tx[c].number = lastNumber[tx[c].prefix] + 1
        BY <2>4 DEF HeldNumberIsNext, Commit
      <4>2. lastNumber' = [lastNumber EXCEPT ![tx[c].prefix] = @ + 1]
        BY <2>4, <4>1 DEF Commit, TypeOK
      <4>3. {[prefix |-> d.prefix, number |-> d.number] : d \in documents'}
              = {[prefix |-> d.prefix, number |-> d.number] : d \in documents}
                \cup {[prefix |-> tx[c].prefix,
                       number |-> lastNumber[tx[c].prefix] + 1]}
        <5> DEFINE Doc == [prefix |-> tx[c].prefix, year |-> tx[c].year,
                           number |-> tx[c].number]
                   View(S) == {[prefix |-> d.prefix, number |-> d.number] : d \in S}
        <5>1. documents' = documents \cup {Doc}
          BY <2>4 DEF Commit
        <5>2. View(documents \cup {Doc})
                = View(documents) \cup
                  {[prefix |-> Doc.prefix, number |-> Doc.number]}
          OBVIOUS
        <5>3. QED
          BY <5>1, <5>2, <4>1
      <4>4. QED
        BY <4>2, <4>3 DEF Counter!Issue
    <3>3. QED
      BY <3>1, <3>2 DEF Counter!Next, Counter!Issue
  <2>5. ASSUME NEW c \in Clients, Rollback(c)
        PROVE  UNCHANGED Counter!vars
    BY <2>5 DEF Rollback
  <2>6. CASE UNCHANGED vars
    BY <2>6 DEF vars
  <2>7. QED
    BY <2>1, <2>2, <2>3, <2>4, <2>5, <2>6 DEF Next
<1>3. QED
  BY <1>1, <1>2, TypeCorrect, HeldNumberSafe, PTL
     DEF Spec, ImplementsCounter, Counter!Spec

=============================================================================
