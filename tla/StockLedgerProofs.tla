-------------------------- MODULE StockLedgerProofs --------------------------
(***************************************************************************)
(* Proofs about StockLedger for any number of requests, items, warehouses, *)
(* counts and receipts, and for both bodies of the trigger.                *)
(***************************************************************************)
EXTENDS StockLedger, Sums, SequenceTheorems, TLAPS

\* Every field of a line is a field of a count that exists.
LEMMA LineOfCount ==
    ASSUME NEW row \in Count, NEW i \in Lines(row)
    PROVE  i \in Items /\ row.lines[i] \in Line
BY DEF Count, Lines

\* Approving a count posts proper movements, one per item.
LEMMA AdjustmentsType ==
    ASSUME NEW row \in Count
    PROVE  /\ Adjustments(row) \subseteq Movement
           /\ \A m, k \in Adjustments(row) : m.line = k.line => m = k
<1>1. ASSUME NEW i \in Lines(row), row.lines[i].physical # Uncounted,
             Variance(row.lines[i]) # 0
      PROVE  /\ i \in Items
             /\ Variance(row.lines[i]) \in Int
  <2>1. i \in Items /\ row.lines[i] \in Line
    BY LineOfCount
  <2>2. row.lines[i].physical \in Nat /\ row.lines[i].system \in Nat
    BY <1>1, <2>1, QuantityAssumption DEF Line
  <2>3. QED
    BY <2>1, <2>2 DEF Variance
<1>2. row.warehouse \in Warehouses
  BY DEF Count
<1>3. Adjustments(row) \subseteq Movement
  BY <1>1, <1>2 DEF Adjustments, Movement
<1>4. \A m, k \in Adjustments(row) : m.line = k.line => m = k
  BY DEF Adjustments
<1>5. QED
  BY <1>3, <1>4

\* A receipt posts proper movements, one per line.
LEMMA ReceiptType ==
    ASSUME NEW g \in Grns
    PROVE  /\ Receipt(g) \subseteq Movement
           /\ \A m, k \in Receipt(g) : m.line = k.line => m = k
<1>1. GrnLines[g] \subseteq GrnLine
  BY GrnAssumption
<1>2. Receipt(g) \subseteq Movement
  BY <1>1 DEF Receipt, Movement, GrnLine
<1>3. \A k, l \in GrnLines[g] : k.line = l.line => k = l
  BY GrnAssumption
<1>4. \A m, k \in Receipt(g) : m.line = k.line => m = k
  BY <1>3 DEF Receipt
<1>5. QED
  BY <1>2, <1>4

\* A movement signs its quantity and names a place.
LEMMA MovementType ==
    ASSUME NEW m \in Movement
    PROVE  /\ Signed(m) \in Int /\ Place(m) \in Places
           /\ m.item \in Items /\ m.warehouse \in Warehouses
BY DEF Movement, Signed, Place, Places

\* rows still has every count there is, with the same lines.
Keeps(rows) ==
    \A k \in Counts : count[k] # NoCount =>
        rows[k] # NoCount /\ Lines(rows[k]) = Lines(count[k])

LEMMA Same == count' = count => Keeps(count')
BY DEF Keeps

\* Writing a count as a row with the same lines, if it was there, keeps all.
LEMMA CountWritten ==
    ASSUME TypeOK, NEW n \in Counts, NEW row \in Count,
           count[n] # NoCount => Lines(row) = Lines(count[n]),
           count' = [count EXCEPT ![n] = row]
    PROVE  count' \in [Counts -> Count \cup {NoCount}] /\ Keeps(count')
<1>1. row # NoCount
  BY DEF Count, CountStatus, NoCount
<1>2. QED
  BY <1>1 DEF TypeOK, Keeps

\* The requests of each kind.
LEMMA RequestKinds ==
    ASSUME TypeOK, NEW c \in Clients
    PROVE  /\ Posts(req[c]) =>
                /\ req[c].job \in Job /\ req[c].todo \subseteq Movement
                /\ req[c].seen \in Count \cup {NoCount}
                /\ req[c].kind # "next" => req[c].current \in Movement
           /\ req[c].kind = "create" =>
                req[c] \in [kind : {"create"}, count : Counts, warehouse : Warehouses,
                            since : Nat, lines : [Items -> Line \cup {NoLine}]]
           /\ req[c].kind = "line" =>
                req[c] \in [kind : {"line"}, count : Counts, seen : Count,
                            item : Items, physical : Counted]
           /\ req[c].kind = "status" =>
                req[c] \in [kind : {"status"}, count : Counts, seen : Count,
                            to : CountStatus]
           /\ RefersTo(req[c], count)
<1>1. req[c] \in Request /\ RefersTo(req[c], count)
  BY DEF TypeOK
<1>2. QED
  BY <1>1 DEF Request, Idle, Posts

\* A step that changes one request and keeps the counts.
LEMMA RequestTyped ==
    ASSUME TypeOK, NEW c \in Clients, NEW r \in Request,
           req' = [req EXCEPT ![c] = r], Keeps(count'), RefersTo(r, count')
    PROVE  /\ req' \in [Clients -> Request]
           /\ \A d \in Clients : RefersTo(req'[d], count')
<1>1. req' \in [Clients -> Request] /\ req'[c] = r
  BY DEF TypeOK
<1>2. ASSUME NEW d \in Clients, d # c PROVE RefersTo(req[d], count')
  <2>1. RefersTo(req[d], count)
    BY DEF TypeOK
  <2>2. req[d].kind \in {"line", "status"} => req[d].count \in Counts
    BY RequestKinds
  <2>3. Posts(req[d]) /\ req[d].job.type = "count" => req[d].job.id \in Counts
    BY RequestKinds DEF Job
  <2>4. QED
    BY <2>1, <2>2, <2>3 DEF RefersTo, Keeps
<1>3. \A d \in Clients : d # c => req'[d] = req[d]
  BY DEF TypeOK
<1>4. QED
  BY <1>1, <1>2, <1>3

-----------------------------------------------------------------------------
\* No two requests create one count, and none creates a count that is there.
CreatesApart ==
    \A c \in Clients : req[c].kind = "create" =>
        /\ count[req[c].count] = NoCount
        /\ \A d \in Clients : req[d].kind = "create" /\ req[d].count = req[c].count
               => d = c

\* Types are kept by every step.
LEMMA TypeStep == TypeOK /\ CreatesApart /\ [Next]_vars => TypeOK'
<1> SUFFICES ASSUME TypeOK, CreatesApart, [Next]_vars PROVE TypeOK'
  OBVIOUS
<1>1. ASSUME NEW x \in Masters, SetActive(x) PROVE TypeOK'
  BY <1>1, MasterAssumption DEF SetActive, TypeOK
<1>2. ASSUME NEW c \in Clients, req' = [req EXCEPT ![c] = Idle],
             Keeps(count')
      PROVE  req' \in [Clients -> Request] /\ \A d \in Clients : RefersTo(req'[d], count')
  <2>1. Idle \in Request /\ RefersTo(Idle, count')
    BY DEF Idle, Request, RefersTo, Posts
  <2>2. QED
    BY <1>2, <2>1, RequestTyped
<1>3. ASSUME NEW c \in Clients, req' = [req EXCEPT ![c] = Idle],
             \/ abandoned' = abandoned
             \/ Posts(req[c]) /\ abandoned' = abandoned \cup {req[c].job},
             alert' \in [Items -> {"quiet", "raised", "lost"}],
             UNCHANGED <<trigger, active, ledger, balance, stocked, count,
                         approvals, events, overtaken>>
      PROVE  TypeOK'
  <2>1. req' \in [Clients -> Request] /\ \A d \in Clients : RefersTo(req'[d], count')
    BY <1>2, <1>3, Same
  <2>2. Posts(req[c]) => req[c].job \in Job
    BY RequestKinds
  <2>3. abandoned' \subseteq Job
    BY <1>3, <2>2 DEF TypeOK
  <2>4. QED
    BY <1>3, <2>1, <2>3 DEF TypeOK
<1>4. ASSUME NEW c \in Clients, Abandon(c)
      PROVE  /\ req' = [req EXCEPT ![c] = Idle]
             /\ \/ abandoned' = abandoned
                \/ Posts(req[c]) /\ abandoned' = abandoned \cup {req[c].job}
  BY <1>4 DEF Abandon
<1>5. ASSUME NEW c \in Clients, RejectMovement(c) \/ RefuseMovement(c)
      PROVE  TypeOK'
  <2>1. alert \in [Items -> {"quiet", "raised", "lost"}]
    BY DEF TypeOK
  <2>2. QED
    BY <1>3, <1>4, <1>5, <2>1 DEF RejectMovement, RefuseMovement
<1>6. ASSUME NEW c \in Clients, Crash(c) PROVE TypeOK'
  <2>1. alert' \in [Items -> {"quiet", "raised", "lost"}]
    BY <1>6 DEF Crash, TypeOK
  <2>2. QED
    BY <1>3, <1>4, <1>6, <2>1 DEF Crash
<1>7. ASSUME NEW c \in Clients, FinishPosting(c) PROVE TypeOK'
  <2>1. alert \in [Items -> {"quiet", "raised", "lost"}]
    BY DEF TypeOK
  <2>2. QED
    BY <1>3, <1>7, <2>1 DEF FinishPosting
\* Steps that change the request and what is left of the counters only.
<1>8. ASSUME NEW c \in Clients, NEW r \in Request, req' = [req EXCEPT ![c] = r],
             RefersTo(r, count'),
             UNCHANGED <<trigger, active, ledger, balance, stocked, count, abandoned>>,
             approvals' \in [Counts -> Nat], events' \in [Grns -> Nat],
             alert' \in [Items -> {"quiet", "raised", "lost"}],
             overtaken' = overtaken
      PROVE  TypeOK'
  <2>1. req' \in [Clients -> Request] /\ \A d \in Clients : RefersTo(req'[d], count')
    BY <1>8, Same, RequestTyped DEF TypeOK
  <2>2. QED
    BY <1>8, <2>1 DEF TypeOK
<1>9. ASSUME NEW c \in Clients, StartMovement(c) PROVE TypeOK'
  <2>1. PICK i \in Items, w \in Warehouses, q \in Quantities, d \in {1, -1} :
          req' = [req EXCEPT ![c] =
              Posting([type |-> "move", id |-> None, run |-> 1],
                      {[line |-> None, item |-> i, warehouse |-> w, qty |-> q,
                        direction |-> d]},
                      NoCount)]
    BY <1>9 DEF StartMovement
  <2> DEFINE m == [line |-> None, item |-> i, warehouse |-> w, qty |-> q, direction |-> d]
             j == [type |-> "move", id |-> None, run |-> 1]
  <2>2. m \in Movement
    BY QuantityAssumption DEF Movement
  <2>3. j \in Job /\ j.type # "count"
    BY DEF Job
  <2> HIDE DEF m, j
  <2>4. Posting(j, {m}, NoCount) \in Request
    BY <2>2, <2>3 DEF Posting, Request
  <2>5. RefersTo(Posting(j, {m}, NoCount), count')
    BY <2>3 DEF RefersTo, Posting, Posts
  <2>6. QED
    BY <1>8, <1>9, <2>1, <2>4, <2>5 DEF StartMovement, TypeOK, m, j
<1>12. ASSUME NEW c \in Clients, CheckMovement(c) PROVE TypeOK'
  <2>1. PICK m \in req[c].todo :
          req' = [req EXCEPT ![c] =
             [kind |-> "commit", job |-> req[c].job, todo |-> req[c].todo,
              seen |-> req[c].seen, current |-> m]]
    BY <1>12 DEF CheckMovement
  <2> DEFINE r == [kind |-> "commit", job |-> req[c].job, todo |-> req[c].todo,
                   seen |-> req[c].seen, current |-> m]
  <2>2. r \in Request
    BY <1>12, RequestKinds DEF CheckMovement, Posts, Request
  <2>3. RefersTo(r, count')
    BY <1>12, RequestKinds DEF CheckMovement, Posts, RefersTo
  <2> HIDE DEF r
  <2>4. QED
    BY <1>8, <1>12, <2>1, <2>2, <2>3 DEF CheckMovement, TypeOK, r
<1>13. ASSUME NEW c \in Clients, PostMovement(c) PROVE TypeOK'
  <2> DEFINE m == req[c].current
             x == [job |-> req[c].job, movement |-> m]
             r == [kind |-> "reorder", job |-> req[c].job, todo |-> req[c].todo,
                   seen |-> req[c].seen, current |-> req[c].current]
  <2>1. /\ m \in Movement /\ req[c].job \in Job
        /\ req[c].todo \subseteq Movement
        /\ req[c].seen \in Count \cup {NoCount}
        /\ RefersTo(req[c], count)
    BY <1>13, RequestKinds DEF PostMovement, Committing, Posts
  <2>2. Signed(m) \in Int /\ Place(m) \in Places
    BY <2>1, MovementType
  <2>3. balance[Place(m)] \in Nat
    BY <2>2 DEF TypeOK
  <2>4. NewBalance(m) \in Nat
    BY <1>13, <2>2, <2>3 DEF PostMovement, TriggerAccepts, NewBalance
  <2>5. x \in [job : Job, movement : Movement]
    BY <2>1
  <2>6. ledger' = Append(ledger, x) /\ balance' = [balance EXCEPT ![Place(m)] = NewBalance(m)]
        /\ stocked' = stocked \cup {Place(m)}
    BY <1>13 DEF PostMovement
  <2>7. ledger' \in Seq([job : Job, movement : Movement])
    BY <2>5, <2>6, AppendProperties DEF TypeOK
  <2>8. balance' \in [Places -> Nat] /\ stocked' \subseteq Places
    BY <2>2, <2>4, <2>6 DEF TypeOK
  <2>9. r \in Request
    BY <2>1 DEF Request
  <2>10. RefersTo(r, count')
    BY <1>13, <2>1 DEF PostMovement, Committing, RefersTo, Posts
  <2>11. req' = [req EXCEPT ![c] = r] /\ count' = count
    BY <1>13 DEF PostMovement
  <2> HIDE DEF r, x, m
  <2>12. req' \in [Clients -> Request] /\ \A d \in Clients : RefersTo(req'[d], count')
    BY <2>9, <2>10, <2>11, Same, RequestTyped
  <2>13. QED
    BY <1>13, <2>7, <2>8, <2>12 DEF PostMovement, TypeOK
<1>14. ASSUME NEW c \in Clients, CheckReorderLevel(c) PROVE TypeOK'
  <2> DEFINE r == Posting(req[c].job, Rest(req[c].todo, req[c].current), req[c].seen)
  <2>1. r \in Request
    BY <1>14, RequestKinds DEF CheckReorderLevel, Posting, Posts, Rest, Request
  <2>2. RefersTo(r, count')
    BY <1>14, RequestKinds DEF CheckReorderLevel, RefersTo, Posting, Posts
  <2>3. alert' \in [Items -> {"quiet", "raised", "lost"}]
    BY <1>14 DEF CheckReorderLevel, TypeOK
  <2>4. req' = [req EXCEPT ![c] = r]
    BY <1>14 DEF CheckReorderLevel
  <2> HIDE DEF r
  <2>5. QED
    BY <1>8, <1>14, <2>1, <2>2, <2>3, <2>4 DEF CheckReorderLevel, TypeOK
<1>15. ASSUME NEW c \in Clients, NEW g \in Grns, GrnApproved(c, g) PROVE TypeOK'
  <2> DEFINE j == [type |-> "grn", id |-> g, run |-> events[g] + 1]
  <2>1. j \in Job /\ j.type # "count"
    BY DEF Job, TypeOK
  <2>2. events' \in [Grns -> Nat]
    BY <1>15 DEF GrnApproved, TypeOK
  <2>3. req' = [req EXCEPT ![c] = Posting(j, Receipt(g), NoCount)]
    BY <1>15 DEF GrnApproved
  <2> HIDE DEF j
  <2>4. Posting(j, Receipt(g), NoCount) \in Request
    BY <2>1, ReceiptType DEF Posting, Request
  <2>5. RefersTo(Posting(j, Receipt(g), NoCount), count')
    BY <2>1 DEF RefersTo, Posting, Posts
  <2>6. QED
    BY <1>8, <1>15, <2>2, <2>3, <2>4, <2>5 DEF GrnApproved, TypeOK
<1>16. ASSUME NEW c \in Clients, NEW n \in Counts, NEW w \in Warehouses,
              ReadBalances(c, n, w)
       PROVE  TypeOK'
  <2> DEFINE lines == [i \in Items |->
                IF active[i] /\ <<i, w>> \in stocked
                  THEN [system |-> balance[<<i, w>>], physical |-> Uncounted]
                  ELSE NoLine]
             r == [kind |-> "create", count |-> n, warehouse |-> w,
                   since |-> Len(ledger), lines |-> lines]
  <2>1. lines \in [Items -> Line \cup {NoLine}]
    BY DEF TypeOK, Places, Line
  <2>2. Len(ledger) \in Nat
    BY LenProperties DEF TypeOK
  <2>3. req' = [req EXCEPT ![c] = r]
    BY <1>16 DEF ReadBalances
  <2> HIDE DEF lines
  <2>4. r \in Request /\ RefersTo(r, count')
    BY <2>1, <2>2 DEF Request, RefersTo, Posts
  <2> HIDE DEF r
  <2>5. QED
    BY <1>8, <1>16, <2>3, <2>4 DEF ReadBalances, TypeOK
<1>17. ASSUME NEW c \in Clients, NEW n \in Counts, NEW i \in Items,
              ReadForLine(c, n, i)
       PROVE  TypeOK'
  <2>1. PICK q \in Counted :
          req' = [req EXCEPT ![c] =
              [kind |-> "line", count |-> n, seen |-> count[n], item |-> i,
               physical |-> q]]
    BY <1>17 DEF ReadForLine
  <2> DEFINE r == [kind |-> "line", count |-> n, seen |-> count[n], item |-> i,
                   physical |-> q]
  <2>2. count[n] \in Count /\ count[n] # NoCount
    BY <1>17 DEF ReadForLine, TypeOK, NoCount
  <2>3. r \in Request /\ RefersTo(r, count')
    BY <1>17, <2>2 DEF ReadForLine, Request, RefersTo, Posts
  <2> HIDE DEF r
  <2>4. QED
    BY <1>8, <1>17, <2>1, <2>3 DEF ReadForLine, TypeOK, r
<1>18. ASSUME NEW c \in Clients, NEW n \in Counts,
              NEW to \in {"variance_review", "cancelled"}, ReadForStatus(c, n, to)
       PROVE  TypeOK'
  <2> DEFINE r == [kind |-> "status", count |-> n, seen |-> count[n], to |-> to]
  <2>1. count[n] \in Count /\ count[n] # NoCount
    BY <1>18 DEF ReadForStatus, TypeOK
  <2>2. r \in Request /\ RefersTo(r, count')
    BY <1>18, <2>1 DEF ReadForStatus, Request, RefersTo, Posts, CountStatus
  <2>3. req' = [req EXCEPT ![c] = r]
    BY <1>18 DEF ReadForStatus
  <2> HIDE DEF r
  <2>4. QED
    BY <1>8, <1>18, <2>2, <2>3 DEF ReadForStatus, TypeOK
<1>19. ASSUME NEW c \in Clients, NEW n \in Counts, ReadForApprove(c, n)
       PROVE  TypeOK'
  <2> DEFINE j == [type |-> "count", id |-> n, run |-> approvals[n] + 1]
  <2>1. count[n] \in Count /\ count[n] # NoCount
    BY <1>19 DEF ReadForApprove, TypeOK
  <2>2. j \in Job /\ j.id = n
    BY DEF Job, TypeOK
  <2>3. approvals' \in [Counts -> Nat]
    BY <1>19 DEF ReadForApprove, TypeOK
  <2>4. req' = [req EXCEPT ![c] = Posting(j, Adjustments(count[n]), count[n])]
    BY <1>19 DEF ReadForApprove
  <2>5. count' = count
    BY <1>19 DEF ReadForApprove
  <2> HIDE DEF j
  <2>6. Posting(j, Adjustments(count[n]), count[n]) \in Request
    BY <2>1, <2>2, AdjustmentsType DEF Posting, Request
  <2>7. RefersTo(Posting(j, Adjustments(count[n]), count[n]), count')
    BY <2>1, <2>2, <2>5 DEF RefersTo, Posting, Posts
  <2>8. QED
    BY <1>8, <1>19, <2>3, <2>4, <2>6, <2>7 DEF ReadForApprove, TypeOK
\* Steps that write one count and end their request.
<1>20. ASSUME NEW c \in Clients, NEW n \in Counts, NEW row \in Count,
              count' = [count EXCEPT ![n] = row], req' = [req EXCEPT ![c] = Idle],
              count[n] # NoCount => Lines(row) = Lines(count[n]),
              overtaken' \in [Counts -> BOOLEAN],
              UNCHANGED <<trigger, active, ledger, balance, stocked, approvals,
                          events, abandoned, alert>>
       PROVE  TypeOK'
  <2>1. count' \in [Counts -> Count \cup {NoCount}] /\ Keeps(count')
    BY <1>20, CountWritten
  <2>2. req' \in [Clients -> Request] /\ \A d \in Clients : RefersTo(req'[d], count')
    BY <1>2, <1>20, <2>1
  <2>3. QED
    BY <1>20, <2>1, <2>2 DEF TypeOK
<1>21. ASSUME NEW n \in Counts, NEW seen, NEW to \in CountStatus, count[n] # NoCount,
              WriteCountStatus(n, seen, to)
       PROVE  \E row \in Count :
                  /\ count' = [count EXCEPT ![n] = row]
                  /\ Lines(row) = Lines(count[n])
                  /\ overtaken' \in [Counts -> BOOLEAN]
  <2>1. count[n] \in Count
    BY <1>21 DEF TypeOK
  <2> DEFINE row == [status |-> to, warehouse |-> count[n].warehouse,
                     since |-> count[n].since, lines |-> count[n].lines]
  <2>2. row \in Count /\ Lines(row) = Lines(count[n])
    BY <1>21, <2>1 DEF Count, Lines
  <2>3. overtaken' \in [Counts -> BOOLEAN]
    BY <1>21 DEF WriteCountStatus, MarkOvertaken, TypeOK
  <2>4. QED
    BY <1>21, <2>2, <2>3 DEF WriteCountStatus
<1>22. ASSUME NEW c \in Clients, CreateCount(c) PROVE TypeOK'
  <2> DEFINE row == [status |-> "open", warehouse |-> req[c].warehouse,
                     since |-> req[c].since, lines |-> req[c].lines]
  <2>1. req[c] \in [kind : {"create"}, count : Counts, warehouse : Warehouses,
                    since : Nat, lines : [Items -> Line \cup {NoLine}]]
    BY <1>22, RequestKinds DEF CreateCount
  <2>2. row \in Count /\ req[c].count \in Counts
    BY <2>1 DEF Count, CountStatus
  <2>3. /\ count' = [count EXCEPT ![req[c].count] = row]
        /\ overtaken' \in [Counts -> BOOLEAN]
    BY <1>22 DEF CreateCount, TypeOK
  <2>4. count[req[c].count] = NoCount
    BY <1>22 DEF CreateCount, CreatesApart
  <2> HIDE DEF row
  <2>5. QED
    BY <1>20, <1>22, <2>2, <2>3, <2>4 DEF CreateCount
<1>23. ASSUME NEW c \in Clients, UpdateLine(c) PROVE TypeOK'
  <2>1. req[c] \in [kind : {"line"}, count : Counts, seen : Count,
                    item : Items, physical : Counted]
    BY <1>23, RequestKinds DEF UpdateLine
  <2>2. PICK n \in Counts, i \in Items : n = req[c].count /\ i = req[c].item
    BY <2>1
  <2>3. count[n] \in Count /\ i \in Lines(count[n])
    BY <1>23, <2>2, RequestKinds DEF UpdateLine, RefersTo, TypeOK
  <2> DEFINE line == [system |-> count[n].lines[i].system,
                      physical |-> req[c].physical]
             row == [status |-> IF req[c].seen.status = "open"
                                  THEN "counting" ELSE req[c].seen.status,
                     warehouse |-> count[n].warehouse,
                     since |-> count[n].since,
                     lines |-> [count[n].lines EXCEPT ![i] = line]]
  <2>4. count' = [count EXCEPT ![n] = row]
    BY <1>23, <2>2 DEF UpdateLine
  <2>5. count[n].lines[i] \in Line
    BY <2>3, LineOfCount
  <2>6. line \in Line /\ line # NoLine
    BY <2>1, <2>5 DEF Line, NoLine
  <2> HIDE DEF line
  <2>7. [count[n].lines EXCEPT ![i] = line] \in [Items -> Line \cup {NoLine}]
    BY <2>3, <2>6 DEF Count
  <2>8. row \in Count
    BY <2>1, <2>3, <2>7 DEF Count, CountStatus
  <2>9. Lines(row) = Lines(count[n])
    BY <2>3, <2>6 DEF Lines, Count
  <2>10. overtaken' \in [Counts -> BOOLEAN]
    BY <1>23, <2>2 DEF UpdateLine, MarkOvertaken, TypeOK
  <2> HIDE DEF row
  <2>11. QED
    BY <1>20, <1>23, <2>4, <2>8, <2>9, <2>10 DEF UpdateLine
<1>24. ASSUME NEW c \in Clients, WriteStatus(c) PROVE TypeOK'
  <2>1. /\ req[c].count \in Counts /\ req[c].to \in CountStatus
        /\ count[req[c].count] # NoCount
    BY <1>24, RequestKinds DEF WriteStatus, RefersTo
  <2>2. QED
    BY <1>20, <1>21, <1>24, <2>1 DEF WriteStatus
<1>25. ASSUME NEW c \in Clients, FinishApprove(c) PROVE TypeOK'
  <2>1. req[c].job.id \in Counts
    BY <1>25, RequestKinds DEF FinishApprove, Posts, Job
  <2>2. count[req[c].job.id] # NoCount /\ "approved" \in CountStatus
    BY <1>25, RequestKinds DEF FinishApprove, RefersTo, Posts, CountStatus
  <2>3. QED
    BY <1>20, <1>21, <1>25, <2>1, <2>2 DEF FinishApprove
<1>26. CASE UNCHANGED vars
  BY <1>26 DEF vars, TypeOK
<1>27. QED
  BY <1>1, <1>5, <1>6, <1>7, <1>9, <1>12, <1>13, <1>14, <1>15, <1>16, <1>17,
     <1>18, <1>19, <1>22, <1>23, <1>24, <1>25, <1>26 DEF Next, Progress

\* CreatesApart: a count is created by the request that reserved it.
LEMMA ApartStep == TypeOK /\ CreatesApart /\ [Next]_vars => CreatesApart'
<1> SUFFICES ASSUME TypeOK, CreatesApart, [Next]_vars PROVE CreatesApart'
  OBVIOUS
<1>1. ASSUME NEW c \in Clients, NEW r, r.kind # "create",
             req' = [req EXCEPT ![c] = r],
             \A d \in Clients \ {c} : req[d].kind = "create" =>
                 count'[req[d].count] = NoCount
      PROVE  CreatesApart'
  <2>1. req'[c] = r /\ \A d \in Clients \ {c} : req'[d] = req[d]
    BY <1>1 DEF TypeOK
  <2>2. QED
    BY <1>1, <2>1 DEF CreatesApart
<1>2. ASSUME NEW c \in Clients, NEW r, r.kind # "create",
             req' = [req EXCEPT ![c] = r], count' = count
      PROVE  CreatesApart'
  BY <1>1, <1>2 DEF CreatesApart
<1>3. ASSUME NEW c \in Clients, NEW n, count[n] # NoCount, NEW row,
             req' = [req EXCEPT ![c] = Idle], count' = [count EXCEPT ![n] = row]
      PROVE  CreatesApart'
  <2>1. \A d \in Clients : req[d].kind = "create" => count'[req[d].count] = NoCount
    BY <1>3 DEF CreatesApart, TypeOK
  <2>2. QED
    BY <1>1, <1>3, <2>1 DEF Idle
<1>4. ASSUME NEW c \in Clients, CreateCount(c) PROVE CreatesApart'
  <2>1. \A d \in Clients \ {c} :
          req[d].kind = "create" => count'[req[d].count] = NoCount
    BY <1>4 DEF CreateCount, CreatesApart, TypeOK
  <2>2. QED
    BY <1>1, <1>4, <2>1 DEF CreateCount, Idle
<1>5. ASSUME NEW c \in Clients, NEW n \in Counts, NEW w \in Warehouses,
             ReadBalances(c, n, w)
      PROVE  CreatesApart'
  <2>1. PICK lines :
          req' = [req EXCEPT ![c] =
             [kind |-> "create", count |-> n, warehouse |-> w, since |-> Len(ledger),
              lines |-> lines]]
    BY <1>5 DEF ReadBalances
  <2>2. /\ req'[c].kind = "create" /\ req'[c].count = n
        /\ \A d \in Clients \ {c} : req'[d] = req[d]
    BY <2>1 DEF TypeOK
  <2>3. /\ count' = count /\ count[n] = NoCount
        /\ \A d \in Clients : req[d].kind = "create" => req[d].count # n
    BY <1>5 DEF ReadBalances
  <2>4. QED
    BY <2>2, <2>3 DEF CreatesApart
<1>6. ASSUME NEW c \in Clients, UpdateLine(c) PROVE CreatesApart'
  <2>1. count[req[c].count] # NoCount
    BY <1>6, RequestKinds DEF UpdateLine, RefersTo
  <2>2. QED
    BY <1>3, <1>6, <2>1 DEF UpdateLine
<1>7. ASSUME NEW c \in Clients, WriteStatus(c) PROVE CreatesApart'
  <2>1. count[req[c].count] # NoCount
    BY <1>7, RequestKinds DEF WriteStatus, RefersTo
  <2>2. QED
    BY <1>3, <1>7, <2>1 DEF WriteStatus, WriteCountStatus
<1>8. ASSUME NEW c \in Clients, FinishApprove(c) PROVE CreatesApart'
  <2>1. count[req[c].job.id] # NoCount
    BY <1>8, RequestKinds DEF FinishApprove, RefersTo, Posts
  <2>2. QED
    BY <1>3, <1>8, <2>1 DEF FinishApprove, WriteCountStatus
<1>9. ASSUME NEW c \in Clients, StartMovement(c) PROVE CreatesApart'
  BY <1>2, <1>9 DEF StartMovement, Posting
<1>10. ASSUME NEW c \in Clients, NEW g \in Grns, GrnApproved(c, g) PROVE CreatesApart'
  BY <1>2, <1>10 DEF GrnApproved, Posting
<1>11. ASSUME NEW c \in Clients, CheckMovement(c) PROVE CreatesApart'
  BY <1>2, <1>11 DEF CheckMovement
<1>12. ASSUME NEW c \in Clients, PostMovement(c) PROVE CreatesApart'
  BY <1>2, <1>12 DEF PostMovement
<1>13. ASSUME NEW c \in Clients, CheckReorderLevel(c) PROVE CreatesApart'
  BY <1>2, <1>13 DEF CheckReorderLevel, Posting
<1>14. ASSUME NEW c \in Clients, NEW n \in Counts, NEW i \in Items, ReadForLine(c, n, i)
       PROVE  CreatesApart'
  BY <1>2, <1>14 DEF ReadForLine
<1>15. ASSUME NEW c \in Clients, NEW n \in Counts, NEW to, ReadForStatus(c, n, to)
       PROVE  CreatesApart'
  BY <1>2, <1>15 DEF ReadForStatus
<1>16. ASSUME NEW c \in Clients, NEW n \in Counts, ReadForApprove(c, n)
       PROVE  CreatesApart'
  BY <1>2, <1>16 DEF ReadForApprove, Posting
<1>17. ASSUME NEW c \in Clients,
              RejectMovement(c) \/ RefuseMovement(c) \/ FinishPosting(c) \/ Crash(c)
       PROVE  CreatesApart'
  BY <1>2, <1>17 DEF RejectMovement, RefuseMovement, FinishPosting, Crash, Abandon, Idle
<1>18. CASE UNCHANGED <<req, count>>
  BY <1>18 DEF CreatesApart
<1>19. QED
  BY <1>4, <1>5, <1>6, <1>7, <1>8, <1>9, <1>10, <1>11, <1>12, <1>13, <1>14,
     <1>15, <1>16, <1>17, <1>18 DEF Next, Progress, vars, SetActive

\* Both hold in every reachable state.
LEMMA TypesAndCreates == Spec => [](TypeOK /\ CreatesApart)
<1>1. Init => TypeOK /\ CreatesApart
  <2> SUFFICES ASSUME Init PROVE TypeOK /\ CreatesApart
    OBVIOUS
  <2>1. ledger \in Seq([job : Job, movement : Movement])
    BY DEF Init
  <2>2. TypeOK
    BY <2>1 DEF Init, TypeOK, Request, RefersTo, Idle, Posts
  <2>3. CreatesApart
    BY DEF Init, CreatesApart, Idle
  <2>4. QED
    BY <2>2, <2>3
<1>2. QED
  BY <1>1, TypeStep, ApartStep, PTL DEF Spec

\* Every table and request keeps its shape and refers to what exists, and no
\* interleaving of issues makes a balance negative: the CHECK of the database
\* is enough, in whichever form the trigger applies it.
THEOREM TypeCorrect == Spec => []TypeOK
BY TypesAndCreates, PTL

-----------------------------------------------------------------------------
\* The run of a job has been counted, in evs or in apps.
Started(job, evs, apps) ==
    /\ job.type = "grn" => job.run <= evs[job.id]
    /\ job.type = "count" => job.run <= apps[job.id]

\* What a request has not posted yet.
Remaining(r) == IF r.kind = "reorder" THEN r.todo \ {r.current} ELSE r.todo

\* A loop has its lines once, and none of those it has left is in the ledger.
LoopOK(r) ==
    Posts(r) /\ r.job.type # "move" =>
        /\ Started(r.job, events, approvals)
        /\ \A m, k \in r.todo : m.line = k.line => m = k
        /\ r.kind # "next" => r.current \in r.todo
        /\ \A m \in Remaining(r), k \in DOMAIN ledger :
               ledger[k].job = r.job => ledger[k].movement.line # m.line

\* Two requests never work on one run of one job.
RunsApart ==
    \A c, d \in Clients :
        /\ Posts(req[c]) /\ Posts(req[d])
        /\ req[c].job = req[d].job /\ req[c].job.type # "move"
        => c = d

LedgerOK == \A k \in DOMAIN ledger : Started(ledger[k].job, events, approvals)

LoopInv == (\A c \in Clients : LoopOK(req[c])) /\ RunsApart /\ LedgerOK

\* One more row at the end of the ledger.
LEMMA Posted ==
    ASSUME TypeOK, NEW x \in [job : Job, movement : Movement],
           ledger' = Append(ledger, x)
    PROVE  /\ DOMAIN ledger' = DOMAIN ledger \cup {Len(ledger) + 1}
           /\ Len(ledger) + 1 \notin DOMAIN ledger
           /\ ledger'[Len(ledger) + 1] = x
           /\ \A k \in DOMAIN ledger : ledger'[k] = ledger[k]
<1>1. ledger \in Seq([job : Job, movement : Movement])
  BY DEF TypeOK
<1>2. /\ ledger' \in Seq([job : Job, movement : Movement])
      /\ Len(ledger') = Len(ledger) + 1
      /\ \A k \in 1..Len(ledger) : ledger'[k] = ledger[k]
      /\ ledger'[Len(ledger) + 1] = x
  BY <1>1, AppendProperties
<1>3. /\ DOMAIN ledger = 1..Len(ledger) /\ Len(ledger) \in Nat
      /\ DOMAIN ledger' = 1..Len(ledger')
  BY <1>1, <1>2, LenProperties
<1>4. QED
  BY <1>2, <1>3

\* Counters of runs only grow, so a run that was counted stays counted.
LEMMA StillStarted ==
    ASSUME TypeOK, [Next]_vars, NEW job \in Job, Started(job, events, approvals)
    PROVE  Started(job, events', approvals')
<1>1. \A g \in Grns : events[g] \in Nat /\ events'[g] \in Nat /\ events[g] <= events'[g]
  <2>1. CASE events' = events
    BY <2>1 DEF TypeOK
  <2>2. ASSUME NEW c \in Clients, NEW g \in Grns, GrnApproved(c, g)
        PROVE  events' = [events EXCEPT ![g] = events[g] + 1]
    BY <2>2 DEF GrnApproved
  <2>3. ASSUME NEW g \in Grns, events' = [events EXCEPT ![g] = events[g] + 1]
        PROVE  \A h \in Grns :
                  events[h] \in Nat /\ events'[h] \in Nat /\ events[h] <= events'[h]
    BY <2>3 DEF TypeOK
  <2>4. ASSUME NEW c \in Clients, Progress(c) PROVE events' = events
    BY <2>4 DEF Progress, CheckMovement, RejectMovement, PostMovement,
                RefuseMovement, CheckReorderLevel, FinishPosting, CreateCount,
                UpdateLine, WriteStatus, FinishApprove
  <2>5. ASSUME NEW c \in Clients, NEW n \in Counts,
               \/ \E w \in Warehouses : ReadBalances(c, n, w)
               \/ \E i \in Items : ReadForLine(c, n, i)
               \/ \E to \in {"variance_review", "cancelled"} : ReadForStatus(c, n, to)
               \/ ReadForApprove(c, n)
        PROVE  events' = events
    BY <2>5 DEF ReadBalances, ReadForLine, ReadForStatus, ReadForApprove
  <2>6. ASSUME NEW c \in Clients, StartMovement(c) \/ Crash(c) PROVE events' = events
    BY <2>6 DEF StartMovement, Crash
  <2>7. CASE (\E x \in Masters : SetActive(x)) \/ UNCHANGED vars
    BY <2>1, <2>7 DEF SetActive, vars
  <2>8. \/ events' = events
        \/ \E c \in Clients, g \in Grns : GrnApproved(c, g)
        \/ (\E x \in Masters : SetActive(x)) \/ UNCHANGED vars
    BY <2>4, <2>5, <2>6 DEF Next
  <2>9. CASE \E c \in Clients, g \in Grns : GrnApproved(c, g)
    BY <2>2, <2>3, <2>9
  <2>10. QED
    BY <2>1, <2>7, <2>8, <2>9
<1>2. \A n \in Counts :
        approvals[n] \in Nat /\ approvals'[n] \in Nat /\ approvals[n] <= approvals'[n]
  <2>1. CASE approvals' = approvals
    BY <2>1 DEF TypeOK
  <2>2. ASSUME NEW c \in Clients, NEW n \in Counts, ReadForApprove(c, n)
        PROVE  approvals' = [approvals EXCEPT ![n] = approvals[n] + 1]
    BY <2>2 DEF ReadForApprove
  <2>3. ASSUME NEW n \in Counts, approvals' = [approvals EXCEPT ![n] = approvals[n] + 1]
        PROVE  \A h \in Counts :
                  /\ approvals[h] \in Nat /\ approvals'[h] \in Nat
                  /\ approvals[h] <= approvals'[h]
    BY <2>3 DEF TypeOK
  <2>4. ASSUME NEW c \in Clients, Progress(c) PROVE approvals' = approvals
    BY <2>4 DEF Progress, CheckMovement, RejectMovement, PostMovement,
                RefuseMovement, CheckReorderLevel, FinishPosting, CreateCount,
                UpdateLine, WriteStatus, FinishApprove
  <2>5. ASSUME NEW c \in Clients, NEW n \in Counts,
               \/ \E w \in Warehouses : ReadBalances(c, n, w)
               \/ \E i \in Items : ReadForLine(c, n, i)
               \/ \E to \in {"variance_review", "cancelled"} : ReadForStatus(c, n, to)
        PROVE  approvals' = approvals
    BY <2>5 DEF ReadBalances, ReadForLine, ReadForStatus
  <2>6. ASSUME NEW c \in Clients,
               \/ StartMovement(c) \/ Crash(c)
               \/ \E g \in Grns : GrnApproved(c, g)
        PROVE  approvals' = approvals
    BY <2>6 DEF StartMovement, Crash, GrnApproved
  <2>7. CASE (\E x \in Masters : SetActive(x)) \/ UNCHANGED vars
    BY <2>1, <2>7 DEF SetActive, vars
  <2>8. \/ approvals' = approvals
        \/ \E c \in Clients, n \in Counts : ReadForApprove(c, n)
        \/ (\E x \in Masters : SetActive(x)) \/ UNCHANGED vars
    BY <2>4, <2>5, <2>6 DEF Next
  <2>9. CASE \E c \in Clients, n \in Counts : ReadForApprove(c, n)
    BY <2>2, <2>3, <2>9
  <2>10. QED
    BY <2>1, <2>7, <2>8, <2>9
<1>3. CASE job.type = "grn"
  <2>1. job.id \in Grns /\ job.run \in Nat
    BY <1>3 DEF Job
  <2>2. QED
    BY <1>1, <1>3, <2>1 DEF Started
<1>4. CASE job.type = "count"
  <2>1. job.id \in Counts /\ job.run \in Nat
    BY <1>4 DEF Job
  <2>2. QED
    BY <1>2, <1>4, <2>1 DEF Started
<1>5. CASE job.type \notin {"grn", "count"}
  BY <1>5 DEF Started
<1>6. QED
  BY <1>3, <1>4, <1>5

\* Steps that post nothing: the request they change goes on with its run, or
\* begins one that nothing in the ledger belongs to, or is not in the loop.
LEMMA LoopQuiet ==
    ASSUME TypeOK, LoopInv, [Next]_vars, NEW c \in Clients, NEW r,
           req' = [req EXCEPT ![c] = r], ledger' = ledger,
           Posts(r) /\ r.job.type # "move" =>
               /\ r.job \in Job
               /\ Started(r.job, events', approvals')
               /\ \A m, k \in r.todo : m.line = k.line => m = k
               /\ r.kind # "next" => r.current \in r.todo
               /\ \/ /\ Posts(req[c]) /\ req[c].job = r.job
                     /\ Remaining(r) \subseteq Remaining(req[c])
                  \/ ~ Started(r.job, events, approvals)
    PROVE  LoopInv'
<1>1. req'[c] = r /\ \A d \in Clients \ {c} : req'[d] = req[d]
  BY DEF TypeOK
<1>2. ASSUME NEW k \in DOMAIN ledger PROVE ledger[k].job \in Job
  <2>1. ledger \in Seq([job : Job, movement : Movement]) /\ DOMAIN ledger = 1..Len(ledger)
    BY LenProperties DEF TypeOK
  <2>2. ledger[k] \in [job : Job, movement : Movement]
    BY <2>1, ElementOfSeq
  <2>3. QED
    BY <2>2
<1>3. LedgerOK'
  BY <1>2, StillStarted DEF LoopInv, LedgerOK
<1>4. ASSUME NEW d \in Clients \ {c} PROVE LoopOK(req[d])'
  <2>1. LoopOK(req[d]) /\ (Posts(req[d]) => req[d].job \in Job)
    BY RequestKinds DEF LoopInv
  <2>2. Posts(req[d]) /\ req[d].job.type # "move" => Started(req[d].job, events', approvals')
    BY <2>1, StillStarted DEF LoopOK
  <2>3. QED
    BY <1>1, <2>1, <2>2 DEF LoopOK, Remaining, Posts, Started
<1>5. LoopOK(req[c])'
  <2>1. SUFFICES ASSUME Posts(r), r.job.type # "move",
                        NEW m \in Remaining(r), NEW k \in DOMAIN ledger,
                        ledger[k].job = r.job
                 PROVE  ledger[k].movement.line # m.line
    BY <1>1 DEF LoopOK, Remaining, Posts, Started
  <2>2. Started(r.job, events, approvals)
    BY <2>1 DEF LoopInv, LedgerOK
  <2>3. Posts(req[c]) /\ req[c].job = r.job /\ m \in Remaining(req[c])
    BY <2>1, <2>2
  <2>4. QED
    BY <2>1, <2>3 DEF LoopInv, LoopOK
<1>6. RunsApart'
  <2>1. ASSUME NEW d \in Clients \ {c}, Posts(r), Posts(req[d]),
               req[d].job = r.job, r.job.type # "move"
        PROVE  FALSE
    <3>1. Started(req[d].job, events, approvals)
      BY <2>1 DEF LoopInv, LoopOK
    <3>2. Posts(req[c]) /\ req[c].job = r.job
      BY <2>1, <3>1
    <3>3. QED
      BY <2>1, <3>2 DEF LoopInv, RunsApart
  <2>2. QED
    BY <1>1, <2>1 DEF LoopInv, RunsApart
<1>7. QED
  BY <1>3, <1>4, <1>5, <1>6 DEF LoopInv

\* The one step that posts: the loop has one line less to post, and the row it
\* adds is the first of its line and run.
LEMMA LoopPosts ==
    ASSUME TypeOK, LoopInv, PostedOncePerRun, [Next]_vars,
           NEW c \in Clients, PostMovement(c)
    PROVE  LoopInv' /\ PostedOncePerRun'
<1> DEFINE job == req[c].job
           cur == req[c].current
           x == [job |-> job, movement |-> cur]
           last == Len(ledger) + 1
<1>1. /\ job \in Job /\ cur \in Movement /\ Posts(req[c]) /\ req[c].kind = "commit"
  BY RequestKinds DEF PostMovement, Committing, Posts
<1>2. /\ req'[c].kind = "reorder" /\ req'[c].job = job
      /\ req'[c].todo = req[c].todo /\ req'[c].current = cur
      /\ \A d \in Clients \ {c} : req'[d] = req[d]
  BY DEF PostMovement, TypeOK
<1>3. /\ DOMAIN ledger' = DOMAIN ledger \cup {last}
      /\ last \notin DOMAIN ledger
      /\ ledger'[last] = x
      /\ \A k \in DOMAIN ledger : ledger'[k] = ledger[k]
  BY <1>1, Posted DEF PostMovement
<1>4. x.job = job /\ x.movement.line = cur.line
  OBVIOUS
<1>5. LoopOK(req[c])
  BY DEF LoopInv
<1>6. job.type # "move" =>
        \A k \in DOMAIN ledger : ledger[k].job = job => ledger[k].movement.line # cur.line
  BY <1>1, <1>5 DEF LoopOK, Remaining
<1>7. ASSUME NEW k \in DOMAIN ledger PROVE ledger[k].job \in Job
  <2>1. ledger \in Seq([job : Job, movement : Movement]) /\ DOMAIN ledger = 1..Len(ledger)
    BY LenProperties DEF TypeOK
  <2>2. ledger[k] \in [job : Job, movement : Movement]
    BY <2>1, ElementOfSeq
  <2>3. QED
    BY <2>2
<1>8. Started(job, events, approvals)
  <2>1. job.type # "move" => Started(job, events, approvals)
    BY <1>1, <1>5 DEF LoopOK
  <2>2. QED
    BY <2>1 DEF Started
<1> HIDE DEF x, last, job, cur
<1>9. LedgerOK'
  <2>1. \A k \in DOMAIN ledger : Started(ledger'[k].job, events', approvals')
    BY <1>3, <1>7, StillStarted DEF LoopInv, LedgerOK
  <2>2. events' = events /\ approvals' = approvals
    BY DEF PostMovement
  <2>3. Started(ledger'[last].job, events', approvals')
    BY <1>3, <1>4, <1>8, <2>2 DEF Started
  <2>4. QED
    BY <1>3, <2>1, <2>3 DEF LedgerOK
<1>10. RunsApart'
  <2>1. Posts(req[c])' /\ Posts(req[c])
    BY <1>1, <1>2 DEF Posts
  <2>2. QED
    BY <1>2, <2>1 DEF LoopInv, RunsApart, Posts, job
<1>11. ASSUME NEW d \in Clients PROVE LoopOK(req[d])'
  <2>1. events' = events /\ approvals' = approvals
    BY DEF PostMovement
  <2>2. CASE d = c
    <3>1. ASSUME job.type # "move"
          PROVE  /\ \A m, k \in req[c].todo : m.line = k.line => m = k
                 /\ cur \in req[c].todo
                 /\ \A m \in req[c].todo, k \in DOMAIN ledger :
                       ledger[k].job = job => ledger[k].movement.line # m.line
      BY <1>1, <1>5, <3>1 DEF LoopOK, Remaining, job, cur
    <3>2. ASSUME job.type # "move", NEW m \in req[c].todo \ {cur},
                 NEW k \in DOMAIN ledger', ledger'[k].job = job
          PROVE  ledger'[k].movement.line # m.line
      <4>1. CASE k = last
        BY <1>3, <1>4, <3>1, <3>2, <4>1
      <4>2. CASE k \in DOMAIN ledger
        BY <1>3, <3>1, <3>2, <4>2
      <4>3. QED
        BY <1>3, <4>1, <4>2
    <3>3. Started(job, events', approvals')
      BY <1>8, <2>1 DEF Started, job
    <3>4. QED
      BY <1>2, <2>2, <3>1, <3>2, <3>3 DEF LoopOK, Remaining, Posts, job, Started
  <2>3. CASE d # c
    <3>1. LoopOK(req[d]) /\ req'[d] = req[d]
      BY <1>2, <2>3 DEF LoopInv
    <3>2. Posts(req[d]) /\ req[d].job.type # "move" => req[d].job # job
      BY <1>1, <2>3 DEF LoopInv, RunsApart, job
    <3>3. ASSUME Posts(req[d]), req[d].job.type # "move", NEW m \in Remaining(req[d]),
                 NEW k \in DOMAIN ledger', ledger'[k].job = req[d].job
          PROVE  ledger'[k].movement.line # m.line
      <4>1. k \in DOMAIN ledger
        BY <1>3, <1>4, <3>2, <3>3
      <4>2. QED
        BY <1>3, <3>1, <3>3, <4>1 DEF LoopOK
    <3>4. QED
      BY <2>1, <3>1, <3>3 DEF LoopOK, Remaining, Posts, Started
  <2>4. QED
    BY <2>2, <2>3
<1>12. PostedOncePerRun'
  <2> SUFFICES ASSUME NEW j \in DOMAIN ledger', NEW k \in DOMAIN ledger',
                      ledger'[j].job = ledger'[k].job,
                      ledger'[j].movement.line = ledger'[k].movement.line,
                      ledger'[j].job.type # "move"
               PROVE  j = k
    BY DEF PostedOncePerRun
  <2>1. CASE j \in DOMAIN ledger /\ k \in DOMAIN ledger
    BY <1>3, <2>1 DEF PostedOncePerRun
  <2>2. CASE j = last /\ k \in DOMAIN ledger
    BY <1>3, <1>4, <1>6, <2>2
  <2>3. CASE k = last /\ j \in DOMAIN ledger
    BY <1>3, <1>4, <1>6, <2>3
  <2>4. QED
    BY <1>3, <2>1, <2>2, <2>3
<1>13. QED
  BY <1>9, <1>10, <1>11, <1>12 DEF LoopInv

\* Every step keeps the loops, and the ledger free of repetitions.
LEMMA LoopStep ==
    TypeOK /\ LoopInv /\ PostedOncePerRun /\ [Next]_vars =>
        LoopInv' /\ PostedOncePerRun'
<1> SUFFICES ASSUME TypeOK, LoopInv, PostedOncePerRun, [Next]_vars
             PROVE  LoopInv' /\ PostedOncePerRun'
  OBVIOUS
<1>1. CASE \E c \in Clients : PostMovement(c)
  BY <1>1, LoopPosts
<1>2. ASSUME ledger' = ledger, LoopInv' PROVE LoopInv' /\ PostedOncePerRun'
  BY <1>2 DEF PostedOncePerRun
<1>3. ASSUME NEW c \in Clients, NEW r, ~ Posts(r), req' = [req EXCEPT ![c] = r],
             ledger' = ledger
      PROVE  LoopInv' /\ PostedOncePerRun'
  BY <1>2, <1>3, LoopQuiet
<1>4. ~ Posts(Idle)
  BY DEF Posts, Idle
<1>5. CASE \E c \in Clients :
             \/ RejectMovement(c) \/ RefuseMovement(c) \/ FinishPosting(c)
             \/ CreateCount(c) \/ UpdateLine(c) \/ WriteStatus(c)
             \/ FinishApprove(c) \/ Crash(c)
  <2>1. PICK c \in Clients : req' = [req EXCEPT ![c] = Idle] /\ ledger' = ledger
    BY <1>5 DEF RejectMovement, RefuseMovement, FinishPosting, CreateCount,
                UpdateLine, WriteStatus, FinishApprove, Crash, Abandon
  <2>2. QED
    BY <1>3, <1>4, <2>1
<1>6. CASE \E c \in Clients, n \in Counts, w \in Warehouses : ReadBalances(c, n, w)
  <2>1. PICK c \in Clients, n \in Counts, w \in Warehouses : ReadBalances(c, n, w)
    BY <1>6
  <2>2. PICK lines :
          req' = [req EXCEPT ![c] =
             [kind |-> "create", count |-> n, warehouse |-> w, since |-> Len(ledger),
              lines |-> lines]]
    BY <2>1 DEF ReadBalances
  <2>3. QED
    BY <1>3, <2>1, <2>2 DEF ReadBalances, Posts
<1>7. CASE \E c \in Clients, n \in Counts, i \in Items : ReadForLine(c, n, i)
  BY <1>3, <1>7 DEF ReadForLine, Posts
<1>8. CASE \E c \in Clients, n \in Counts, to \in {"variance_review", "cancelled"} :
              ReadForStatus(c, n, to)
  BY <1>3, <1>8 DEF ReadForStatus, Posts
<1>9. ASSUME NEW c \in Clients, StartMovement(c)
      PROVE  LoopInv' /\ PostedOncePerRun'
  <2>1. PICK r : r.job.type = "move" /\ req' = [req EXCEPT ![c] = r] /\ ledger' = ledger
    BY <1>9 DEF StartMovement, Posting
  <2>2. QED
    BY <1>2, <2>1, LoopQuiet
<1>10. ASSUME NEW c \in Clients, CheckMovement(c)
       PROVE  LoopInv' /\ PostedOncePerRun'
  <2>1. PICK m \in req[c].todo :
          req' = [req EXCEPT ![c] =
             [kind |-> "commit", job |-> req[c].job, todo |-> req[c].todo,
              seen |-> req[c].seen, current |-> m]]
    BY <1>10 DEF CheckMovement
  <2> DEFINE r == [kind |-> "commit", job |-> req[c].job, todo |-> req[c].todo,
                   seen |-> req[c].seen, current |-> m]
  <2>2. /\ req[c].kind = "next" /\ Posts(req[c]) /\ ledger' = ledger
        /\ events' = events /\ approvals' = approvals
    BY <1>10 DEF CheckMovement, Posts
  <2>3. LoopOK(req[c]) /\ req[c].job \in Job
    BY <2>2, RequestKinds DEF LoopInv
  <2>4. Remaining(r) = Remaining(req[c])
    BY <2>2 DEF Remaining
  <2>5. /\ r.kind = "commit" /\ r.job = req[c].job /\ r.todo = req[c].todo
        /\ r.current \in r.todo /\ req' = [req EXCEPT ![c] = r]
    BY <2>1
  <2>6. Started(req[c].job, events, approvals) => Started(req[c].job, events', approvals')
    BY <2>3, StillStarted
  <2> HIDE DEF r
  <2>7. Started(req[c].job, events, approvals) => Started(r.job, events', approvals')
    BY <2>2, <2>5 DEF Started
  <2>8. LoopInv'
    BY <2>2, <2>3, <2>4, <2>5, <2>7, LoopQuiet DEF LoopOK
  <2>9. QED
    BY <1>2, <2>2, <2>8
<1>11. ASSUME NEW c \in Clients, CheckReorderLevel(c)
       PROVE  LoopInv' /\ PostedOncePerRun'
  <2> DEFINE r == Posting(req[c].job, Rest(req[c].todo, req[c].current), req[c].seen)
  <2>1. /\ req[c].kind = "reorder" /\ Posts(req[c]) /\ ledger' = ledger
        /\ events' = events /\ approvals' = approvals
        /\ req' = [req EXCEPT ![c] = r]
    BY <1>11 DEF CheckReorderLevel, Posts
  <2>2. LoopOK(req[c]) /\ req[c].job \in Job
    BY <2>1, RequestKinds DEF LoopInv
  <2>3. /\ r.kind = "next" /\ r.job = req[c].job
        /\ r.todo = req[c].todo \ {req[c].current}
    BY DEF Posting, Rest
  <2>4. Remaining(r) = Remaining(req[c])
    BY <2>1, <2>3 DEF Remaining
  <2> HIDE DEF r
  <2>5. Started(req[c].job, events, approvals) => Started(r.job, events', approvals')
    BY <2>1, <2>3 DEF Started
  <2>6. LoopInv'
    BY <2>1, <2>2, <2>3, <2>4, <2>5, LoopQuiet DEF LoopOK
  <2>7. QED
    BY <1>2, <2>1, <2>6
<1>12. ASSUME NEW c \in Clients, NEW job \in Job, NEW todo, NEW seen,
              req' = [req EXCEPT ![c] = Posting(job, todo, seen)], ledger' = ledger,
              ~ Started(job, events, approvals), Started(job, events', approvals'),
              \A m, k \in todo : m.line = k.line => m = k
       PROVE  LoopInv' /\ PostedOncePerRun'
  <2> DEFINE r == Posting(job, todo, seen)
  <2>1. r.kind = "next" /\ r.job = job /\ r.todo = todo
    BY DEF Posting
  <2> HIDE DEF r
  <2>2. req' = [req EXCEPT ![c] = r]
    BY <1>12 DEF r
  <2>3. Started(r.job, events', approvals')
    BY <1>12, <2>1 DEF Started
  <2>4. LoopInv'
    BY <1>12, <2>1, <2>2, <2>3, LoopQuiet
  <2>5. QED
    BY <1>2, <1>12, <2>4
<1>13. ASSUME NEW c \in Clients, NEW g \in Grns, GrnApproved(c, g)
       PROVE  LoopInv' /\ PostedOncePerRun'
  <2> DEFINE j == [type |-> "grn", id |-> g, run |-> events[g] + 1]
  <2>1. events[g] \in Nat /\ events'[g] = events[g] + 1
    BY <1>13 DEF GrnApproved, TypeOK
  <2>2. j \in Job /\ ~ Started(j, events, approvals)
    BY <2>1 DEF Job, Started
  <2>3. Started(j, events', approvals')
    BY <1>13, <2>1 DEF Started, GrnApproved
  <2>4. req' = [req EXCEPT ![c] = Posting(j, Receipt(g), NoCount)] /\ ledger' = ledger
    BY <1>13 DEF GrnApproved
  <2>5. QED
    BY <1>12, <2>2, <2>3, <2>4, ReceiptType
<1>14. ASSUME NEW c \in Clients, NEW n \in Counts, ReadForApprove(c, n)
       PROVE  LoopInv' /\ PostedOncePerRun'
  <2> DEFINE j == [type |-> "count", id |-> n, run |-> approvals[n] + 1]
  <2>1. approvals[n] \in Nat /\ approvals'[n] = approvals[n] + 1
    BY <1>14 DEF ReadForApprove, TypeOK
  <2>2. j \in Job /\ ~ Started(j, events, approvals)
    BY <2>1 DEF Job, Started
  <2>3. Started(j, events', approvals')
    BY <1>14, <2>1 DEF Started, ReadForApprove
  <2>4. /\ req' = [req EXCEPT ![c] = Posting(j, Adjustments(count[n]), count[n])]
        /\ ledger' = ledger
    BY <1>14 DEF ReadForApprove
  <2>5. count[n] \in Count
    BY <1>14 DEF ReadForApprove, TypeOK
  <2>6. QED
    BY <1>12, <2>2, <2>3, <2>4, <2>5, AdjustmentsType
<1>15. CASE UNCHANGED <<req, ledger, events, approvals>>
  BY <1>15 DEF LoopInv, LoopOK, RunsApart, LedgerOK, Remaining, Posts, Started,
               PostedOncePerRun
<1>16. QED
  BY <1>1, <1>5, <1>6, <1>7, <1>8, <1>9, <1>10, <1>11, <1>13, <1>14, <1>15
     DEF Next, Progress, vars, SetActive

\* PostedOncePerRun: whatever requests overlap, an event and an approval post
\* each of their lines at most once.
THEOREM PostedOncePerRunSafe == Spec => []PostedOncePerRun
<1>1. Init => LoopInv /\ PostedOncePerRun
  BY DEF Init, LoopInv, LoopOK, RunsApart, LedgerOK, PostedOncePerRun, Posts, Idle
<1>2. QED
  BY <1>1, TypeCorrect, LoopStep, PTL DEF Spec

-----------------------------------------------------------------------------
\* What a request that will write a count has checked of the count it read.
Checked(r) ==
    /\ r.kind = "line" => r.seen.status \in {"open", "counting"}
    /\ r.kind = "status" => CanTransition(r.seen, r.to)
    /\ Posts(r) /\ r.job.type = "count" => CanTransition(r.seen, "approved")

AllChecked == \A c \in Clients : Checked(req[c])

\* A step that gives one request what it may carry.
LEMMA OneChecked ==
    ASSUME TypeOK, AllChecked, NEW c \in Clients, NEW r, Checked(r),
           req' = [req EXCEPT ![c] = r]
    PROVE  AllChecked'
BY DEF TypeOK, AllChecked, Checked, CanTransition, Posts

\* The reads check what the writes rely on, and a loop keeps the count it read.
LEMMA CheckedStep == TypeOK /\ AllChecked /\ [Next]_vars => AllChecked'
<1> SUFFICES ASSUME TypeOK, AllChecked, [Next]_vars PROVE AllChecked'
  OBVIOUS
<1>1. Checked(Idle)
  BY DEF Checked, Idle, Posts
<1>2. CASE \E c \in Clients :
             \/ RejectMovement(c) \/ RefuseMovement(c) \/ FinishPosting(c)
             \/ CreateCount(c) \/ UpdateLine(c) \/ WriteStatus(c)
             \/ FinishApprove(c) \/ Crash(c)
  <2>1. PICK c \in Clients : req' = [req EXCEPT ![c] = Idle]
    BY <1>2 DEF RejectMovement, RefuseMovement, FinishPosting, CreateCount,
                UpdateLine, WriteStatus, FinishApprove, Crash, Abandon
  <2>2. QED
    BY <1>1, <2>1, OneChecked
<1>3. CASE \E c \in Clients : StartMovement(c)
  <2>1. PICK c, r :
          c \in Clients /\ r.kind = "next" /\ r.job.type = "move" /\ req' = [req EXCEPT ![c] = r]
    BY <1>3 DEF StartMovement, Posting
  <2>2. Checked(r)
    BY <2>1 DEF Checked
  <2>3. QED
    BY <2>1, <2>2, OneChecked
<1>4. CASE \E c \in Clients, g \in Grns : GrnApproved(c, g)
  <2>1. PICK c, r :
          c \in Clients /\ r.kind = "next" /\ r.job.type = "grn" /\ req' = [req EXCEPT ![c] = r]
    BY <1>4 DEF GrnApproved, Posting
  <2>2. Checked(r)
    BY <2>1 DEF Checked
  <2>3. QED
    BY <2>1, <2>2, OneChecked
<1>5. ASSUME NEW c \in Clients, NEW r, Posts(req[c]), req' = [req EXCEPT ![c] = r],
             r.kind \in {"next", "commit", "reorder"},
             r.job = req[c].job, r.seen = req[c].seen
      PROVE  AllChecked'
  <2>1. Checked(req[c])
    BY DEF AllChecked
  <2>2. Checked(r)
    BY <1>5, <2>1 DEF Checked
  <2>3. QED
    BY <1>5, <2>2, OneChecked
<1>6. CASE \E c \in Clients :
             CheckMovement(c) \/ PostMovement(c) \/ CheckReorderLevel(c)
  <2>1. PICK c \in Clients :
          CheckMovement(c) \/ PostMovement(c) \/ CheckReorderLevel(c)
    BY <1>6
  <2>2. PICK r : /\ Posts(req[c]) /\ req' = [req EXCEPT ![c] = r]
                 /\ r.kind \in {"next", "commit", "reorder"}
                 /\ r.job = req[c].job /\ r.seen = req[c].seen
    <3>1. CASE CheckMovement(c)
      BY <3>1 DEF CheckMovement, Posts
    <3>2. CASE PostMovement(c)
      <4> DEFINE r == [kind |-> "reorder", job |-> req[c].job, todo |-> req[c].todo,
                       seen |-> req[c].seen, current |-> req[c].current]
      <4>1. /\ r.kind = "reorder" /\ r.job = req[c].job /\ r.seen = req[c].seen
            /\ Posts(req[c]) /\ req' = [req EXCEPT ![c] = r]
        BY <3>2 DEF PostMovement, Committing, Posts
      <4> HIDE DEF r
      <4>2. QED
        BY <4>1
    <3>3. CASE CheckReorderLevel(c)
      <4> DEFINE r == Posting(req[c].job, Rest(req[c].todo, req[c].current),
                              req[c].seen)
      <4>1. /\ r.kind = "next" /\ r.job = req[c].job /\ r.seen = req[c].seen
            /\ Posts(req[c]) /\ req' = [req EXCEPT ![c] = r]
        BY <3>3 DEF CheckReorderLevel, Posting, Posts
      <4> HIDE DEF r
      <4>2. QED
        BY <4>1
    <3>4. QED
      BY <2>1, <3>1, <3>2, <3>3
  <2>3. QED
    BY <1>5, <2>2
<1>7. CASE \E c \in Clients, n \in Counts, w \in Warehouses : ReadBalances(c, n, w)
  <2>1. PICK c, r :
          c \in Clients /\ r.kind = "create" /\ req' = [req EXCEPT ![c] = r]
    BY <1>7 DEF ReadBalances
  <2>2. QED
    BY <2>1, OneChecked DEF Checked, Posts
<1>8. CASE \E c \in Clients, n \in Counts, i \in Items : ReadForLine(c, n, i)
  <2>1. PICK c, r :
          /\ c \in Clients
          /\ r.kind = "line" /\ r.seen.status \in {"open", "counting"}
          /\ req' = [req EXCEPT ![c] = r]
    BY <1>8 DEF ReadForLine
  <2>2. QED
    BY <2>1, OneChecked DEF Checked, Posts
<1>9. CASE \E c \in Clients, n \in Counts, to \in {"variance_review", "cancelled"} :
               ReadForStatus(c, n, to)
  <2>1. PICK c, r :
          /\ c \in Clients
          /\ r.kind = "status" /\ CanTransition(r.seen, r.to)
          /\ req' = [req EXCEPT ![c] = r]
    BY <1>9 DEF ReadForStatus
  <2>2. QED
    BY <2>1, OneChecked DEF Checked, Posts
<1>10. CASE \E c \in Clients, n \in Counts : ReadForApprove(c, n)
  <2>1. PICK c, r :
          /\ c \in Clients
          /\ r.kind = "next" /\ CanTransition(r.seen, "approved")
          /\ req' = [req EXCEPT ![c] = r]
    BY <1>10 DEF ReadForApprove, Posting
  <2>2. QED
    BY <2>1, OneChecked DEF Checked
<1>11. CASE UNCHANGED req
  BY <1>11 DEF AllChecked, Checked, CanTransition, Posts
<1>12. QED
  BY <1>2, <1>3, <1>4, <1>6, <1>7, <1>8, <1>9, <1>10, <1>11
     DEF Next, Progress, vars, SetActive

\* The steps of Next, one by one.
LEMMA EachStep ==
    ASSUME [Next]_vars
    PROVE  \/ UNCHANGED vars
           \/ \E x \in Masters : SetActive(x)
           \/ \E c \in Clients :
                \/ CheckMovement(c) \/ RejectMovement(c) \/ PostMovement(c)
                \/ RefuseMovement(c) \/ CheckReorderLevel(c) \/ FinishPosting(c)
                \/ CreateCount(c) \/ UpdateLine(c) \/ WriteStatus(c)
                \/ FinishApprove(c) \/ StartMovement(c) \/ Crash(c)
           \/ \E c \in Clients, g \in Grns : GrnApproved(c, g)
           \/ \E c \in Clients, n \in Counts :
                \/ \E w \in Warehouses : ReadBalances(c, n, w)
                \/ \E i \in Items : ReadForLine(c, n, i)
                \/ \E to \in {"variance_review", "cancelled"} : ReadForStatus(c, n, to)
                \/ ReadForApprove(c, n)
BY Zenon DEF Next, Progress

\* The ledger and the balances are written by the transaction of a movement only.
LEMMA LedgerWriter ==
    ASSUME [Next]_vars
    PROVE  (\E c \in Clients : PostMovement(c)) \/ UNCHANGED <<ledger, balance>>
<1>1. CASE UNCHANGED vars
  BY <1>1 DEF vars
<1>2. CASE \E x \in Masters : SetActive(x)
  BY <1>2 DEF SetActive
<1>3. ASSUME NEW c \in Clients,
             CheckMovement(c) \/ RejectMovement(c) \/ RefuseMovement(c)
             \/ CheckReorderLevel(c) \/ FinishPosting(c)
      PROVE  UNCHANGED <<ledger, balance>>
  BY <1>3 DEF CheckMovement, RejectMovement, RefuseMovement, CheckReorderLevel,
              FinishPosting
<1>4. ASSUME NEW c \in Clients,
             CreateCount(c) \/ UpdateLine(c) \/ WriteStatus(c) \/ FinishApprove(c)
             \/ StartMovement(c) \/ Crash(c)
      PROVE  UNCHANGED <<ledger, balance>>
  BY <1>4 DEF CreateCount, UpdateLine, WriteStatus, FinishApprove, StartMovement,
              Crash
<1>5. CASE \E c \in Clients, g \in Grns : GrnApproved(c, g)
  BY <1>5 DEF GrnApproved
<1>6. ASSUME NEW c \in Clients, NEW n \in Counts,
             \/ \E w \in Warehouses : ReadBalances(c, n, w)
             \/ \E i \in Items : ReadForLine(c, n, i)
             \/ \E to \in {"variance_review", "cancelled"} : ReadForStatus(c, n, to)
             \/ ReadForApprove(c, n)
      PROVE  UNCHANGED <<ledger, balance>>
  BY <1>6 DEF ReadBalances, ReadForLine, ReadForStatus, ReadForApprove
<1>7. QED
  BY <1>1, <1>2, <1>3, <1>4, <1>5, <1>6, EachStep

\* A count is written by its creation, a counted line, a status and an approval.
LEMMA CountWriters ==
    ASSUME [Next]_vars
    PROVE  \/ UNCHANGED count
           \/ \E c \in Clients : CreateCount(c) \/ UpdateLine(c) \/ WriteStatus(c)
                              \/ FinishApprove(c)
<1>1. CASE UNCHANGED vars
  BY <1>1 DEF vars
<1>2. CASE \E x \in Masters : SetActive(x)
  BY <1>2 DEF SetActive
<1>3. ASSUME NEW c \in Clients,
             CheckMovement(c) \/ RejectMovement(c) \/ RefuseMovement(c)
             \/ PostMovement(c) \/ CheckReorderLevel(c) \/ FinishPosting(c)
             \/ StartMovement(c) \/ Crash(c)
      PROVE  UNCHANGED count
  BY <1>3 DEF CheckMovement, RejectMovement, RefuseMovement, PostMovement,
              CheckReorderLevel, FinishPosting, StartMovement, Crash
<1>4. CASE \E c \in Clients, g \in Grns : GrnApproved(c, g)
  BY <1>4 DEF GrnApproved
<1>5. ASSUME NEW c \in Clients, NEW n \in Counts,
             \/ \E w \in Warehouses : ReadBalances(c, n, w)
             \/ \E i \in Items : ReadForLine(c, n, i)
             \/ \E to \in {"variance_review", "cancelled"} : ReadForStatus(c, n, to)
             \/ ReadForApprove(c, n)
      PROVE  UNCHANGED count
  BY <1>5 DEF ReadBalances, ReadForLine, ReadForStatus, ReadForApprove
<1>6. QED
  BY <1>1, <1>2, <1>3, <1>4, <1>5, EachStep

\* CountFollowsStateMachine: a request that finds the count it read moves it
\* along STOCK_COUNT_TRANSITIONS.
THEOREM CountFollowsStateMachineSafe == Spec => CountFollowsStateMachine
<1>1. Init => AllChecked
  BY DEF Init, AllChecked, Checked, Idle, Posts
<1>2. TypeOK /\ CreatesApart /\ AllChecked /\ [Next]_vars =>
          [\A n \in Counts :
              count[n] # NoCount /\ count'[n].status # count[n].status =>
                  overtaken'[n] \/ CanTransition(count[n], count'[n].status)]_vars
  <2> SUFFICES ASSUME TypeOK, CreatesApart, AllChecked, Next, NEW n \in Counts,
                      count[n] # NoCount, count'[n].status # count[n].status
               PROVE  overtaken'[n] \/ CanTransition(count[n], count'[n].status)
    OBVIOUS
  <2>1. ASSUME NEW k \in Counts, NEW seen, NEW to, WriteCountStatus(k, seen, to),
               CanTransition(seen, to)
        PROVE  overtaken'[n] \/ CanTransition(count[n], count'[n].status)
    <3>1. k = n
      BY <2>1 DEF WriteCountStatus, TypeOK
    <3>2. count'[n].status = to
      BY <2>1, <3>1 DEF WriteCountStatus, TypeOK
    <3>3. overtaken'[n] \/ count[n] = seen
      BY <2>1, <3>1 DEF WriteCountStatus, MarkOvertaken, TypeOK
    <3>4. QED
      BY <2>1, <3>2, <3>3
  <2>2. ASSUME NEW c \in Clients, WriteStatus(c)
        PROVE  overtaken'[n] \/ CanTransition(count[n], count'[n].status)
    <3>1. req[c].count \in Counts /\ CanTransition(req[c].seen, req[c].to)
      BY <2>2, RequestKinds DEF WriteStatus, AllChecked, Checked
    <3>2. QED
      BY <2>1, <2>2, <3>1 DEF WriteStatus
  <2>3. ASSUME NEW c \in Clients, FinishApprove(c)
        PROVE  overtaken'[n] \/ CanTransition(count[n], count'[n].status)
    <3>1. req[c].job.id \in Counts
      BY <2>3, RequestKinds DEF FinishApprove, Posts, Job
    <3>2. CanTransition(req[c].seen, "approved")
      BY <2>3 DEF FinishApprove, AllChecked, Checked, Posts
    <3>3. QED
      BY <2>1, <2>3, <3>1, <3>2 DEF FinishApprove
  <2>4. ASSUME NEW c \in Clients, UpdateLine(c)
        PROVE  overtaken'[n] \/ CanTransition(count[n], count'[n].status)
    <3>1. /\ req[c].count \in Counts /\ req[c].seen.status \in {"open", "counting"}
      BY <2>4, RequestKinds DEF UpdateLine, AllChecked, Checked
    <3>2. req[c].count = n
      BY <2>4, <3>1 DEF UpdateLine, TypeOK
    <3>3. count'[n].status = "counting"
      BY <2>4, <3>1, <3>2 DEF UpdateLine, TypeOK
    <3>4. overtaken'[n] \/ count[n] = req[c].seen
      BY <2>4, <3>2 DEF UpdateLine, MarkOvertaken, TypeOK
    <3>5. ASSUME count[n] = req[c].seen PROVE count[n].status = "open"
      BY <3>1, <3>3, <3>5
    <3>6. QED
      BY <3>3, <3>4, <3>5 DEF CanTransition, STOCK_COUNT_TRANSITIONS
  <2>5. ASSUME NEW c \in Clients, CreateCount(c) PROVE FALSE
    <3>1. count[req[c].count] = NoCount
      BY <2>5 DEF CreateCount, CreatesApart
    <3>2. QED
      BY <2>5, <3>1 DEF CreateCount, TypeOK
  <2>6. CASE UNCHANGED count
    BY <2>6
  <2>7. QED
    BY <2>2, <2>3, <2>4, <2>5, <2>6, CountWriters
<1>3. QED
  BY <1>1, <1>2, CheckedStep, TypesAndCreates, PTL DEF Spec, CountFollowsStateMachine

-----------------------------------------------------------------------------
\* What row k of the ledger did to the balance of its place.
Effects == [k \in DOMAIN ledger |-> Signed(ledger[k].movement)]

\* The rows of the ledger that moved stock of place p.
RowsAt(p) == {k \in DOMAIN ledger : Place(ledger[k].movement) = p}

\* A row of the ledger is a movement of a job.
LEMMA LedgerRow ==
    ASSUME TypeOK, NEW k \in DOMAIN ledger
    PROVE  /\ k \in 1..Len(ledger) /\ Len(ledger) \in Nat
           /\ ledger[k].job \in Job /\ ledger[k].movement \in Movement
<1>1. ledger \in Seq([job : Job, movement : Movement])
  BY DEF TypeOK
<1>2. DOMAIN ledger = 1..Len(ledger) /\ Len(ledger) \in Nat
  BY <1>1, LenProperties
<1>3. ledger[k] \in [job : Job, movement : Movement]
  BY <1>1, <1>2, ElementOfSeq
<1>4. QED
  BY <1>2, <1>3

\* The rows of a place are finitely many, and each has an integral effect.
LEMMA EffectsType ==
    ASSUME TypeOK, NEW p
    PROVE  /\ IsFiniteSet(RowsAt(p)) /\ RowsAt(p) \subseteq DOMAIN ledger
           /\ \A k \in DOMAIN ledger : Effects[k] \in Int
<1>1. DOMAIN ledger = 1..Len(ledger) /\ Len(ledger) \in Nat
  BY LenProperties DEF TypeOK
<1>2. IsFiniteSet(DOMAIN ledger) /\ RowsAt(p) \subseteq DOMAIN ledger
  BY <1>1, FS_Interval DEF RowsAt
<1>3. IsFiniteSet(RowsAt(p))
  BY <1>2, FS_Subset
<1>4. ASSUME NEW k \in DOMAIN ledger PROVE Effects[k] \in Int
  BY LedgerRow, MovementType DEF Effects
<1>5. QED
  BY <1>2, <1>3, <1>4

\* Posting a movement moves balance and sum alike; no other step touches either.
LEMMA BalanceStep ==
    TypeOK /\ TypeOK' /\ BalanceIsLedgerSum /\ [Next]_vars => BalanceIsLedgerSum'
<1> SUFFICES ASSUME TypeOK, TypeOK', BalanceIsLedgerSum, [Next]_vars
             PROVE  BalanceIsLedgerSum'
  OBVIOUS
<1>1. ASSUME NEW c \in Clients, PostMovement(c), NEW p \in Places
      PROVE  balance'[p] = SumFunctionOnSet(Effects', RowsAt(p)')
  <2> DEFINE m == req[c].current
             x == [job |-> req[c].job, movement |-> m]
             last == Len(ledger) + 1
  <2>1. m \in Movement /\ req[c].job \in Job
    BY <1>1, RequestKinds DEF PostMovement, Committing, Posts
  <2>2. /\ DOMAIN ledger' = DOMAIN ledger \cup {last} /\ last \notin DOMAIN ledger
        /\ ledger'[last] = x /\ \A k \in DOMAIN ledger : ledger'[k] = ledger[k]
    BY <1>1, <2>1, Posted DEF PostMovement
  <2>3. balance' = [balance EXCEPT ![Place(m)] = balance[Place(m)] + Signed(m)]
    BY <1>1 DEF PostMovement, NewBalance
  <2>4. Signed(m) \in Int /\ Place(m) \in Places /\ x.movement = m
    BY <2>1, MovementType
  <2>5. balance[p] = SumFunctionOnSet(Effects, RowsAt(p)) /\ balance[p] \in Int
    <3>1. balance[p] = SumFunctionOnSet(Effects, RowsAt(p))
      BY Zenon DEF BalanceIsLedgerSum, Effects, RowsAt
    <3>2. balance[p] \in Int
      BY DEF TypeOK
    <3>3. QED
      BY <3>1, <3>2
  <2>6. /\ IsFiniteSet(RowsAt(p)) /\ RowsAt(p) \subseteq DOMAIN ledger
        /\ \A k \in RowsAt(p) : Effects[k] \in Int
    BY EffectsType
  <2> HIDE DEF x, m, last
  <2>7. \A k \in DOMAIN ledger : Effects'[k] = Effects[k]
    BY <2>2 DEF Effects
  <2>8. Effects'[last] = Signed(m)
    BY <2>2, <2>4 DEF Effects
  <2>9. SumFunctionOnSet(Effects', RowsAt(p)) = SumFunctionOnSet(Effects, RowsAt(p))
    BY <2>6, <2>7, SumSame
  <2>10. CASE Place(m) = p
    <3>1. RowsAt(p)' = RowsAt(p) \cup {last}
      BY <2>2, <2>4, <2>10 DEF RowsAt
    <3>2. last \notin RowsAt(p) /\ \A k \in RowsAt(p) \cup {last} : Effects'[k] \in Int
      BY <2>2, <2>4, <2>6, <2>7, <2>8
    <3>3. SumFunctionOnSet(Effects', RowsAt(p) \cup {last})
            = SumFunctionOnSet(Effects', RowsAt(p)) + Effects'[last]
      BY <2>6, <3>2, SumAdd
    <3>4. balance'[p] = balance[p] + Signed(m)
      BY <2>3, <2>4, <2>10 DEF TypeOK
    <3>5. QED
      BY <2>5, <2>8, <2>9, <3>1, <3>3, <3>4
  <2>11. CASE Place(m) # p
    <3>1. RowsAt(p)' = RowsAt(p)
      BY <2>2, <2>4, <2>11 DEF RowsAt
    <3>2. balance'[p] = balance[p]
      BY <2>3, <2>11 DEF TypeOK
    <3>3. QED
      BY <2>5, <2>9, <3>1, <3>2
  <2>12. QED
    BY <2>10, <2>11
<1>2. CASE \E c \in Clients : PostMovement(c)
  <2>1. \A p \in Places : balance'[p] = SumFunctionOnSet(Effects', RowsAt(p)')
    BY <1>1, <1>2
  <2>2. QED
    BY <2>1 DEF BalanceIsLedgerSum, Effects, RowsAt
<1>3. CASE UNCHANGED <<ledger, balance>>
  BY <1>3 DEF BalanceIsLedgerSum
<1>4. QED
  BY <1>2, <1>3, LedgerWriter

\* BalanceIsLedgerSum: the balance a request reads is the sum of all movements
\* committed so far, whatever requests, receipts and counts overlap.
THEOREM BalanceIsLedgerSumSafe == Spec => []BalanceIsLedgerSum
<1>1. Init => BalanceIsLedgerSum
  <2> SUFFICES ASSUME Init, NEW p \in Places
               PROVE  balance[p] = SumFunctionOnSet(Effects, RowsAt(p))
    BY DEF BalanceIsLedgerSum, Effects, RowsAt
  <2>1. RowsAt(p) = {} /\ balance[p] = 0
    BY DEF Init, RowsAt
  <2>2. IsFiniteSet({}) /\ \A k \in {} : Effects[k] \in Int
    BY FS_EmptySet
  <2>3. SumFunctionOnSet(Effects, {}) = 0
    BY <2>2, SumType
  <2>4. QED
    BY <2>1, <2>3
<1>2. QED
  BY <1>1, BalanceStep, TypeCorrect, PTL DEF Spec

\* The book of the ledger.
Booked == [k \in DOMAIN ledger |-> Booking(ledger[k])]

\* What is on hand according to the book is the balance.
LEMMA OnHandIsBalance ==
    ASSUME BalanceIsLedgerSum, NEW p \in Places
    PROVE  Account!OnHand(p) = balance[p]
<1>1. DOMAIN Booked = DOMAIN ledger
      /\ \A k \in DOMAIN ledger :
            /\ Booked[k].place = Place(ledger[k].movement)
            /\ Booked[k].amount = Signed(ledger[k].movement)
  BY DEF Booked, Booking
<1>2. [k \in DOMAIN Booked |-> Booked[k].amount]
        = [k \in DOMAIN ledger |-> Signed(ledger[k].movement)]
  BY <1>1
<1>3. {k \in DOMAIN Booked : Booked[k].place = p}
        = {k \in DOMAIN ledger : Place(ledger[k].movement) = p}
  BY <1>1
<1>4. Account!OnHand(p)
        = SumFunctionOnSet([k \in DOMAIN Booked |-> Booked[k].amount],
                           {k \in DOMAIN Booked : Booked[k].place = p})
  BY Zenon DEF Account!OnHand, Booked, Account!SumFunctionOnSet, SumFunctionOnSet, Account!FoldFunctionOnSet, FoldFunctionOnSet,
     Account!MapThenFoldSet, MapThenFoldSet
<1>5. QED
  BY ONLY BalanceIsLedgerSum, p \in Places, <1>2, <1>3, <1>4 DEF BalanceIsLedgerSum

\* A row more in the ledger is a booking more in the book.
LEMMA BookGrows ==
    ASSUME TypeOK, NEW x \in [job : Job, movement : Movement], ledger' = Append(ledger, x)
    PROVE  Booked' = Append(Booked, Booking(x))
<1>1. PICK n \in Nat : n = Len(ledger) /\ DOMAIN ledger = 1..n
  BY LenProperties DEF TypeOK
<1>2. DOMAIN ledger' = 1..(n + 1) /\ ledger'[n + 1] = x /\ \A k \in 1..n : ledger'[k] = ledger[k]
  <2>1. DOMAIN ledger' = (1..n) \cup {n + 1}
    BY <1>1, Posted
  <2>2. (1..n) \cup {n + 1} = 1..(n + 1)
    OBVIOUS
  <2>3. QED
    BY <1>1, <2>1, <2>2, Posted
<1>3. Booked = [k \in 1..n |-> Booking(ledger[k])]
  BY <1>1 DEF Booked
<1>4. Booked' = [k \in 1..(n + 1) |-> Booking(ledger'[k])]
  BY <1>2 DEF Booked, Booking, Place, Signed
<1>5. Booked \in Seq({Booking(ledger[k]) : k \in 1..n}) /\ Len(Booked) = n
  BY <1>3
<1>6. /\ DOMAIN Append(Booked, Booking(x)) = 1..(n + 1)
      /\ Append(Booked, Booking(x))[n + 1] = Booking(x)
      /\ \A k \in 1..n : Append(Booked, Booking(x))[k] = Booked[k]
  BY <1>5
<1>7. \A k \in 1..(n + 1) : Append(Booked, Booking(x))[k] = Booking(ledger'[k])
  BY <1>2, <1>3, <1>6
<1>8. Append(Booked, Booking(x)) = [k \in 1..(n + 1) |-> Append(Booked, Booking(x))[k]]
  <2>1. PICK V : V = {Booking(ledger[k]) : k \in 1..n} \cup {Booking(x)}
    OBVIOUS
  <2>2. PICK b : b = Booking(x)
    OBVIOUS
  <2>3. PICK s : s = Booked
    OBVIOUS
  <2>4. s \in Seq(V) /\ b \in V /\ Len(s) = n
    <3>1. {Booking(ledger[k]) : k \in 1..n} \subseteq V
      BY <2>1
    <3>2. QED
      BY <1>5, <2>1, <2>2, <2>3, <3>1
  <2>5. Append(s, b) \in Seq(V) /\ Len(Append(s, b)) = n + 1
    BY <2>4, AppendProperties
  <2>6. Append(s, b) \in [1..(n + 1) -> V]
    BY <2>5, LenProperties
  <2>7. Append(s, b) = [k \in 1..(n + 1) |-> Append(s, b)[k]]
    BY <2>6
  <2>8. QED
    BY <2>2, <2>3, <2>7
<1>9. QED
  BY <1>4, <1>7, <1>8

\* A transaction of the ledger books once and takes no more than there is: the check of
\* the balance ahead of it may be stale, the trigger is what this rests on.
LEMMA PostBooks ==
    ASSUME TypeOK, TypeOK', BalanceIsLedgerSum, NEW c \in Clients, PostMovement(c)
    PROVE  Account!Next
<1>1. PICK m : m = req[c].current
  OBVIOUS
<1>2. PICK x : x = [job |-> req[c].job, movement |-> m]
  OBVIOUS
<1>3. m \in Movement /\ req[c].job \in Job
  BY <1>1, RequestKinds DEF PostMovement, Committing, Posts
<1>4. /\ ledger' = Append(ledger, x)
      /\ balance' = [balance EXCEPT ![Place(m)] = balance[Place(m)] + Signed(m)]
  BY <1>1, <1>2 DEF PostMovement, NewBalance
<1>5. Place(m) \in Places /\ Signed(m) \in Int /\ Signed(m) # 0
  BY <1>3, MovementType DEF Movement, Signed
<1>6. balance[Place(m)] + Signed(m) >= 0
  BY <1>4, <1>5 DEF TypeOK
<1>7. Account!OnHand(Place(m)) + Signed(m) >= 0
  BY <1>5, <1>6, OnHandIsBalance
<1>8. Booked' = Append(Booked, [place |-> Place(m), amount |-> Signed(m)])
  BY <1>2, <1>3, <1>4, BookGrows DEF Booking
<1>9. Account!Book(Place(m), Signed(m))
  BY <1>7, <1>8 DEF Account!Book, Booked
<1>10. QED
  BY <1>5, <1>9 DEF Account!Next

\* The ledger is a book: whatever overlaps, fails or dies, rows are added one at a time,
\* none is changed, and the rows of a place never add up to less than nothing.
THEOREM RefinesAccount == Spec => ImplementsAccount
<1>1. Init => Account!Init
  BY DEF Init, Account!Init
<1>2. TypeOK /\ TypeOK' /\ BalanceIsLedgerSum /\ [Next]_vars
        => [Account!Next]_([k \in DOMAIN ledger |-> Booking(ledger[k])])
  <2>1. SUFFICES ASSUME TypeOK, TypeOK', BalanceIsLedgerSum, [Next]_vars
                 PROVE  Account!Next \/ Booked' = Booked
    BY DEF Booked
  <2>2. CASE \E c \in Clients : PostMovement(c)
    BY <2>1, <2>2, PostBooks
  <2>3. CASE UNCHANGED <<ledger, balance>>
    BY <2>3 DEF Booked
  <2>4. QED
    BY <2>1, <2>2, <2>3, LedgerWriter
<1>3. QED
  BY <1>1, <1>2, TypeCorrect, BalanceIsLedgerSumSafe, PTL
     DEF Spec, ImplementsAccount, Account!Spec

-----------------------------------------------------------------------------
\* The check that follows a commit sees at least that movement, and the last
\* check of an item sees them all.
LEMMA AnnouncedStep == TypeOK /\ LowStockAnnounced /\ [Next]_vars => LowStockAnnounced'
<1> SUFFICES ASSUME TypeOK, LowStockAnnounced, [Next]_vars, NEW i \in Items
             PROVE  \/ \A k \in DOMAIN ledger' : ledger'[k].movement.item # i
                    \/ \E c \in Clients :
                           req'[c].kind = "reorder" /\ req'[c].current.item = i
                    \/ alert'[i] = "lost"
                    \/ alert'[i] = IF Total(i)' <= ReorderLevel[i] THEN "raised" ELSE "quiet"
  BY DEF LowStockAnnounced
<1> DEFINE Checking(c) == req[c].kind = "reorder" /\ req[c].current.item = i
           Unmoved == \A k \in DOMAIN ledger : ledger[k].movement.item # i
           Told == alert[i] = IF Total(i) <= ReorderLevel[i] THEN "raised" ELSE "quiet"
<1>1. Unmoved \/ (\E c \in Clients : Checking(c)) \/ alert[i] = "lost" \/ Told
  BY DEF LowStockAnnounced
<1>2. ASSUME NEW c \in Clients, NEW r, req' = [req EXCEPT ![c] = r], ~ Checking(c),
             UNCHANGED <<ledger, balance, alert>>
      PROVE  Unmoved' \/ (\E d \in Clients : Checking(d)') \/ alert'[i] = "lost" \/ Told'
  <2>1. \A d \in Clients : Checking(d) => Checking(d)'
    BY <1>2 DEF TypeOK
  <2>2. Unmoved' = Unmoved /\ Told' = Told /\ alert'[i] = alert[i]
    BY <1>2 DEF Total
  <2> HIDE DEF Checking, Unmoved, Told
  <2>3. QED
    BY <1>1, <2>1, <2>2
<1>3. ASSUME NEW c \in Clients, req[c].kind # "reorder",
             \/ StartMovement(c) \/ CheckMovement(c) \/ FinishPosting(c)
             \/ CreateCount(c) \/ UpdateLine(c) \/ WriteStatus(c) \/ FinishApprove(c)
             \/ RejectMovement(c) \/ RefuseMovement(c) \/ Crash(c)
             \/ \E g \in Grns : GrnApproved(c, g)
             \/ \E n \in Counts :
                 \/ \E w \in Warehouses : ReadBalances(c, n, w)
                 \/ \E k \in Items : ReadForLine(c, n, k)
                 \/ \E to \in {"variance_review", "cancelled"} : ReadForStatus(c, n, to)
                 \/ ReadForApprove(c, n)
      PROVE  Unmoved' \/ (\E d \in Clients : Checking(d)') \/ alert'[i] = "lost" \/ Told'
  <2>1. \E r : req' = [req EXCEPT ![c] = r]
    BY <1>3 DEF StartMovement, CheckMovement, FinishPosting, CreateCount, UpdateLine,
                WriteStatus, FinishApprove, RejectMovement, RefuseMovement, Crash, Abandon,
                GrnApproved, ReadBalances, ReadForLine, ReadForStatus, ReadForApprove
  <2>2. UNCHANGED <<ledger, balance, alert>>
    BY <1>3 DEF StartMovement, CheckMovement, FinishPosting, CreateCount, UpdateLine,
                WriteStatus, FinishApprove, RejectMovement, RefuseMovement, Crash, Abandon,
                GrnApproved, ReadBalances, ReadForLine, ReadForStatus, ReadForApprove
  <2>3. QED
    BY <1>2, <1>3, <2>1, <2>2
<1>4. ASSUME NEW c \in Clients, Crash(c), req[c].kind = "reorder"
      PROVE  Unmoved' \/ (\E d \in Clients : Checking(d)') \/ alert'[i] = "lost" \/ Told'
  <2>1. req[c].current.item \in Items
    BY <1>4, RequestKinds, MovementType DEF Posts
  <2>2. CASE req[c].current.item = i
    BY <1>4, <2>1, <2>2 DEF Crash, TypeOK
  <2>3. CASE req[c].current.item # i
    <3>1. /\ req' = [req EXCEPT ![c] = Idle] /\ UNCHANGED <<ledger, balance>>
          /\ alert'[i] = alert[i]
      BY <1>4, <2>1, <2>3 DEF Crash, Abandon, TypeOK
    <3>2. \A d \in Clients : Checking(d) => Checking(d)'
      BY <2>3, <3>1 DEF TypeOK
    <3>3. Unmoved' = Unmoved /\ Told' = Told
      BY <3>1 DEF Total
    <3> HIDE DEF Checking, Unmoved, Told
    <3>4. QED
      BY <1>1, <3>1, <3>2, <3>3
  <2>4. QED
    BY <2>2, <2>3
<1>5. ASSUME NEW c \in Clients, PostMovement(c)
      PROVE  Unmoved' \/ (\E d \in Clients : Checking(d)') \/ alert'[i] = "lost" \/ Told'
  <2> DEFINE m == req[c].current
             last == Len(ledger) + 1
             x == [job |-> req[c].job, movement |-> m]
  <2>1. m \in Movement /\ req[c].job \in Job
    BY <1>5, RequestKinds DEF PostMovement, Committing, Posts
  <2>2. /\ DOMAIN ledger' = DOMAIN ledger \cup {last}
        /\ ledger'[last] = x /\ \A k \in DOMAIN ledger : ledger'[k] = ledger[k]
    BY <1>5, <2>1, Posted DEF PostMovement
  <2>3. req'[c].kind = "reorder" /\ req'[c].current = m
    BY <1>5 DEF PostMovement, TypeOK
  <2>4. CASE m.item = i
    BY <2>3, <2>4
  <2>5. CASE m.item # i
    <3>1. Unmoved => Unmoved'
      BY <2>2, <2>5
    <3>2. \A d \in Clients : Checking(d) => Checking(d)'
      BY <1>5 DEF PostMovement, Committing, TypeOK
    <3>3. \A w \in Warehouses : balance'[<<i, w>>] = balance[<<i, w>>]
      BY <1>5, <2>5 DEF PostMovement, Place, TypeOK, Places
    <3>4. [w \in Warehouses |-> balance'[<<i, w>>]] = [w \in Warehouses |-> balance[<<i, w>>]]
      BY <3>3
    <3>5. Total(i)' = Total(i) /\ alert' = alert
      BY <1>5, <3>4 DEF Total, PostMovement
    <3>6. Told' = Told
      BY <3>5
    <3> HIDE DEF Checking, Unmoved, Told
    <3>7. QED
      BY <1>1, <3>1, <3>2, <3>5, <3>6
  <2>6. QED
    BY <2>4, <2>5
<1>6. ASSUME NEW c \in Clients, CheckReorderLevel(c)
      PROVE  Unmoved' \/ (\E d \in Clients : Checking(d)') \/ alert'[i] = "lost" \/ Told'
  <2>1. req[c].current.item \in Items
    BY <1>6, RequestKinds, MovementType DEF CheckReorderLevel, Posts
  <2>2. UNCHANGED <<ledger, balance>> /\ Total(i)' = Total(i)
    BY <1>6 DEF CheckReorderLevel, Total
  <2>3. CASE req[c].current.item = i
    BY <1>6, <2>1, <2>2, <2>3 DEF CheckReorderLevel, Low, TypeOK
  <2>4. CASE req[c].current.item # i
    <3>1. alert'[i] = alert[i]
      BY <1>6, <2>1, <2>4 DEF CheckReorderLevel, TypeOK
    <3>2. \A d \in Clients : Checking(d) => Checking(d)'
      BY <1>6, <2>4 DEF CheckReorderLevel, TypeOK
    <3>3. Unmoved' = Unmoved /\ Told' = Told
      BY <2>2, <3>1
    <3> HIDE DEF Checking, Unmoved, Told
    <3>4. QED
      BY <1>1, <3>1, <3>2, <3>3
  <2>5. QED
    BY <2>3, <2>4
<1>7. ASSUME UNCHANGED <<ledger, balance, req, alert>>
      PROVE  Unmoved' \/ (\E d \in Clients : Checking(d)') \/ alert'[i] = "lost" \/ Told'
  <2>1. \A c \in Clients : Checking(c) => Checking(c)'
    BY <1>7
  <2>2. Unmoved' = Unmoved /\ Told' = Told /\ alert'[i] = alert[i]
    BY <1>7 DEF Total
  <2> HIDE DEF Checking, Unmoved, Told
  <2>3. QED
    BY <1>1, <2>1, <2>2
<1>8. ASSUME NEW c \in Clients
      PROVE  /\ \/ StartMovement(c) \/ CheckMovement(c) \/ FinishPosting(c)
                \/ CreateCount(c) \/ UpdateLine(c) \/ WriteStatus(c) \/ FinishApprove(c)
                \/ RejectMovement(c) \/ RefuseMovement(c)
                => req[c].kind # "reorder"
             /\ \A g \in Grns : GrnApproved(c, g) => req[c].kind # "reorder"
             /\ \A n \in Counts :
                 /\ \A w \in Warehouses : ReadBalances(c, n, w) => req[c].kind # "reorder"
                 /\ \A k \in Items : ReadForLine(c, n, k) => req[c].kind # "reorder"
                 /\ \A to \in {"variance_review", "cancelled"} :
                        ReadForStatus(c, n, to) => req[c].kind # "reorder"
                 /\ ReadForApprove(c, n) => req[c].kind # "reorder"
  <2>1. req[c] = Idle => req[c].kind # "reorder"
    BY DEF Idle
  <2>2. QED
    BY <2>1 DEF StartMovement, CheckMovement, FinishPosting, CreateCount, UpdateLine,
         WriteStatus, FinishApprove, RejectMovement, RefuseMovement, Committing,
         GrnApproved, ReadBalances, ReadForLine, ReadForStatus, ReadForApprove
<1>9. Unmoved' \/ (\E d \in Clients : Checking(d)') \/ alert'[i] = "lost" \/ Told'
  <2> HIDE DEF Checking, Unmoved, Told
  <2>1. CASE \E c \in Clients : PostMovement(c) \/ CheckReorderLevel(c)
    BY <1>5, <1>6, <2>1
  <2>2. CASE \E c \in Clients : Crash(c)
    BY <1>3, <1>4, <2>2
  <2>3. CASE (\E x \in Masters : SetActive(x)) \/ UNCHANGED vars
    <3>1. UNCHANGED <<ledger, balance, req, alert>>
      BY <2>3 DEF SetActive, vars
    <3>2. QED
      BY <1>7, <3>1
  <2>4. QED
    BY <1>3, <1>8, <2>1, <2>2, <2>3 DEF Next, Progress
<1>10. QED
  BY <1>9

\* LowStockAnnounced: whatever movements of an item overlap, the check that
\* ends last has seen them all.
THEOREM LowStockAnnouncedSafe == Spec => []LowStockAnnounced
<1>1. Init => LowStockAnnounced
  BY DEF Init, LowStockAnnounced
<1>2. QED
  BY <1>1, AnnouncedStep, TypeCorrect, PTL DEF Spec

-----------------------------------------------------------------------------
\* The request is in the loop of an approval of count n.
LoopsOn(r, n) == Posts(r) /\ r.job.type = "count" /\ r.job.id = n

\* Disturbed, of a row that count n has, had or will have.
Touched(n, row, i) ==
    \E k \in DOMAIN ledger :
        /\ k > row.since
        /\ Place(ledger[k].movement) = <<i, row.warehouse>>
        /\ ~ (ledger[k].job.type = "count" /\ ledger[k].job.id = n)

\* The balance of line i of such a row is qty, unless something else moved it.
Holds(n, row, i, qty) == Touched(n, row, i) \/ balance[<<i, row.warehouse>>] = qty

FullyCounted(row) == \A i \in Lines(row) : row.lines[i].physical # Uncounted

\* The balance of a line of the count that a loop adjusts: as it was when the
\* snapshot was taken until the loop has posted its movement.
Expected(r, i) ==
    IF \E m \in Remaining(r) : m.item = i THEN r.seen.lines[i].system
                                          ELSE r.seen.lines[i].physical

\* What a request that creates or changes a count knows about the balances.
RequestReconciles(r) ==
    /\ r.kind = "create" =>
        /\ r.since <= Len(ledger)
        /\ \A i \in Lines(r) : Holds(r.count, r, i, r.lines[i].system)
    /\ r.kind = "status" =>
        /\ r.to \in {"variance_review", "cancelled"}
        /\ r.to = "variance_review" => FullyCounted(r.seen)
    /\ Posts(r) /\ r.job.type = "count" =>
        /\ r.job.run >= 1
        /\ r.seen.since <= Len(ledger)
        /\ r.todo \subseteq Adjustments(r.seen)
        /\ ~ overtaken[r.job.id] =>
            /\ FullyCounted(r.seen)
            /\ approvals[r.job.id] = 1 =>
                 \A i \in Lines(r.seen) : Holds(r.job.id, r.seen, i, Expected(r, i))

\* Until a count is approved for the first time its snapshot is the balance.
\* It is approved when nothing was left to post, and then nobody adjusts it.
CountHolds(n) ==
    IF count[n] = NoCount THEN approvals[n] = 0
    ELSE /\ count[n].since <= Len(ledger)
         /\ approvals[n] = 0 =>
              \A i \in Lines(count[n]) : Holds(n, count[n], i, count[n].lines[i].system)
         /\ ~ overtaken[n] =>
              /\ count[n].status \in {"variance_review", "approved"} => FullyCounted(count[n])
              /\ count[n].status = "approved" /\ approvals[n] = 1 =>
                   /\ \A i \in Lines(count[n]) :
                          Holds(n, count[n], i, count[n].lines[i].physical)
                   /\ \A c \in Clients : ~ LoopsOn(req[c], n)

CountInv ==
    /\ \A n \in Counts : CountHolds(n)
    /\ \A c \in Clients : RequestReconciles(req[c])

\* What a loop over a count works on.
LEMMA LoopType ==
    ASSUME TypeOK, LoopInv, CountInv, NEW c \in Clients, NEW n, LoopsOn(req[c], n)
    PROVE  /\ n \in Counts /\ req[c].seen \in Count
           /\ req[c].job \in Job /\ req[c].job.run \in Nat
           /\ 1 <= req[c].job.run /\ req[c].job.run <= approvals[n] /\ approvals[n] \in Nat
           /\ req[c].todo \subseteq Adjustments(req[c].seen)
           /\ req[c].kind # "next" => req[c].current \in req[c].todo
<1>1. /\ req[c].job \in Job /\ req[c].job.type = "count" /\ req[c].job.id = n
      /\ req[c].seen \in Count /\ Posts(req[c])
  BY RequestKinds DEF LoopsOn, RefersTo
<1>2. n \in Counts /\ req[c].job.run \in Nat
  BY <1>1 DEF Job
<1>3. LoopOK(req[c]) /\ RequestReconciles(req[c])
  BY DEF LoopInv, CountInv
<1>4. /\ req[c].job.run <= approvals[n]
      /\ req[c].kind # "next" => req[c].current \in req[c].todo
  BY <1>1, <1>3 DEF LoopOK, Started
<1>5. /\ 1 <= req[c].job.run /\ req[c].todo \subseteq Adjustments(req[c].seen)
  BY <1>1, <1>2, <1>3 DEF RequestReconciles
<1>6. approvals[n] \in Nat
  BY <1>2 DEF TypeOK
<1>7. QED
  BY <1>1, <1>2, <1>4, <1>5, <1>6

\* A count that was approved once has at most one loop.
LEMMA OneLoop ==
    ASSUME TypeOK, LoopInv, CountInv, NEW n, NEW c \in Clients, NEW d \in Clients,
           LoopsOn(req[c], n), LoopsOn(req[d], n), approvals[n] = 1
    PROVE  c = d
<1>1. /\ req[c].job \in Job /\ req[c].job.run = 1
      /\ req[d].job \in Job /\ req[d].job.run = 1
  BY LoopType
<1>2. req[c].job = req[d].job
  BY <1>1 DEF LoopsOn, Job
<1>3. QED
  BY <1>2 DEF LoopInv, RunsApart, LoopsOn

\* A movement that is not an adjustment of count n touches the lines it moves.
LEMMA HoldsPosting ==
    ASSUME TypeOK, NEW c \in Clients, PostMovement(c), NEW n, ~ LoopsOn(req[c], n),
           NEW row, row.since \in Nat, row.since <= Len(ledger), row.warehouse \in Warehouses,
           NEW i \in Items, NEW qty, Holds(n, row, i, qty)
    PROVE  Holds(n, row, i, qty)'
<1> DEFINE m == req[c].current
           last == Len(ledger) + 1
           x == [job |-> req[c].job, movement |-> m]
<1>1. m \in Movement /\ req[c].job \in Job /\ Posts(req[c])
  BY RequestKinds DEF PostMovement, Committing, Posts
<1>2. /\ DOMAIN ledger' = DOMAIN ledger \cup {last} /\ last > row.since
      /\ ledger'[last] = x /\ \A k \in DOMAIN ledger : ledger'[k] = ledger[k]
  <2>1. Len(ledger) \in Nat
    BY LenProperties DEF TypeOK
  <2>2. QED
    BY <1>1, <2>1, Posted DEF PostMovement
<1>3. ~ (x.job.type = "count" /\ x.job.id = n) /\ x.movement = m
  BY <1>1 DEF LoopsOn
<1>4. balance' = [balance EXCEPT ![Place(m)] = NewBalance(m)]
  BY DEF PostMovement
<1> HIDE DEF x, last, m
<1>5. Touched(n, row, i) => Touched(n, row, i)'
  BY <1>2 DEF Touched
<1>6. CASE Place(m) = <<i, row.warehouse>>
  <2>1. Touched(n, row, i)'
    BY <1>2, <1>3, <1>6 DEF Touched
  <2>2. QED
    BY <2>1 DEF Holds
<1>7. CASE Place(m) # <<i, row.warehouse>>
  <2>1. balance'[<<i, row.warehouse>>] = balance[<<i, row.warehouse>>]
    BY <1>4, <1>7 DEF TypeOK, Places
  <2>2. QED
    BY <1>5, <2>1 DEF Holds
<1>8. QED
  BY <1>6, <1>7

\* The loop posts what brings the line to the counted quantity.
LEMMA HoldsAdjusted ==
    ASSUME TypeOK, LoopInv, CountInv, NEW c \in Clients, PostMovement(c),
           NEW n, LoopsOn(req[c], n), NEW row, row = req[c].seen, NEW i \in Lines(row),
           NEW before, before = Expected(req[c], i), Holds(n, row, i, before),
           NEW after, after = Expected(req[c], i)'
    PROVE  Holds(n, row, i, after)'
<1> DEFINE last == Len(ledger) + 1
<1>0. PICK m : m = req[c].current
  OBVIOUS
<1>1. /\ m \in Movement /\ req[c].job \in Job /\ req[c].kind = "commit"
      /\ row \in Count /\ m \in req[c].todo /\ req[c].todo \subseteq Adjustments(row)
  BY <1>0, RequestKinds, LoopType DEF PostMovement, Committing, Posts
<1>2. Touched(n, row, i) => Touched(n, row, i)'
  <2> DEFINE x == [job |-> req[c].job, movement |-> m]
  <2>1. /\ DOMAIN ledger' = DOMAIN ledger \cup {last}
        /\ \A k \in DOMAIN ledger : ledger'[k] = ledger[k]
    BY <1>0, <1>1, Posted DEF PostMovement
  <2> HIDE DEF last, x
  <2>2. QED
    BY <2>1 DEF Touched
<1>3. /\ req'[c].kind = "reorder" /\ req'[c].todo = req[c].todo
      /\ req'[c].current = m /\ req'[c].seen = row
  BY <1>0 DEF PostMovement, TypeOK
<1>4. Remaining(req[c]) = req[c].todo /\ Remaining(req'[c]) = req[c].todo \ {m}
  BY <1>1, <1>3 DEF Remaining
<1>5. /\ before = IF \E k \in req[c].todo : k.item = i
                    THEN row.lines[i].system ELSE row.lines[i].physical
      /\ after = IF \E k \in req[c].todo \ {m} : k.item = i
                   THEN row.lines[i].system ELSE row.lines[i].physical
  BY <1>3, <1>4 DEF Expected
<1>6. i \in Items /\ row.lines[i] \in Line /\ row.warehouse \in Warehouses
  BY <1>1, LineOfCount DEF Count
<1>7. \A k \in Adjustments(row) : k.line = k.item /\ k.warehouse = row.warehouse
  BY DEF Adjustments
<1>8. CASE m.item = i
  <2>1. PICK j \in Lines(row) :
          /\ row.lines[j].physical # Uncounted
          /\ m = [line |-> j, item |-> j, warehouse |-> row.warehouse,
                  qty |-> IF Variance(row.lines[j]) > 0 THEN Variance(row.lines[j])
                                                        ELSE - Variance(row.lines[j]),
                  direction |-> IF Variance(row.lines[j]) > 0 THEN 1 ELSE -1]
    BY <1>1 DEF Adjustments
  <2>2. j = i
    BY <1>8, <2>1
  <2>3. row.lines[i].physical \in Nat /\ row.lines[i].system \in Nat
    BY <1>6, <2>1, <2>2, QuantityAssumption DEF Line
  <2>4. Signed(m) = Variance(row.lines[i]) /\ Place(m) = <<i, row.warehouse>>
    <3>1. Variance(row.lines[i]) \in Int
      BY <2>3 DEF Variance
    <3>2. QED
      BY <2>1, <2>2, <3>1 DEF Signed, Place
  <2>5. before = row.lines[i].system
    BY <1>1, <1>5, <1>8
  <2>6. after = row.lines[i].physical
    <3>1. \A k \in req[c].todo : k.item = i => k = m
      BY <1>1, <1>7, <1>8, AdjustmentsType
    <3>2. QED
      BY <1>5, <3>1
  <2>7. balance'[<<i, row.warehouse>>] = balance[<<i, row.warehouse>>] + Signed(m)
    BY <1>0, <1>6, <2>4 DEF PostMovement, NewBalance, TypeOK, Places
  <2>8. balance[<<i, row.warehouse>>] = before => balance'[<<i, row.warehouse>>] = after
    <3>1. PICK b, v, s, f : /\ b = balance[<<i, row.warehouse>>] /\ v = Signed(m)
                            /\ s = row.lines[i].system /\ f = row.lines[i].physical
      OBVIOUS
    <3>2. v = f - s /\ f \in Nat /\ s \in Nat
      BY <2>3, <2>4, <3>1 DEF Variance
    <3>3. b = s => b + v = f
      BY ONLY <3>2
    <3>4. QED
      BY ONLY <2>5, <2>6, <2>7, <3>1, <3>3
  <2>9. QED
    BY <1>2, <2>8 DEF Holds
<1>9. CASE m.item # i
  <2>1. after = before
    BY <1>5, <1>9
  <2>2. balance'[<<i, row.warehouse>>] = balance[<<i, row.warehouse>>]
    BY <1>0, <1>6, <1>9 DEF PostMovement, Place, TypeOK, Places
  <2>3. QED
    BY <1>2, <2>1, <2>2 DEF Holds
<1>10. QED
  BY <1>8, <1>9

\* Steps that move no stock: what the other requests know stays true.
LEMMA RequestQuiet ==
    ASSUME TypeOK, LoopInv, CountInv, NEW c \in Clients, NEW r,
           req' = [req EXCEPT ![c] = r], UNCHANGED <<ledger, balance>>,
           \A n \in Counts : overtaken[n] => overtaken'[n],
           \A n \in Counts : approvals'[n] \in Nat /\ approvals[n] <= approvals'[n],
           RequestReconciles(r)'
    PROVE  \A d \in Clients : RequestReconciles(req[d])'
<1> SUFFICES ASSUME NEW d \in Clients, d # c PROVE RequestReconciles(req[d])'
  BY DEF TypeOK
<1> DEFINE q == req[d]
<1>1. PICK s : s = req[d]
  OBVIOUS
<1>2. req'[d] = s /\ RequestReconciles(s)
  BY <1>1 DEF TypeOK, CountInv
<1>3. ASSUME NEW n, NEW row, NEW i, NEW qty, Holds(n, row, i, qty)
      PROVE  Holds(n, row, i, qty)'
  BY <1>3 DEF Holds, Touched
<1>4. s.kind = "create" =>
        /\ s.since <= Len(ledger')
        /\ \A i \in Lines(s) : Holds(s.count, s, i, s.lines[i].system)'
  BY <1>2, <1>3 DEF RequestReconciles
<1>5. ASSUME Posts(s), s.job.type = "count"
      PROVE  /\ s.job.run >= 1
             /\ s.seen.since <= Len(ledger')
             /\ s.todo \subseteq Adjustments(s.seen)
             /\ ~ overtaken'[s.job.id] =>
                /\ FullyCounted(s.seen)
                /\ approvals'[s.job.id] = 1 =>
                     \A i \in Lines(s.seen) : Holds(s.job.id, s.seen, i, Expected(s, i))'
  <2> DEFINE n == s.job.id
  <2>1. LoopsOn(req[d], n)
    BY <1>1, <1>5 DEF LoopsOn
  <2>2. n \in Counts /\ approvals[n] \in Nat /\ 1 <= approvals[n]
    BY <1>1, <2>1, LoopType
  <2>3. approvals'[n] = 1 => approvals[n] = 1
    BY <2>2
  <2>4. ~ overtaken'[n] => ~ overtaken[n]
    BY <2>2
  <2>5. /\ s.job.run >= 1
        /\ s.seen.since <= Len(ledger)
        /\ s.todo \subseteq Adjustments(s.seen)
        /\ ~ overtaken[n] =>
           /\ FullyCounted(s.seen)
           /\ approvals[n] = 1 =>
                \A i \in Lines(s.seen) : Holds(n, s.seen, i, Expected(s, i))
    BY <1>2, <1>5 DEF RequestReconciles
  <2>6. (\A i \in Lines(s.seen) : Holds(n, s.seen, i, Expected(s, i))) =>
            \A i \in Lines(s.seen) : Holds(n, s.seen, i, Expected(s, i))'
    BY <1>3
  <2>7. QED
    BY <2>3, <2>4, <2>5, <2>6
<1>6. RequestReconciles(s)'
  BY <1>2, <1>4, <1>5 DEF RequestReconciles
<1>7. QED
  BY <1>2, <1>6

\* A count that a step leaves alone.
LEMMA CountQuiet ==
    ASSUME NEW n \in Counts, CountHolds(n), UNCHANGED <<ledger, balance>>,
           count'[n] = count[n], overtaken'[n] = overtaken[n], approvals'[n] = approvals[n],
           \A d \in Clients : LoopsOn(req'[d], n) => LoopsOn(req[d], n)
    PROVE  CountHolds(n)'
<1>1. PICK row : row = count[n]
  OBVIOUS
<1>2. ASSUME NEW i, NEW qty, Holds(n, row, i, qty)
      PROVE  Holds(n, row, i, qty)'
  BY <1>2 DEF Holds, Touched
<1>3. /\ (\A i \in Lines(row) : Holds(n, row, i, row.lines[i].system)) =>
            \A i \in Lines(row) : Holds(n, row, i, row.lines[i].system)'
      /\ (\A i \in Lines(row) : Holds(n, row, i, row.lines[i].physical)) =>
            \A i \in Lines(row) : Holds(n, row, i, row.lines[i].physical)'
  BY <1>2
<1>4. QED
  BY <1>1, <1>3 DEF CountHolds

\* Steps that change one request and nothing a count depends on.
LEMMA InvQuiet ==
    ASSUME TypeOK, LoopInv, CountInv, NEW c \in Clients, NEW r,
           req' = [req EXCEPT ![c] = r],
           UNCHANGED <<ledger, balance, count, overtaken, approvals>>,
           \A n \in Counts : LoopsOn(r, n) => LoopsOn(req[c], n),
           RequestReconciles(r)
    PROVE  CountInv'
<1>1. RequestReconciles(r)'
  <2>1. ASSUME NEW n, NEW row, NEW i, NEW qty PROVE Holds(n, row, i, qty)' = Holds(n, row, i, qty)
    BY DEF Holds, Touched
  <2>2. QED
    BY <2>1 DEF RequestReconciles
<1>2. \A d \in Clients : RequestReconciles(req[d])'
  <2>1. \A n \in Counts : approvals'[n] \in Nat /\ approvals[n] <= approvals'[n]
    BY DEF TypeOK
  <2>2. QED
    BY <1>1, <2>1, RequestQuiet
<1>3. \A n \in Counts, d \in Clients : LoopsOn(req'[d], n) => LoopsOn(req[d], n)
  BY DEF TypeOK
<1>4. \A n \in Counts : CountHolds(n)'
  BY <1>3, CountQuiet DEF CountInv
<1>5. QED
  BY <1>2, <1>4 DEF CountInv

\* Steps that write one count and end the request that writes.
LEMMA InvWritten ==
    ASSUME TypeOK, LoopInv, CountInv, NEW c \in Clients, req' = [req EXCEPT ![c] = Idle],
           UNCHANGED <<ledger, balance, approvals>>,
           NEW n \in Counts, CountHolds(n)',
           \A k \in Counts \ {n} : count'[k] = count[k] /\ overtaken'[k] = overtaken[k],
           overtaken[n] => overtaken'[n]
    PROVE  CountInv'
<1>1. RequestReconciles(Idle)'
  BY DEF RequestReconciles, Idle, Posts
<1>2. \A k \in Counts : overtaken[k] => overtaken'[k]
  OBVIOUS
<1>3. \A d \in Clients : RequestReconciles(req[d])'
  <2>1. \A k \in Counts : approvals'[k] \in Nat /\ approvals[k] <= approvals'[k]
    BY DEF TypeOK
  <2>2. PICK r : r = Idle
    OBVIOUS
  <2>3. QED
    BY <1>1, <1>2, <2>1, RequestQuiet
<1>4. \A k \in Counts, d \in Clients : LoopsOn(req'[d], k) => LoopsOn(req[d], k)
  BY DEF TypeOK, LoopsOn, Posts, Idle
<1>5. \A k \in Counts \ {n} : CountHolds(k)'
  BY <1>4, CountQuiet DEF CountInv
<1>6. QED
  BY <1>3, <1>5 DEF CountInv

\* Posting a movement keeps it.
LEMMA InvPosting ==
    ASSUME TypeOK, CreatesApart, LoopInv, CountInv, NEW c \in Clients, PostMovement(c)
    PROVE  CountInv'
<1>1. Len(ledger) \in Nat /\ Len(ledger') = Len(ledger) + 1
  <2>1. req[c].job \in Job /\ req[c].current \in Movement
    BY RequestKinds DEF PostMovement, Committing, Posts
  <2>2. [job |-> req[c].job, movement |-> req[c].current] \in [job : Job, movement : Movement]
    BY <2>1
  <2>3. ledger \in Seq([job : Job, movement : Movement])
    BY DEF TypeOK
  <2>4. QED
    BY <2>2, <2>3, AppendProperties, LenProperties DEF PostMovement
<1>2. UNCHANGED <<count, approvals, overtaken>>
  BY DEF PostMovement
<1>3. /\ req'[c].kind = "reorder" /\ req'[c].job = req[c].job /\ req'[c].todo = req[c].todo
      /\ req'[c].seen = req[c].seen /\ req[c].kind = "commit"
      /\ \A d \in Clients \ {c} : req'[d] = req[d]
  BY DEF PostMovement, Committing, TypeOK
<1>4. \A d \in Clients, n \in Counts : LoopsOn(req'[d], n) = LoopsOn(req[d], n)
  BY <1>3 DEF LoopsOn, Posts
<1>5. ASSUME NEW n \in Counts PROVE CountHolds(n)'
  <2>1. PICK row : row = count[n]
    OBVIOUS
  <2>2. CASE row = NoCount
    BY <1>2, <1>5, <2>1, <2>2 DEF CountInv, CountHolds
  <2>3. CASE row # NoCount
    <3>1. row \in Count /\ row.since \in Nat /\ row.warehouse \in Warehouses
      BY <2>1, <2>3 DEF TypeOK, Count
    <3>2. CountHolds(n) /\ row.since <= Len(ledger) /\ row.since <= Len(ledger')
      BY <1>1, <2>1, <2>3, <3>1 DEF CountInv, CountHolds
    <3>3. ASSUME ~ LoopsOn(req[c], n), NEW i \in Lines(row), NEW qty, Holds(n, row, i, qty)
          PROVE  Holds(n, row, i, qty)'
      BY <3>1, <3>2, <3>3, LineOfCount, HoldsPosting
    <3>4. approvals[n] = 0 => ~ LoopsOn(req[c], n)
      BY LoopType
    <3>5. ASSUME approvals[n] = 0
          PROVE  \A i \in Lines(row) : Holds(n, row, i, row.lines[i].system)'
      BY <2>1, <2>3, <3>2, <3>3, <3>4, <3>5 DEF CountHolds
    <3>6. ASSUME ~ overtaken[n], row.status = "approved", approvals[n] = 1
          PROVE  /\ \A i \in Lines(row) : Holds(n, row, i, row.lines[i].physical)'
                 /\ \A d \in Clients : ~ LoopsOn(req'[d], n)
      <4>1. /\ \A i \in Lines(row) : Holds(n, row, i, row.lines[i].physical)
            /\ \A d \in Clients : ~ LoopsOn(req[d], n)
        BY <2>1, <2>3, <3>2, <3>6 DEF CountHolds
      <4>2. QED
        BY <1>4, <3>3, <4>1
    <3>7. ~ overtaken[n] /\ row.status \in {"variance_review", "approved"} => FullyCounted(row)
      BY <2>1, <2>3, <3>2 DEF CountHolds
    <3>8. count'[n] = row
      BY <1>2, <2>1
    <3>9. QED
      BY <1>2, <2>3, <3>2, <3>5, <3>6, <3>7, <3>8 DEF CountHolds
  <2>4. QED
    BY <2>2, <2>3
<1>6. ASSUME NEW d \in Clients, req[d].kind = "create" PROVE RequestReconciles(req[d])'
  <2>1. PICK s : s = req[d]
    OBVIOUS
  <2>2. /\ s \in [kind : {"create"}, count : Counts, warehouse : Warehouses,
                  since : Nat, lines : [Items -> Line \cup {NoLine}]]
        /\ RequestReconciles(s)
    BY <1>6, <2>1, RequestKinds DEF CountInv
  <2>3. s.kind = "create" /\ s.since \in Nat /\ s.since <= Len(ledger) /\ s.warehouse \in Warehouses
    BY <2>2 DEF RequestReconciles
  <2>4. ~ LoopsOn(req[c], s.count)
    <3>1. s.count \in Counts /\ count[s.count] = NoCount
      BY <2>2, <2>1, <1>6 DEF CreatesApart
    <3>2. approvals[s.count] = 0
      BY <3>1 DEF CountInv, CountHolds
    <3>3. QED
      BY <3>2, LoopType
  <2>5. \A i \in Lines(s) : Holds(s.count, s, i, s.lines[i].system)'
    BY <2>2, <2>3, <2>4, HoldsPosting DEF RequestReconciles, Lines
  <2>6. req'[d] = s
    BY <1>3, <1>6, <2>1
  <2>7. RequestReconciles(s)'
    BY <1>1, <2>3, <2>5 DEF RequestReconciles, Posts
  <2>8. QED
    BY <2>6, <2>7
<1>7. ASSUME NEW d \in Clients, Posts(req[d]), req[d].job.type = "count"
      PROVE  RequestReconciles(req[d])'
  <2>1. PICK s : s = req[d]
    OBVIOUS
  <2>2. PICK t : t = req'[d]
    OBVIOUS
  <2>3. PICK n : n = s.job.id
    OBVIOUS
  <2>4. PICK row : row = s.seen
    OBVIOUS
  <2>5. LoopsOn(req[d], n)
    BY <1>7, <2>1, <2>3 DEF LoopsOn
  <2>6. n \in Counts /\ row \in Count
    BY <2>1, <2>4, <2>5, LoopType
  <2>7. row.since \in Nat /\ row.warehouse \in Warehouses
    BY <2>6 DEF Count
  <2>8. /\ s.job.run >= 1 /\ row.since <= Len(ledger) /\ s.todo \subseteq Adjustments(row)
        /\ ~ overtaken[n] =>
           /\ FullyCounted(row)
           /\ approvals[n] = 1 => \A i \in Lines(row) : Holds(n, row, i, Expected(s, i))
    BY <1>7, <2>1, <2>3, <2>4 DEF CountInv, RequestReconciles
  <2>9. /\ t.job = s.job /\ t.seen = row /\ t.todo = s.todo
        /\ Posts(t) /\ t.kind \notin {"create", "status"}
    BY <1>3, <1>7, <2>1, <2>2, <2>4 DEF Posts
  <2>10. ASSUME approvals[n] = 1, ~ overtaken[n], NEW i \in Lines(row)
         PROVE  Holds(n, row, i, Expected(t, i))'
    <3>1. Holds(n, row, i, Expected(s, i))
      BY <2>8, <2>10
    <3>2. CASE d = c
      <4>1. Expected(s, i) = Expected(req[c], i) /\ Expected(t, i) = Expected(req[c], i)'
        BY <2>1, <2>2, <3>2
      <4>2. PICK before, after : before = Expected(s, i) /\ after = Expected(t, i)
        OBVIOUS
      <4>3. Holds(n, row, i, before)
        BY <3>1, <4>2
      <4>4. Holds(n, row, i, after)'
        BY <2>1, <2>4, <2>5, <3>2, <4>1, <4>2, <4>3, HoldsAdjusted
      <4>5. QED
        BY <4>2, <4>4
    <3>3. CASE d # c
      <4>1. t = s
        BY <1>3, <2>1, <2>2, <3>3
      <4>2. ~ LoopsOn(req[c], n)
        BY <2>5, <2>10, <3>3, OneLoop
      <4>3. Holds(n, row, i, Expected(s, i))'
        BY <2>6, <2>7, <2>8, <3>1, <4>2, LineOfCount, HoldsPosting
      <4>4. QED
        BY <4>1, <4>3
    <3>4. QED
      BY <3>2, <3>3
  <2>11. row.since <= Len(ledger')
    BY <1>1, <2>7, <2>8
  <2>12. RequestReconciles(t)'
    BY <1>2, <2>3, <2>8, <2>9, <2>10, <2>11 DEF RequestReconciles
  <2>13. QED
    BY <2>2, <2>12
<1>8. ASSUME NEW d \in Clients, req[d].kind # "create",
             ~ (Posts(req[d]) /\ req[d].job.type = "count")
      PROVE  RequestReconciles(req[d])'
  <2>1. RequestReconciles(req[d])
    BY DEF CountInv
  <2>2. CASE d = c
    BY <1>3, <1>8, <2>2 DEF RequestReconciles, Posts
  <2>3. CASE d # c
    BY <1>3, <1>8, <2>1, <2>3 DEF RequestReconciles
  <2>4. QED
    BY <2>2, <2>3
<1>9. QED
  BY <1>5, <1>6, <1>7, <1>8 DEF CountInv

\* Every step keeps what counts and the requests on them say of the balances.
LEMMA CountInvStep ==
    TypeOK /\ CreatesApart /\ AllChecked /\ LoopInv /\ CountInv /\ [Next]_vars => CountInv'
<1> SUFFICES ASSUME TypeOK, CreatesApart, AllChecked, LoopInv, CountInv, [Next]_vars
             PROVE  CountInv'
  OBVIOUS
<1>1. CASE \E c \in Clients : PostMovement(c)
  BY <1>1, InvPosting
<1>2. RequestReconciles(Idle) /\ \A n : ~ LoopsOn(Idle, n)
  BY DEF RequestReconciles, LoopsOn, Idle, Posts
<1>3. CASE \E c \in Clients :
             RejectMovement(c) \/ RefuseMovement(c) \/ FinishPosting(c) \/ Crash(c)
  <2>1. PICK c \in Clients :
          /\ req' = [req EXCEPT ![c] = Idle]
          /\ UNCHANGED <<ledger, balance, count, overtaken, approvals>>
    BY <1>3 DEF RejectMovement, RefuseMovement, FinishPosting, Crash, Abandon
  <2>2. QED
    BY <1>2, <2>1, InvQuiet
<1>4. ASSUME NEW c \in Clients, NEW r, req' = [req EXCEPT ![c] = r], r.kind = "next",
             r.job.type # "count",
             UNCHANGED <<ledger, balance, count, overtaken, approvals>>
      PROVE  CountInv'
  <2>1. RequestReconciles(r) /\ \A n : ~ LoopsOn(r, n)
    BY <1>4 DEF RequestReconciles, LoopsOn
  <2>2. QED
    BY <1>4, <2>1, InvQuiet
<1>5. CASE \E c \in Clients : StartMovement(c)
  <2>1. PICK c, r :
          /\ c \in Clients /\ r.kind = "next" /\ r.job.type = "move"
          /\ req' = [req EXCEPT ![c] = r]
          /\ UNCHANGED <<ledger, balance, count, overtaken, approvals>>
    BY <1>5 DEF StartMovement, Posting
  <2>2. QED
    BY <1>4, <2>1
<1>6. CASE \E c \in Clients, g \in Grns : GrnApproved(c, g)
  <2>1. PICK c, r :
          /\ c \in Clients /\ r.kind = "next" /\ r.job.type = "grn"
          /\ req' = [req EXCEPT ![c] = r]
          /\ UNCHANGED <<ledger, balance, count, overtaken, approvals>>
    BY <1>6 DEF GrnApproved, Posting
  <2>2. QED
    BY <1>4, <2>1
\* The loop goes on: what it has left to post is the same.
<1>7. ASSUME NEW c \in Clients, NEW r, req' = [req EXCEPT ![c] = r], Posts(req[c]), Posts(r),
             r.job = req[c].job, r.seen = req[c].seen, r.todo \subseteq req[c].todo,
             Remaining(r) = Remaining(req[c]),
             UNCHANGED <<ledger, balance, count, overtaken, approvals>>
      PROVE  CountInv'
  <2>1. RequestReconciles(req[c])
    BY DEF CountInv
  <2>2. \A i : Expected(r, i) = Expected(req[c], i)
    BY <1>7 DEF Expected
  <2>3. RequestReconciles(r)
    BY <1>7, <2>1, <2>2 DEF RequestReconciles, Posts
  <2>4. \A n : LoopsOn(r, n) => LoopsOn(req[c], n)
    BY <1>7 DEF LoopsOn
  <2>5. QED
    BY <1>7, <2>3, <2>4, InvQuiet
<1>8. ASSUME NEW c \in Clients, CheckMovement(c) PROVE CountInv'
  <2>1. PICK m \in req[c].todo :
          req' = [req EXCEPT ![c] =
             [kind |-> "commit", job |-> req[c].job, todo |-> req[c].todo,
              seen |-> req[c].seen, current |-> m]]
    BY <1>8 DEF CheckMovement
  <2> DEFINE r == [kind |-> "commit", job |-> req[c].job, todo |-> req[c].todo,
                   seen |-> req[c].seen, current |-> m]
  <2>2. /\ Posts(req[c]) /\ Posts(r) /\ r.job = req[c].job /\ r.seen = req[c].seen
        /\ r.todo = req[c].todo /\ Remaining(r) = Remaining(req[c])
    BY <1>8 DEF CheckMovement, Posts, Remaining
  <2>3. UNCHANGED <<ledger, balance, count, overtaken, approvals>>
    BY <1>8 DEF CheckMovement
  <2> HIDE DEF r
  <2>4. QED
    BY <1>7, <2>1, <2>2, <2>3 DEF r
<1>9. ASSUME NEW c \in Clients, CheckReorderLevel(c) PROVE CountInv'
  <2> DEFINE r == Posting(req[c].job, Rest(req[c].todo, req[c].current), req[c].seen)
  <2>1. /\ Posts(req[c]) /\ Posts(r) /\ r.job = req[c].job /\ r.seen = req[c].seen
        /\ r.todo \subseteq req[c].todo /\ Remaining(r) = Remaining(req[c])
    BY <1>9 DEF CheckReorderLevel, Posting, Posts, Remaining, Rest
  <2>2. /\ req' = [req EXCEPT ![c] = r]
        /\ UNCHANGED <<ledger, balance, count, overtaken, approvals>>
    BY <1>9 DEF CheckReorderLevel
  <2> HIDE DEF r
  <2>3. QED
    BY <1>7, <2>1, <2>2
<1>10. ASSUME NEW c \in Clients, NEW n \in Counts, NEW w \in Warehouses, ReadBalances(c, n, w)
       PROVE  CountInv'
  <2> DEFINE lines == [i \in Items |->
                IF active[i] /\ <<i, w>> \in stocked
                  THEN [system |-> balance[<<i, w>>], physical |-> Uncounted]
                  ELSE NoLine]
             r == [kind |-> "create", count |-> n, warehouse |-> w,
                   since |-> Len(ledger), lines |-> lines]
  <2>1. Len(ledger) \in Nat
    BY LenProperties DEF TypeOK
  <2>2. ASSUME NEW i \in Lines(r) PROVE r.lines[i].system = balance[<<i, w>>]
    <3>1. i \in Items /\ lines[i] # NoLine
      BY DEF Lines
    <3>2. QED
      BY <3>1
  <2>3. r.kind = "create" /\ r.since = Len(ledger) /\ r.warehouse = w
    OBVIOUS
  <2>4. /\ req' = [req EXCEPT ![c] = r]
        /\ UNCHANGED <<ledger, balance, count, overtaken, approvals>>
    BY <1>10 DEF ReadBalances
  <2> HIDE DEF r
  <2>5. RequestReconciles(r) /\ \A k : ~ LoopsOn(r, k)
    BY <2>1, <2>2, <2>3 DEF RequestReconciles, Holds, LoopsOn, Posts
  <2>6. QED
    BY <2>4, <2>5, InvQuiet
<1>11. ASSUME NEW c \in Clients, NEW n \in Counts, NEW i \in Items, ReadForLine(c, n, i)
       PROVE  CountInv'
  <2>1. PICK r : r.kind = "line" /\ req' = [req EXCEPT ![c] = r]
    BY <1>11 DEF ReadForLine
  <2>2. RequestReconciles(r) /\ \A k : ~ LoopsOn(r, k)
    BY <2>1 DEF RequestReconciles, LoopsOn, Posts
  <2>3. UNCHANGED <<ledger, balance, count, overtaken, approvals>>
    BY <1>11 DEF ReadForLine
  <2>4. QED
    BY <2>1, <2>2, <2>3, InvQuiet
<1>12. ASSUME NEW c \in Clients, NEW n \in Counts,
              NEW to \in {"variance_review", "cancelled"}, ReadForStatus(c, n, to)
       PROVE  CountInv'
  <2> DEFINE r == [kind |-> "status", count |-> n, seen |-> count[n], to |-> to]
  <2>1. r.kind = "status" /\ r.to = to /\ (to = "variance_review" => FullyCounted(r.seen))
    BY <1>12 DEF ReadForStatus, FullyCounted
  <2>2. /\ req' = [req EXCEPT ![c] = r]
        /\ UNCHANGED <<ledger, balance, count, overtaken, approvals>>
    BY <1>12 DEF ReadForStatus
  <2> HIDE DEF r
  <2>3. RequestReconciles(r) /\ \A k : ~ LoopsOn(r, k)
    BY <2>1 DEF RequestReconciles, LoopsOn, Posts
  <2>4. QED
    BY <2>2, <2>3, InvQuiet
<1>13. ASSUME NEW c \in Clients, NEW n \in Counts, ReadForApprove(c, n) PROVE CountInv'
  <2>1. PICK row : row = count[n]
    OBVIOUS
  <2>13. PICK j : j = [type |-> "count", id |-> n, run |-> approvals[n] + 1]
    OBVIOUS
  <2>14. PICK r : r = Posting(j, Adjustments(row), row)
    OBVIOUS
  <2>2. /\ row \in Count /\ row # NoCount /\ row.status = "variance_review"
        /\ CountHolds(n) /\ approvals[n] \in Nat
    <3>1. row \in Count /\ row # NoCount /\ "approved" \in STOCK_COUNT_TRANSITIONS[row.status]
      BY <1>13, <2>1 DEF ReadForApprove, TypeOK, CanTransition
    <3>2. row.status \in CountStatus
      BY <3>1 DEF Count
    <3>3. row.status = "variance_review"
      BY <3>1, <3>2 DEF CountStatus, STOCK_COUNT_TRANSITIONS
    <3>4. QED
      BY <3>1, <3>3 DEF CountInv, TypeOK
  <2>3. /\ r.kind = "next" /\ Posts(r) /\ r.job = j /\ r.seen = row /\ r.todo = Adjustments(row)
        /\ Remaining(r) = Adjustments(row)
        /\ j.type = "count" /\ j.id = n /\ j.run = approvals[n] + 1
    BY <2>13, <2>14 DEF Posting, Posts, Remaining
  <2>4. /\ req' = [req EXCEPT ![c] = r]
        /\ UNCHANGED <<ledger, balance, count, overtaken>>
        /\ approvals' = [approvals EXCEPT ![n] = approvals[n] + 1]
    BY <1>13, <2>1, <2>13, <2>14 DEF ReadForApprove
  <2>5. approvals'[n] = approvals[n] + 1 /\ \A k \in Counts \ {n} : approvals'[k] = approvals[k]
    BY <2>4 DEF TypeOK
  <2>6. row.since <= Len(ledger) /\ (~ overtaken[n] => FullyCounted(row))
    BY <2>1, <2>2 DEF CountHolds
  <2>7. ASSUME approvals[n] = 0, FullyCounted(row), NEW i \in Lines(row)
        PROVE  Holds(n, row, i, Expected(r, i))
    <3>1. Holds(n, row, i, row.lines[i].system)
      BY <2>1, <2>2, <2>7 DEF CountHolds
    <3>2. row.lines[i].physical \in Nat /\ row.lines[i].system \in Nat
      BY <2>2, <2>7, LineOfCount, QuantityAssumption DEF FullyCounted, Line
    <3>3. CASE Variance(row.lines[i]) # 0
      <4>1. \E m \in Adjustments(row) : m.item = i
        <5>1. PICK m : m = [line |-> i, item |-> i, warehouse |-> row.warehouse,
                 qty |-> IF Variance(row.lines[i]) > 0 THEN Variance(row.lines[i])
                                                       ELSE - Variance(row.lines[i]),
                 direction |-> IF Variance(row.lines[i]) > 0 THEN 1 ELSE -1]
          OBVIOUS
        <5>2. m \in Adjustments(row)
          BY <2>7, <3>3, <5>1 DEF Adjustments, FullyCounted
        <5>3. QED
          BY <5>1, <5>2
      <4>2. Expected(r, i) = row.lines[i].system
        BY <2>3, <4>1 DEF Expected
      <4>3. QED
        BY <3>1, <4>2
    <3>4. CASE Variance(row.lines[i]) = 0
      <4>1. row.lines[i].physical = row.lines[i].system
        BY <3>2, <3>4 DEF Variance
      <4>2. QED
        BY <2>3, <3>1, <4>1 DEF Expected
    <3>5. QED
      BY <3>3, <3>4
  <2>8. RequestReconciles(r)'
    <3>1. ASSUME NEW i, NEW qty PROVE Holds(n, row, i, qty)' = Holds(n, row, i, qty)
      BY <2>4 DEF Holds, Touched
    <3>2. ASSUME ~ overtaken[n], approvals'[n] = 1, NEW i \in Lines(row)
          PROVE  Holds(n, row, i, Expected(r, i))'
      <4>1. approvals[n] = 0 /\ FullyCounted(row)
        BY <2>2, <2>5, <2>6, <3>2
      <4>2. QED
        BY <2>7, <3>1, <4>1
    <3>3. r.job.run >= 1
      BY <2>2, <2>3
    <3>4. QED
      BY <2>3, <2>4, <2>6, <3>2, <3>3 DEF RequestReconciles
  <2>9. \A d \in Clients : RequestReconciles(req[d])'
    <3>1. \A k \in Counts : approvals'[k] \in Nat /\ approvals[k] <= approvals'[k]
      BY <2>4 DEF TypeOK
    <3>2. QED
      BY <2>4, <2>8, <3>1, RequestQuiet
  <2>10. \A k \in Counts \ {n} : CountHolds(k)'
    <3>1. \A k \in Counts \ {n}, d \in Clients : LoopsOn(req'[d], k) => LoopsOn(req[d], k)
      BY <2>3, <2>4 DEF TypeOK, LoopsOn
    <3>2. QED
      BY <2>4, <2>5, <3>1, CountQuiet DEF CountInv
  <2>11. CountHolds(n)'
    BY <2>1, <2>2, <2>4, <2>5, <2>6 DEF CountHolds
  <2>12. QED
    BY <2>9, <2>10, <2>11 DEF CountInv
<1>14. ASSUME NEW c \in Clients, CreateCount(c) PROVE CountInv'
  <2>1. PICK r : r = req[c]
    OBVIOUS
  <2>2. PICK n : n = r.count
    OBVIOUS
  <2> DEFINE row == [status |-> "open", warehouse |-> r.warehouse,
                     since |-> r.since, lines |-> r.lines]
  <2>3. /\ r \in [kind : {"create"}, count : Counts, warehouse : Warehouses,
                  since : Nat, lines : [Items -> Line \cup {NoLine}]]
        /\ RequestReconciles(r) /\ r.kind = "create"
    BY <1>14, <2>1, RequestKinds DEF CountInv, CreateCount
  <2>4. n \in Counts /\ count[n] = NoCount
    BY <1>14, <2>1, <2>2, <2>3 DEF CreatesApart
  <2>5. /\ approvals[n] = 0 /\ r.since <= Len(ledger)
        /\ \A i \in Lines(r) : Holds(n, r, i, r.lines[i].system)
    BY <2>2, <2>3, <2>4 DEF CountInv, CountHolds, RequestReconciles
  <2>6. /\ count' = [count EXCEPT ![n] = row] /\ req' = [req EXCEPT ![c] = Idle]
        /\ UNCHANGED <<ledger, balance, approvals, overtaken>>
    BY <1>14, <2>1, <2>2 DEF CreateCount
  <2>7. /\ row.status = "open" /\ row.since = r.since /\ row.warehouse = r.warehouse
        /\ row.lines = r.lines /\ Lines(row) = Lines(r) /\ row # NoCount
    BY DEF Lines, NoCount
  <2> HIDE DEF row
  <2>8. count'[n] = row /\ \A k \in Counts \ {n} : count'[k] = count[k]
    BY <2>4, <2>6 DEF TypeOK
  <2>9. \A i \in Lines(row) : Holds(n, row, i, row.lines[i].system)'
    BY <2>5, <2>6, <2>7 DEF Holds, Touched
  <2>10. CountHolds(n)'
    BY <2>5, <2>6, <2>7, <2>8, <2>9 DEF CountHolds
  <2>11. QED
    BY <2>4, <2>6, <2>8, <2>10, InvWritten
\* A count is written, its snapshot stays.
<1>15. ASSUME NEW c \in Clients, NEW n \in Counts, NEW seen, NEW row,
              count[n] # NoCount, row # NoCount,
              count' = [count EXCEPT ![n] = row], req' = [req EXCEPT ![c] = Idle],
              UNCHANGED <<ledger, balance, approvals>>, MarkOvertaken(n, seen),
              row.since = count[n].since, row.warehouse = count[n].warehouse,
              Lines(row) = Lines(count[n]),
              \A i \in Lines(row) : row.lines[i].system = count[n].lines[i].system,
              count[n] = seen /\ row.status \in {"variance_review", "approved"}
                  /\ ~ overtaken[n] => FullyCounted(row),
              count[n] = seen /\ row.status = "approved" /\ approvals[n] = 1
                  /\ ~ overtaken[n] =>
                  /\ \A i \in Lines(row) : Holds(n, row, i, row.lines[i].physical)
                  /\ \A d \in Clients \ {c} : ~ LoopsOn(req[d], n)
       PROVE  CountInv'
  <2>1. count'[n] = row /\ \A k \in Counts \ {n} : count'[k] = count[k]
    BY <1>15 DEF TypeOK
  <2>2. /\ overtaken'[n] <=> overtaken[n] \/ count[n] # seen
        /\ \A k \in Counts \ {n} : overtaken'[k] = overtaken[k]
    BY <1>15 DEF MarkOvertaken, TypeOK
  <2>3. CountHolds(n)
    BY DEF CountInv
  <2>4. ASSUME NEW i, NEW qty
        PROVE  /\ Holds(n, row, i, qty)' = Holds(n, row, i, qty)
               /\ Holds(n, row, i, qty) = Holds(n, count[n], i, qty)
    BY <1>15 DEF Holds, Touched
  <2>5. approvals[n] = 0 =>
          \A i \in Lines(row) : Holds(n, row, i, row.lines[i].system)'
    BY <1>15, <2>3, <2>4 DEF CountHolds
  <2>6. row.since <= Len(ledger)
    BY <1>15, <2>3 DEF CountHolds
  <2>7. \A d \in Clients : LoopsOn(req'[d], n) => d # c /\ LoopsOn(req[d], n)
    BY <1>2, <1>15 DEF TypeOK
  <2>8. CountHolds(n)'
    BY <1>15, <2>1, <2>2, <2>4, <2>5, <2>6, <2>7 DEF CountHolds
  <2>9. QED
    BY <1>15, <2>1, <2>2, <2>8, InvWritten
<1>16. ASSUME NEW c \in Clients, UpdateLine(c) PROVE CountInv'
  <2>1. PICK r : r = req[c]
    OBVIOUS
  <2>2. PICK n, i : n = r.count /\ i = r.item
    OBVIOUS
  <2> DEFINE row == [status |-> IF r.seen.status = "open" THEN "counting" ELSE r.seen.status,
                     warehouse |-> count[n].warehouse, since |-> count[n].since,
                     lines |-> [count[n].lines EXCEPT ![i] =
                         [system |-> count[n].lines[i].system, physical |-> r.physical]]]
  <2>3. /\ n \in Counts /\ i \in Lines(count[n]) /\ count[n] # NoCount
        /\ r.seen.status \in {"open", "counting"} /\ r.physical \in Counted
    BY <1>16, <2>1, <2>2, RequestKinds DEF UpdateLine, RefersTo, AllChecked, Checked
  <2>4. count[n] \in Count /\ count[n].lines \in [Items -> Line \cup {NoLine}]
    BY <2>3 DEF TypeOK, Count
  <2>5. /\ row.status = "counting" /\ row.since = count[n].since
        /\ row.warehouse = count[n].warehouse
    BY <2>3
  <2>6. Lines(row) = Lines(count[n]) /\ \A k \in Lines(row) :
            row.lines[k].system = count[n].lines[k].system
    <3>1. i \in Items /\ [system |-> count[n].lines[i].system, physical |-> r.physical] # NoLine
      BY <2>3 DEF Lines, NoLine
    <3>2. QED
      BY <2>3, <2>4, <3>1 DEF Lines
  <2>7. row # NoCount
    BY DEF NoCount
  <2>8. /\ count' = [count EXCEPT ![n] = row] /\ req' = [req EXCEPT ![c] = Idle]
        /\ UNCHANGED <<ledger, balance, approvals>> /\ MarkOvertaken(n, r.seen)
    BY <1>16, <2>1, <2>2 DEF UpdateLine
  <2> HIDE DEF row
  <2>9. QED
    BY <1>15, <2>3, <2>5, <2>6, <2>7, <2>8
<1>17. ASSUME NEW c \in Clients, NEW n \in Counts, NEW seen, NEW to,
              WriteCountStatus(n, seen, to), req' = [req EXCEPT ![c] = Idle],
              UNCHANGED <<ledger, balance, approvals>>, count[n] # NoCount,
              to \in {"variance_review", "approved"} /\ ~ overtaken[n] => FullyCounted(seen),
              count[n] = seen /\ to = "approved" /\ approvals[n] = 1 /\ ~ overtaken[n] =>
                  /\ \A i \in Lines(seen) : Holds(n, seen, i, seen.lines[i].physical)
                  /\ \A d \in Clients \ {c} : ~ LoopsOn(req[d], n)
       PROVE  CountInv'
  <2> DEFINE row == [status |-> to, warehouse |-> count[n].warehouse,
                     since |-> count[n].since, lines |-> count[n].lines]
  <2>1. /\ row.status = to /\ row.since = count[n].since
        /\ row.warehouse = count[n].warehouse /\ row.lines = count[n].lines
        /\ Lines(row) = Lines(count[n]) /\ row # NoCount
    BY DEF Lines, NoCount
  <2>2. count' = [count EXCEPT ![n] = row] /\ MarkOvertaken(n, seen)
    BY <1>17 DEF WriteCountStatus
  <2> HIDE DEF row
  <2>3. ASSUME NEW i, NEW qty PROVE Holds(n, row, i, qty) = Holds(n, count[n], i, qty)
    BY <2>1 DEF Holds, Touched
  <2>4. count[n] = seen /\ to \in {"variance_review", "approved"} /\ ~ overtaken[n] =>
          FullyCounted(row)
    BY <1>17, <2>1 DEF FullyCounted
  <2>5. count[n] = seen /\ to = "approved" /\ approvals[n] = 1 /\ ~ overtaken[n] =>
          \A i \in Lines(row) : Holds(n, row, i, row.lines[i].physical)
    BY <1>17, <2>1, <2>3
  <2>6. \A i \in Lines(row) : row.lines[i].system = count[n].lines[i].system
    BY <2>1
  <2>7. QED
    BY <1>15, <1>17, <2>1, <2>2, <2>4, <2>5, <2>6
<1>18. ASSUME NEW c \in Clients, WriteStatus(c) PROVE CountInv'
  <2>1. PICK r : r = req[c]
    OBVIOUS
  <2>2. /\ r.count \in Counts /\ count[r.count] # NoCount
        /\ r.to \in {"variance_review", "cancelled"}
        /\ r.to = "variance_review" => FullyCounted(r.seen)
    BY <1>18, <2>1, RequestKinds DEF WriteStatus, RefersTo, CountInv, RequestReconciles
  <2>3. /\ WriteCountStatus(r.count, r.seen, r.to) /\ req' = [req EXCEPT ![c] = Idle]
        /\ UNCHANGED <<ledger, balance, approvals>>
    BY <1>18, <2>1 DEF WriteStatus
  <2>4. QED
    BY <1>17, <2>2, <2>3
<1>19. ASSUME NEW c \in Clients, FinishApprove(c) PROVE CountInv'
  <2>1. PICK r : r = req[c]
    OBVIOUS
  <2>2. PICK n : n = r.job.id
    OBVIOUS
  <2>3. LoopsOn(req[c], n) /\ r.kind = "next" /\ r.todo = {}
    BY <1>19, <2>1, <2>2 DEF FinishApprove, LoopsOn, Posts
  <2>4. n \in Counts /\ count[n] # NoCount
    BY <2>1, <2>2, <2>3, LoopType, RequestKinds DEF RefersTo, LoopsOn
  <2>5. RequestReconciles(r)
    BY <2>1 DEF CountInv
  <2>6. ~ overtaken[n] =>
          /\ FullyCounted(r.seen)
          /\ approvals[n] = 1 =>
               \A i \in Lines(r.seen) : Holds(n, r.seen, i, Expected(r, i))
    BY <2>1, <2>2, <2>3, <2>5 DEF RequestReconciles, LoopsOn
  <2>7. \A i : Expected(r, i) = r.seen.lines[i].physical
    BY <2>3 DEF Expected, Remaining
  <2>8. approvals[n] = 1 => \A d \in Clients \ {c} : ~ LoopsOn(req[d], n)
    BY <2>3, OneLoop
  <2>9. /\ WriteCountStatus(n, r.seen, "approved") /\ req' = [req EXCEPT ![c] = Idle]
        /\ UNCHANGED <<ledger, balance, approvals>>
    BY <1>19, <2>1, <2>2 DEF FinishApprove
  <2>10. QED
    BY <1>17, <2>4, <2>6, <2>7, <2>8, <2>9
<1>20. CASE (\E x \in Masters : SetActive(x)) \/ UNCHANGED vars
  <2>1. UNCHANGED <<req, ledger, balance, count, overtaken, approvals>>
    BY <1>20 DEF SetActive, vars
  <2>2. \A n, row, i, qty : Holds(n, row, i, qty)' = Holds(n, row, i, qty)
    BY <2>1 DEF Holds, Touched
  <2>3. \A n \in Counts : CountHolds(n)'
    <3>1. \A n \in Counts : CountHolds(n)
      BY DEF CountInv
    <3>2. \A n \in Counts, d \in Clients : LoopsOn(req'[d], n) => LoopsOn(req[d], n)
      BY <2>1
    <3>3. QED
      BY <2>1, <3>1, <3>2, CountQuiet
  <2>4. \A d \in Clients : RequestReconciles(req[d])'
    <3>1. ASSUME NEW d \in Clients PROVE RequestReconciles(req[d])'
      <4>1. PICK r : r = req[d]
        OBVIOUS
      <4>2. RequestReconciles(r)
        BY <4>1 DEF CountInv
      <4>3. RequestReconciles(r)'
        BY <2>1, <2>2, <4>2 DEF RequestReconciles
      <4>4. QED
        BY <2>1, <4>1, <4>3
    <3>2. QED
      BY <3>1
  <2>5. QED
    BY <2>3, <2>4 DEF CountInv
<1>21. QED
  BY <1>1, <1>3, <1>5, <1>6, <1>8, <1>9, <1>10, <1>11, <1>12, <1>13, <1>14, <1>16,
     <1>18, <1>19, <1>20 DEF Next, Progress

\* CountReconciles: approving a count once, without being overtaken, makes the
\* balance of each of its lines what was counted, however the movements of the
\* loop interleave with other requests, unless one of those moved that stock.
THEOREM CountReconcilesSafe == Spec => []CountReconciles
<1>1. Init => AllChecked /\ LoopInv /\ CountInv /\ PostedOncePerRun
  <2> SUFFICES ASSUME Init PROVE AllChecked /\ LoopInv /\ CountInv /\ PostedOncePerRun
    OBVIOUS
  <2>1. AllChecked
    BY DEF Init, AllChecked, Checked, Idle, Posts
  <2>2. LoopInv /\ PostedOncePerRun
    BY DEF Init, LoopInv, LoopOK, RunsApart, LedgerOK, PostedOncePerRun, Posts, Idle
  <2>3. CountInv
    BY DEF Init, CountInv, CountHolds, RequestReconciles, Posts, Idle, NoCount
  <2>4. QED
    BY <2>1, <2>2, <2>3
<1>2. TypeOK /\ CountInv => CountReconciles
  <2> SUFFICES ASSUME TypeOK, CountInv, NEW n \in Counts,
                      count[n].status = "approved", approvals[n] = 1, ~ overtaken[n],
                      NEW i \in Lines(count[n])
               PROVE  Disturbed(n, i)
                        \/ balance[<<i, count[n].warehouse>>] = count[n].lines[i].physical
    BY DEF CountReconciles
  <2>1. count[n] # NoCount
    BY DEF NoCount
  <2>2. Holds(n, count[n], i, count[n].lines[i].physical)
    BY <2>1 DEF CountInv, CountHolds
  <2>3. QED
    BY <2>2 DEF Holds, Touched, Disturbed
<1>3. QED
  BY <1>1, <1>2, TypesAndCreates, CheckedStep, LoopStep, CountInvStep, PTL DEF Spec

=============================================================================
