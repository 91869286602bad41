----------------------------- MODULE StockLedger -----------------------------
(***************************************************************************)
(* The stock ledger: StockTransactionsService.recordMovement, the trigger  *)
(* inv.update_stock_balance, StockCountsService and the handler of         *)
(* grn.approved.                                                           *)
(*                                                                         *)
(* A movement is checked against the balance in one await and posted in a  *)
(* transaction of its own in a later one.  Approving a stock count and     *)
(* handling grn.approved are loops over movements: nothing encloses the    *)
(* loop, so a failure or a crash leaves the movements already posted.      *)
(***************************************************************************)
EXTENDS Integers, Sequences, Functions

CONSTANTS
    Clients,       \* requests and event handlers running at the same time
    Items, Warehouses,
    Masters,       \* bound: items and warehouses whose is_active changes
    Quantities,    \* quantities a direct movement may have
    Counted,       \* physical quantities a counter may enter
    ReorderLevel,  \* ReorderLevel[i]: reorder_level of item i
    Counts,        \* stock counts
    Grns,          \* goods receipts
    GrnLines,      \* GrnLines[g]: the lines of the event of receipt g
    Uncounted,     \* physical_qty NULL
    None,          \* the source of a direct movement
    Triggers,      \* bodies of update_stock_balance that may be installed
    MaxRows,       \* bound: direct movements start while the ledger is shorter
    MaxApprovals,  \* bound: approvals of one count that pass the status check
    MaxEvents      \* bound: grn.approved events for one receipt

GrnLine == [line : Nat, item : Items, warehouse : Warehouses, qty : Nat]

ASSUME QuantityAssumption == Quantities \subseteq Nat \ {0} /\ Counted \subseteq Nat
ASSUME MasterAssumption == Masters \subseteq Items \cup Warehouses
ASSUME GrnAssumption ==
    /\ GrnLines \in [Grns -> SUBSET GrnLine]
    /\ \A g \in Grns : \A k, l \in GrnLines[g] : k.line = l.line => k = l
ASSUME UncountedAssumption == Uncounted \notin Int
ASSUME TriggerAssumption == Triggers \subseteq {"migration", "tests"}

VARIABLES
    trigger,    \* the body of update_stock_balance in this database
    active,     \* is_active of items and warehouses
    ledger,     \* inv.stock_transactions, in commit order
    balance,    \* inv.stock_balances.quantity, 0 where there is no row
    stocked,    \* the pairs that have a row in inv.stock_balances
    count,      \* inv.stock_counts with their lines
    req,        \* what each running request has read and has left to do
    approvals,  \* history: approvals of a count that passed its status check
    events,     \* history: grn.approved events of a receipt
    abandoned,  \* history: grn.approved handlers that ended before their last line
    alert,      \* history: what the last reorder check of an item came to
    overtaken   \* history: a request wrote over a count that had changed
                \* since the request read it

vars == <<trigger, active, ledger, balance, stocked, count, req, approvals,
          events, abandoned, alert, overtaken>>

Places == Items \X Warehouses

CountStatus == {"open", "counting", "variance_review", "approved", "cancelled"}

\* STOCK_COUNT_TRANSITIONS.
STOCK_COUNT_TRANSITIONS ==
    [open            |-> {"counting", "cancelled"},
     counting        |-> {"variance_review", "cancelled"},
     variance_review |-> {"approved", "cancelled"},
     approved        |-> {},
     cancelled       |-> {}]

NoCount == [status |-> "none"]

NoLine == [system |-> None]

Line == [system : Nat, physical : Counted \cup {Uncounted}]

\* The items a count has a line for.
Lines(row) == {i \in Items : row.lines[i] # NoLine}

Idle == [kind |-> "idle"]

Place(m) == <<m.item, m.warehouse>>

\* quantity * direction.
Signed(m) == IF m.direction = 1 THEN m.qty ELSE - m.qty

\* The movements an approved receipt posts: its lines with an accepted
\* quantity, inbound.
Receipt(g) ==
    {[line |-> l.line, item |-> l.item, warehouse |-> l.warehouse,
      qty |-> l.qty, direction |-> 1] : l \in {k \in GrnLines[g] : k.qty > 0}}

\* computeVariance(systemQty, physicalQty).
Variance(l) == l.physical - l.system

\* The movements that approving a count posts: one per line that was counted
\* and differs from the snapshot.
Adjustments(row) ==
    LET Differs(i) == /\ row.lines[i].physical # Uncounted
                      /\ Variance(row.lines[i]) # 0
    IN {[line |-> i, item |-> i, warehouse |-> row.warehouse,
         qty |-> IF Variance(row.lines[i]) > 0 THEN Variance(row.lines[i])
                                               ELSE - Variance(row.lines[i]),
         direction |-> IF Variance(row.lines[i]) > 0 THEN 1 ELSE -1] :
            i \in {j \in Lines(row) : Differs(j)}}

\* What is left of a job after the movements in todo: seen is the count it
\* adjusts, as it was read.
Posting(job, todo, seen) ==
    [kind |-> "next", job |-> job, todo |-> todo, seen |-> seen]

\* The request is in the loop that posts movements.
Posts(r) == r.kind \in {"next", "commit", "reorder"}

\* A write of a request to count n, which the request read as seen.
MarkOvertaken(n, seen) ==
    overtaken' = [overtaken EXCEPT ![n] = overtaken[n] \/ count[n] # seen]

\* The total balance of an item over all warehouses.
Total(i) == SumFunction([w \in Warehouses |-> balance[<<i, w>>]])

-----------------------------------------------------------------------------
Init ==
    /\ trigger \in Triggers
    /\ active = [x \in Items \cup Warehouses |-> TRUE]
    /\ ledger = <<>>
    /\ balance = [p \in Places |-> 0]
    /\ stocked = {}
    /\ count = [n \in Counts |-> NoCount]
    /\ req = [c \in Clients |-> Idle]
    /\ approvals = [n \in Counts |-> 0]
    /\ events = [g \in Grns |-> 0]
    /\ abandoned = {}
    /\ alert = [i \in Items |-> "quiet"]
    /\ overtaken = [n \in Counts |-> FALSE]

\* update and remove of an item or a warehouse.
SetActive(x) ==
    /\ active' = [active EXCEPT ![x] = ~ active[x]]
    /\ UNCHANGED <<trigger, ledger, balance, stocked, count, req, approvals,
                   events, abandoned, alert, overtaken>>

-----------------------------------------------------------------------------
\* recordMovement, called with one movement or from one of the two loops.

\* A request of the transactions controller.
StartMovement(c) ==
    /\ req[c] = Idle
    /\ Len(ledger) < MaxRows
    /\ \E i \in Items, w \in Warehouses, q \in Quantities, d \in {1, -1} :
        req' = [req EXCEPT ![c] =
            Posting([type |-> "move", id |-> None, run |-> 1],
                    {[line |-> None, item |-> i, warehouse |-> w, qty |-> q,
                      direction |-> d]},
                    NoCount)]
    /\ UNCHANGED <<trigger, active, ledger, balance, stocked, count, approvals,
                   events, abandoned, alert, overtaken>>

\* The checks before the transaction.
Passes(m) ==
    /\ active[m.item] /\ active[m.warehouse]
    /\ m.direction = -1 => balance[Place(m)] >= m.qty

CheckMovement(c) ==
    /\ req[c].kind = "next"
    /\ \E m \in req[c].todo :
        /\ Passes(m)
        /\ req' = [req EXCEPT ![c] =
               [kind |-> "commit", job |-> req[c].job, todo |-> req[c].todo,
                seen |-> req[c].seen, current |-> m]]
    /\ UNCHANGED <<trigger, active, ledger, balance, stocked, count, approvals,
                   events, abandoned, alert, overtaken>>

\* An exception of recordMovement, or a crash, ends the loop it was called in.
Abandon(c) ==
    /\ req' = [req EXCEPT ![c] = Idle]
    /\ abandoned' =
           IF Posts(req[c]) /\ req[c].job.type = "grn"
             THEN abandoned \cup {req[c].job} ELSE abandoned

RejectMovement(c) ==
    /\ req[c].kind = "next"
    /\ \E m \in req[c].todo : ~ Passes(m)
    /\ Abandon(c)
    /\ UNCHANGED <<trigger, active, ledger, balance, stocked, count, approvals,
                   events, alert, overtaken>>

\* Mutant: the balance has no CHECK.
TriggerAcceptsAll(m) == TRUE

\* chk_balance_non_negative.  The migration inserts the signed quantity and
\* PostgreSQL checks the row an INSERT proposes before it looks for a
\* conflict; the integration tests install a body that inserts zero first.
TriggerAccepts(m) ==
    /\ trigger = "migration" => Signed(m) >= 0
    /\ balance[Place(m)] + Signed(m) >= 0

Committing(c) == req[c].kind = "commit"

\* Mutant: on conflict the trigger overwrites the balance.
NewBalanceOverwritten(m) == Signed(m)

NewBalance(m) == balance[Place(m)] + Signed(m)

\* The transaction: the ledger row and, by the trigger, the balance.
PostMovement(c) ==
    /\ Committing(c) /\ TriggerAccepts(req[c].current)
    /\ LET m == req[c].current IN
        /\ ledger' = Append(ledger, [job |-> req[c].job, movement |-> m])
        /\ balance' = [balance EXCEPT ![Place(m)] = NewBalance(m)]
        /\ stocked' = stocked \cup {Place(m)}
    /\ req' = [req EXCEPT ![c] =
           [kind |-> "reorder", job |-> req[c].job, todo |-> req[c].todo,
            seen |-> req[c].seen, current |-> req[c].current]]
    /\ UNCHANGED <<trigger, active, count, approvals, events, abandoned, alert,
                   overtaken>>

\* The database refuses the row and the transaction rolls back.
RefuseMovement(c) ==
    /\ Committing(c) /\ ~ TriggerAccepts(req[c].current)
    /\ Abandon(c)
    /\ UNCHANGED <<trigger, active, ledger, balance, stocked, count, approvals,
                   events, alert, overtaken>>

\* Mutant: nothing is raised at the reorder level itself.
LowBelow(i) == Total(i) < ReorderLevel[i]

Low(i) == Total(i) <= ReorderLevel[i]

\* Mutant: the loop posts a movement again.
RestRepeats(todo, m) == todo

\* Mutant: the loop ends after its first movement.
RestStops(todo, m) == {}

\* What the loop has left after movement m.
Rest(todo, m) == todo \ {m}

\* checkReorderLevel, after the commit; then the loop goes on.
CheckReorderLevel(c) ==
    /\ req[c].kind = "reorder"
    /\ LET m == req[c].current IN
        /\ alert' = [alert EXCEPT ![m.item] = IF Low(m.item) THEN "raised" ELSE "quiet"]
        /\ req' = [req EXCEPT ![c] =
               Posting(req[c].job, Rest(req[c].todo, m), req[c].seen)]
    /\ UNCHANGED <<trigger, active, ledger, balance, stocked, count, approvals,
                   events, abandoned, overtaken>>

\* A single movement or a receipt has posted all it had to.
FinishPosting(c) ==
    /\ req[c].kind = "next" /\ req[c].todo = {} /\ req[c].job.type # "count"
    /\ req' = [req EXCEPT ![c] = Idle]
    /\ UNCHANGED <<trigger, active, ledger, balance, stocked, count, approvals,
                   events, abandoned, alert, overtaken>>

-----------------------------------------------------------------------------
\* GrnApprovedHandler.handle: grn.approved of receipt g is emitted.
GrnApproved(c, g) ==
    /\ req[c] = Idle
    /\ events[g] < MaxEvents
    /\ events' = [events EXCEPT ![g] = events[g] + 1]
    /\ req' = [req EXCEPT ![c] =
           Posting([type |-> "grn", id |-> g, run |-> events[g] + 1],
                   Receipt(g), NoCount)]
    /\ UNCHANGED <<trigger, active, ledger, balance, stocked, count, approvals,
                   abandoned, alert, overtaken>>

-----------------------------------------------------------------------------
\* StockCountsService.

\* create reads the balances outside the transaction that inserts the count.
ReadBalances(c, n, w) ==
    /\ req[c] = Idle
    /\ count[n] = NoCount
    /\ \A d \in Clients : req[d].kind = "create" => req[d].count # n
    /\ active[w]
    /\ req' = [req EXCEPT ![c] =
           [kind |-> "create", count |-> n, warehouse |-> w, since |-> Len(ledger),
            lines |-> [i \in Items |->
                IF active[i] /\ <<i, w>> \in stocked
                  THEN [system |-> balance[<<i, w>>], physical |-> Uncounted]
                  ELSE NoLine]]]
    /\ UNCHANGED <<trigger, active, ledger, balance, stocked, count, approvals,
                   events, abandoned, alert, overtaken>>

CreateCount(c) ==
    /\ req[c].kind = "create"
    /\ count' = [count EXCEPT ![req[c].count] =
           [status |-> "open", warehouse |-> req[c].warehouse,
            since |-> req[c].since, lines |-> req[c].lines]]
    /\ req' = [req EXCEPT ![c] = Idle]
    /\ UNCHANGED <<trigger, active, ledger, balance, stocked, approvals,
                   events, abandoned, alert, overtaken>>

\* updateLine: the status is checked, and later written back, as it was read.
ReadForLine(c, n, i) ==
    /\ req[c] = Idle
    /\ count[n].status \in {"open", "counting"}
    /\ i \in Lines(count[n])
    /\ \E q \in Counted :
        req' = [req EXCEPT ![c] =
            [kind |-> "line", count |-> n, seen |-> count[n], item |-> i,
             physical |-> q]]
    /\ UNCHANGED <<trigger, active, ledger, balance, stocked, count, approvals,
                   events, abandoned, alert, overtaken>>

UpdateLine(c) ==
    /\ req[c].kind = "line"
    /\ LET n == req[c].count
           i == req[c].item
       IN
        /\ count' = [count EXCEPT ![n] =
               [status |-> IF req[c].seen.status = "open"
                             THEN "counting" ELSE req[c].seen.status,
                warehouse |-> count[n].warehouse,
                since |-> count[n].since,
                lines |-> [count[n].lines EXCEPT ![i] =
                    [system |-> count[n].lines[i].system,
                     physical |-> req[c].physical]]]]
        /\ MarkOvertaken(n, req[c].seen)
    /\ req' = [req EXCEPT ![c] = Idle]
    /\ UNCHANGED <<trigger, active, ledger, balance, stocked, approvals,
                   events, abandoned, alert>>

CanTransition(row, to) == to \in STOCK_COUNT_TRANSITIONS[row.status]

\* submit, with every line counted, and cancel, up to their writes.
ReadForStatus(c, n, to) ==
    /\ req[c] = Idle
    /\ count[n] # NoCount
    /\ CanTransition(count[n], to)
    /\ to = "variance_review" =>
        \A i \in Lines(count[n]) : count[n].lines[i].physical # Uncounted
    /\ req' = [req EXCEPT ![c] =
           [kind |-> "status", count |-> n, seen |-> count[n], to |-> to]]
    /\ UNCHANGED <<trigger, active, ledger, balance, stocked, count, approvals,
                   events, abandoned, alert, overtaken>>

WriteCountStatus(n, seen, to) ==
    /\ count' = [count EXCEPT ![n] =
           [status |-> to, warehouse |-> count[n].warehouse,
            since |-> count[n].since, lines |-> count[n].lines]]
    /\ MarkOvertaken(n, seen)

WriteStatus(c) ==
    /\ req[c].kind = "status"
    /\ WriteCountStatus(req[c].count, req[c].seen, req[c].to)
    /\ req' = [req EXCEPT ![c] = Idle]
    /\ UNCHANGED <<trigger, active, ledger, balance, stocked, approvals,
                   events, abandoned, alert>>

\* Mutant: approve does not look at the status.
ReadForApproveAnyStatus(c, n) ==
    /\ req[c] = Idle
    /\ count[n] # NoCount
    /\ approvals[n] < MaxApprovals
    /\ approvals' = [approvals EXCEPT ![n] = approvals[n] + 1]
    /\ req' = [req EXCEPT ![c] =
           Posting([type |-> "count", id |-> n, run |-> approvals[n] + 1],
                   Adjustments(count[n]), count[n])]
    /\ UNCHANGED <<trigger, active, ledger, balance, stocked, count, events,
                   abandoned, alert, overtaken>>

\* approve reads the count and its lines, and loops over the variances.
ReadForApprove(c, n) ==
    /\ req[c] = Idle
    /\ count[n] # NoCount
    /\ CanTransition(count[n], "approved")
    /\ approvals[n] < MaxApprovals
    /\ approvals' = [approvals EXCEPT ![n] = approvals[n] + 1]
    /\ req' = [req EXCEPT ![c] =
           Posting([type |-> "count", id |-> n, run |-> approvals[n] + 1],
                   Adjustments(count[n]), count[n])]
    /\ UNCHANGED <<trigger, active, ledger, balance, stocked, count, events,
                   abandoned, alert, overtaken>>

\* Mutant: the status is written before the variances are posted.
FinishApproveEarly(c) ==
    /\ req[c].kind = "next" /\ req[c].job.type = "count"
    /\ WriteCountStatus(req[c].job.id, req[c].seen, "approved")
    /\ req' = [req EXCEPT ![c] = Idle]
    /\ UNCHANGED <<trigger, active, ledger, balance, stocked, approvals,
                   events, abandoned, alert>>

\* approve's last write, after the loop.
FinishApprove(c) ==
    /\ req[c].kind = "next" /\ req[c].todo = {} /\ req[c].job.type = "count"
    /\ WriteCountStatus(req[c].job.id, req[c].seen, "approved")
    /\ req' = [req EXCEPT ![c] = Idle]
    /\ UNCHANGED <<trigger, active, ledger, balance, stocked, approvals,
                   events, abandoned, alert>>

\* The process dies between two awaits.
Crash(c) ==
    /\ req[c] # Idle
    /\ Abandon(c)
    /\ alert' = IF req[c].kind = "reorder"
                  THEN [alert EXCEPT ![req[c].current.item] = "lost"] ELSE alert
    /\ UNCHANGED <<trigger, active, ledger, balance, stocked, count, approvals,
                   events, overtaken>>

\* The steps of a request that is running.
Progress(c) ==
    \/ CheckMovement(c) \/ RejectMovement(c)
    \/ PostMovement(c) \/ RefuseMovement(c)
    \/ CheckReorderLevel(c)
    \/ FinishPosting(c)
    \/ CreateCount(c) \/ UpdateLine(c) \/ WriteStatus(c) \/ FinishApprove(c)

Next ==
    \/ \E x \in Masters : SetActive(x)
    \/ \E c \in Clients :
        \/ Progress(c)
        \/ StartMovement(c)
        \/ \E g \in Grns : GrnApproved(c, g)
        \/ \E n \in Counts :
            \/ \E w \in Warehouses : ReadBalances(c, n, w)
            \/ \E i \in Items : ReadForLine(c, n, i)
            \/ \E to \in {"variance_review", "cancelled"} : ReadForStatus(c, n, to)
            \/ ReadForApprove(c, n)
        \/ Crash(c)

Spec == Init /\ [][Next]_vars

\* Node resumes every handler whose database call has returned.
FairSpec == Spec /\ \A c \in Clients : WF_vars(Progress(c))

-----------------------------------------------------------------------------
Movement ==
    [line : Items \cup Nat \cup {None}, item : Items, warehouse : Warehouses,
     qty : Nat \ {0}, direction : {1, -1}]

Job ==
    [type : {"move"}, id : {None}, run : {1}]
    \cup [type : {"grn"}, id : Grns, run : Nat]
    \cup [type : {"count"}, id : Counts, run : Nat]

Count ==
    [status : CountStatus, warehouse : Warehouses, since : Nat,
     lines : [Items -> Line \cup {NoLine}]]

Request ==
    {Idle}
    \cup [kind : {"next"}, job : Job, todo : SUBSET Movement,
          seen : Count \cup {NoCount}]
    \cup [kind : {"commit", "reorder"}, job : Job, todo : SUBSET Movement,
          seen : Count \cup {NoCount}, current : Movement]
    \cup [kind : {"create"}, count : Counts, warehouse : Warehouses, since : Nat,
          lines : [Items -> Line \cup {NoLine}]]
    \cup [kind : {"line"}, count : Counts, seen : Count, item : Items,
          physical : Counted]
    \cup [kind : {"status"}, count : Counts, seen : Count, to : CountStatus]

\* The count and the line a request works on are among rows.
RefersTo(r, rows) ==
    /\ r.kind \in {"line", "status"} => rows[r.count] # NoCount
    /\ r.kind = "line" => r.item \in Lines(rows[r.count])
    /\ Posts(r) /\ r.job.type = "count" =>
           r.seen # NoCount /\ rows[r.job.id] # NoCount

\* Rows and requests have the shape of the schema and the DTOs, a running
\* request refers to counts that exist, and a balance is never negative,
\* however many issues pass the check of one balance.
TypeOK ==
    /\ trigger \in Triggers
    /\ active \in [Items \cup Warehouses -> BOOLEAN]
    /\ ledger \in Seq([job : Job, movement : Movement])
    /\ balance \in [Places -> Nat]
    /\ stocked \subseteq Places
    /\ count \in [Counts -> Count \cup {NoCount}]
    /\ req \in [Clients -> Request]
    /\ approvals \in [Counts -> Nat]
    /\ events \in [Grns -> Nat]
    /\ abandoned \subseteq Job
    /\ alert \in [Items -> {"quiet", "raised", "lost"}]
    /\ overtaken \in [Counts -> BOOLEAN]
    /\ \A c \in Clients : RefersTo(req[c], count)

\* stock_balances is the running sum of the append-only ledger.
BalanceIsLedgerSum ==
    \A p \in Places :
        balance[p] =
            SumFunctionOnSet([k \in DOMAIN ledger |-> Signed(ledger[k].movement)],
                             {k \in DOMAIN ledger : Place(ledger[k].movement) = p})

\* What a row of the ledger books.
Booking(row) == [place |-> Place(row.movement), amount |-> Signed(row.movement)]

\* The ledger alone, without balances and without the requests that overlap, is a book
\* in which nothing is changed and no place is overdrawn (stock-transactions.service.ts,
\* the trigger update_stock_balance).
Account == INSTANCE StockAccount WITH
    Amounts <- Int \ {0},
    booked <- [k \in DOMAIN ledger |-> Booking(ledger[k])]

ImplementsAccount == Account!Spec

\* One event and one approval post each of their lines at most once: what is
\* posted twice was approved twice.
PostedOncePerRun ==
    \A j, k \in DOMAIN ledger :
        /\ ledger[j].job = ledger[k].job
        /\ ledger[j].movement.line = ledger[k].movement.line
        /\ ledger[j].job.type # "move"
        => j = k

\* A movement of item i in the warehouse of count n that is not the count's
\* own has been posted since its snapshot was taken.
Disturbed(n, i) ==
    \E k \in DOMAIN ledger :
        /\ k > count[n].since
        /\ Place(ledger[k].movement) = <<i, count[n].warehouse>>
        /\ ~ (ledger[k].job.type = "count" /\ ledger[k].job.id = n)

\* Approving a count, once and without being overtaken, makes the balance of
\* every line what was counted, if nothing else moved since the snapshot.
CountReconciles ==
    \A n \in Counts :
        count[n].status = "approved" /\ approvals[n] = 1 /\ ~ overtaken[n] =>
            \A i \in Lines(count[n]) :
                Disturbed(n, i) \/
                    balance[<<i, count[n].warehouse>>] = count[n].lines[i].physical

\* The status of a count moves along STOCK_COUNT_TRANSITIONS, except by a
\* request that overwrote what it had not seen.
CountFollowsStateMachine ==
    [][\A n \in Counts :
        count[n] # NoCount /\ count'[n].status # count[n].status =>
            overtaken'[n] \/ CanTransition(count[n], count'[n].status)]_vars

\* When the checks of all committed movements of an item are done, the last
\* one has seen them all: stock.below_reorder was raised exactly if the item
\* is at or below its reorder level (unless the process died before a check).
LowStockAnnounced ==
    \A i \in Items :
        \/ \A k \in DOMAIN ledger : ledger[k].movement.item # i
        \/ \E c \in Clients : req[c].kind = "reorder" /\ req[c].current.item = i
        \/ alert[i] = "lost"
        \/ alert[i] = IF Total(i) <= ReorderLevel[i] THEN "raised" ELSE "quiet"

\* Every accepted line of a receipt reaches the ledger after grn.approved,
\* unless the handler died or one of its movements failed.
GrnReachesLedger ==
    \A g \in Grns, run \in 1..MaxEvents :
        LET job == [type |-> "grn", id |-> g, run |-> run]
        IN  (events[g] >= run) ~>
                \/ job \in abandoned
                \/ \A m \in Receipt(g) : \E k \in DOMAIN ledger :
                       ledger[k] = [job |-> job, movement |-> m]

\* docs/Plan/Sprint_6_Inventory_Implementation_Plan.md: "Service pre-checks
\* outbound qty (422); DB chk_balance_non_negative is the backstop": the
\* database refuses no movement the balance covers.
BackstopOnly ==
    \A c \in Clients :
        Committing(c) =>
            LET m == req[c].current
            IN  balance[Place(m)] + Signed(m) >= 0 => TriggerAccepts(m)

=============================================================================
