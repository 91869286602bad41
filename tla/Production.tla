---- MODULE Production ----
(***************************************************************************)
(* The factory's side of a sales order: ProductionOrdersService,           *)
(* DailyProductionService with the nightly job that locks past entries,    *)
(* QcResultsService; and the sales order, which the handlers of their      *)
(* events move, and which users move by PATCH /orders/:id/status.  A       *)
(* status is read, checked and written by id; the produced quantity is     *)
(* read from the daily entries and stored in a second commit.              *)
(***************************************************************************)
EXTENDS Requests, Functions

CONSTANTS
  ProductionOrders,  \* rows of mfg.production_orders of one sales order
  DailyRows,         \* rows of mfg.daily_productions: date, operation and shift
  DailyOrder,        \* the production order of each
  Quantities         \* quantities planned and produced

ASSUME ProductionAssumption ==
  /\ DailyOrder \in [DailyRows -> ProductionOrders]
  /\ IsFiniteSet(DailyRows)
  /\ Quantities \subseteq Nat \ {0}

VARIABLES
  sales,         \* status of the sales order
  movedBy,       \* who wrote that status: the handler of an event, or a user
  production,    \* status, planned and produced quantity of each production order
  daily,         \* quantity of each daily entry, whether its date has passed, and its lock
  finalPass,     \* production orders with a final QC result that passed
  productionReq, \* the request of each client
  outOfStep      \* production orders written after an old read, or refreshed from an old sum

productionVars ==
  <<sales, movedBy, production, daily, finalPass, productionReq, outOfStep>>

NotMade == [status |-> "none", planned |-> 0, produced |-> 0]
NoEntry == [qty |-> 0, past |-> FALSE, locked |-> FALSE]

ProductionInit ==
  /\ sales = "confirmed"
  /\ movedBy = "user"
  /\ production = [p \in ProductionOrders |-> NotMade]
  /\ daily = [e \in DailyRows |-> NoEntry]
  /\ finalPass = {}
  /\ productionReq = [c \in Clients |-> Idle]
  /\ outOfStep = {}

PRODUCTION_STATUS_TRANSITIONS ==
  {<<"planned", "in_progress">>, <<"planned", "on_hold">>, <<"in_progress", "completed">>,
   <<"in_progress", "on_hold">>, <<"on_hold", "in_progress">>}

ProductionReq(op, p, to, qty) == [op |-> op, row |-> p, to |-> to, qty |-> qty, stale |-> FALSE]

\* Client c begins a request.
BeginProduction(c, req) ==
  /\ productionReq[c] = Idle
  /\ productionReq' = [productionReq EXCEPT ![c] = req]

\* create checks the order, the BOM, the line and the plan.
CheckProductionOrder(c) ==
  /\ sales \in {"confirmed", "in_production"}
  /\ \E p \in ProductionOrders, qty \in Quantities :
       production[p] = NotMade /\ BeginProduction(c, ProductionReq("create", p, "planned", qty))
  /\ UNCHANGED <<sales, movedBy, production, daily, finalPass, outOfStep>>

CreateProductionOrder(c) ==
  /\ productionReq[c].op = "create"
  /\ production[productionReq[c].row] = NotMade
  /\ production' = [production EXCEPT ![productionReq[c].row] =
       [status |-> "planned", planned |-> productionReq[c].qty, produced |-> 0]]
  /\ productionReq' = [productionReq EXCEPT ![c] = Idle]
  /\ UNCHANGED <<sales, movedBy, daily, finalPass, outOfStep>>

\* update, start, hold and, from QC, markCompleted read the production order.
ReadProductionOrder(c) ==
  /\ \E p \in ProductionOrders :
       \/ /\ production[p].status = "planned"
          /\ \E qty \in Quantities : BeginProduction(c, ProductionReq("plan", p, "planned", qty))
       \/ \E to \in {"in_progress", "on_hold"} :
            /\ <<production[p].status, to>> \in PRODUCTION_STATUS_TRANSITIONS
            /\ BeginProduction(c, ProductionReq("move", p, to, 0))
  /\ UNCHANGED <<sales, movedBy, production, daily, finalPass, outOfStep>>

\* Request c writes row p: others have read an old one.
WriteProduction(c, next, p, row) ==
  /\ production' = [production EXCEPT ![p] = row]
  /\ productionReq' = Overtake(productionReq, c, next,
       LAMBDA d : productionReq[d].row = p /\ productionReq[d].op \in {"plan", "move"})
  /\ outOfStep' = IF productionReq[c].stale THEN outOfStep \cup {p} ELSE outOfStep

ReplanProductionOrder(c) ==
  /\ productionReq[c].op = "plan"
  /\ LET r == productionReq[c]
     IN WriteProduction(c, Idle, r.row, [production[r.row] EXCEPT !.planned = r.qty])
  /\ UNCHANGED <<sales, movedBy, daily, finalPass>>

\* transitionStatus writes the status and announces a start, or a completion after QC.
MoveProductionOrder(c) ==
  /\ productionReq[c].op = "move"
  /\ LET r == productionReq[c]
         next == IF r.to = "on_hold" THEN Idle ELSE [r EXCEPT !.op = "announce", !.stale = FALSE]
     IN WriteProduction(c, next, r.row, [production[r.row] EXCEPT !.status = r.to])
  /\ UNCHANGED <<sales, movedBy, daily, finalPass>>

\* STATUS_TRANSITIONS of the sales order, which is not a draft any more.
STATUS_TRANSITIONS ==
  {<<"confirmed", "in_production">>, <<"confirmed", "cancelled">>, <<"in_production", "qc">>,
   <<"qc", "packed">>, <<"packed", "delivered">>}

\* transitionStatus of the sales order has read the status and found the move allowed.
RequestSales(c, req) ==
  /\ <<sales, req.to>> \in STATUS_TRANSITIONS
  /\ productionReq' = [productionReq EXCEPT ![c] = req]
  /\ UNCHANGED <<sales, movedBy, production, daily, finalPass, outOfStep>>

\* A user asks for any status; if the sample is not approved, production is refused.
PatchSales(c) ==
  /\ productionReq[c] = Idle
  /\ \E to \in {"in_production", "qc", "packed", "delivered", "cancelled"} :
       RequestSales(c, ProductionReq("patch", NoRow, to, 0))

\* The handler of production.started asks for in_production if it has read an order that is
\* confirmed and whose sample is approved.
HandleStarted(c) ==
  /\ productionReq[c].op = "announce"
  /\ productionReq[c].to = "in_progress"
  /\ RequestSales(c, [productionReq[c] EXCEPT !.op = "handle", !.to = "in_production"])

\* The handler of production.completed asks for qc.
HandleCompleted(c) ==
  /\ productionReq[c].op = "announce"
  /\ productionReq[c].to = "completed"
  /\ RequestSales(c, [productionReq[c] EXCEPT !.op = "handle", !.to = "qc"])

\* transitionStatus writes the status by id.
MoveSales(c) ==
  /\ productionReq[c].op \in {"patch", "handle"}
  /\ sales' = productionReq[c].to
  /\ movedBy' = IF productionReq[c].op = "patch" THEN "user" ELSE "handler"
  /\ productionReq' = [productionReq EXCEPT ![c] = Idle]
  /\ UNCHANGED <<production, daily, finalPass, outOfStep>>

\* Mutant: any final inspection completes the order.
CompletesAny(verdict) == TRUE

\* A final QC result that passed completes the production order.
Completes(verdict) == verdict = "pass"

\* QcResultsService.create stores the result, whatever the order's status.
StoreQcResult(c) ==
  /\ \E p \in ProductionOrders, verdict \in {"pass", "fail"} :
       /\ production[p] # NotMade
       /\ finalPass' = IF verdict = "pass" THEN finalPass \cup {p} ELSE finalPass
       /\ IF Completes(verdict)
          THEN BeginProduction(c, ProductionReq("complete", p, "completed", 0))
          ELSE productionReq[c] = Idle /\ UNCHANGED productionReq
  /\ UNCHANGED <<sales, movedBy, production, daily, outOfStep>>

\* markCompleted reads the order; one that is not in progress is refused, and keeps its
\* result.
ReadForCompletion(c) ==
  /\ productionReq[c].op = "complete"
  /\ <<production[productionReq[c].row].status, "completed">> \in PRODUCTION_STATUS_TRANSITIONS
  /\ productionReq' = [productionReq EXCEPT ![c].op = "move"]
  /\ UNCHANGED <<sales, movedBy, production, daily, finalPass, outOfStep>>

\* record needs an order in progress, and inserts an entry of today or of an earlier day;
\* the unique index refuses a second one.
CheckDaily(c) ==
  /\ \E e \in DailyRows, qty \in Quantities :
       /\ production[DailyOrder[e]].status = "in_progress"
       /\ daily[e] = NoEntry
       /\ BeginProduction(c, ProductionReq("record", e, "", qty))
  /\ UNCHANGED <<sales, movedBy, production, daily, finalPass, outOfStep>>

\* An entry changes: sums that have been read are old.
WriteDaily(c, next, e, entry) ==
  /\ daily' = [daily EXCEPT ![e] = entry]
  /\ productionReq' = Overtake(productionReq, c, next,
       LAMBDA d : productionReq[d].op = "refresh" /\ productionReq[d].row = DailyOrder[e])

RecordDaily(c) ==
  /\ productionReq[c].op = "record"
  /\ LET r == productionReq[c]
     IN /\ daily[r.row] = NoEntry
        /\ \E past \in BOOLEAN :
             WriteDaily(c, ProductionReq("sum", DailyOrder[r.row], "", 0), r.row,
                        [qty |-> r.qty, past |-> past, locked |-> FALSE])
  /\ UNCHANGED <<sales, movedBy, production, finalPass, outOfStep>>

\* update reads the entry and its lock.
ReadDaily(c) ==
  /\ \E e \in DailyRows, qty \in Quantities :
       /\ daily[e] # NoEntry
       /\ ~daily[e].locked
       /\ BeginProduction(c, ProductionReq("entry", e, "", qty))
  /\ UNCHANGED <<sales, movedBy, production, daily, finalPass, outOfStep>>

\* Mutant: the update has no condition on the lock.
UnlockedAnyway(e) == TRUE

\* WHERE id = .. AND locked = FALSE
Unlocked(e) == ~daily[e].locked

UpdateDaily(c) ==
  /\ productionReq[c].op = "entry"
  /\ LET r == productionReq[c]
     IN /\ Unlocked(r.row)
        /\ WriteDaily(c, ProductionReq("sum", DailyOrder[r.row], "", 0), r.row,
                      [daily[r.row] EXCEPT !.qty = r.qty])
  /\ UNCHANGED <<sales, movedBy, production, finalPass, outOfStep>>

\* What the daily entries of an order add up to.
DailyTotal(p) ==
  SumFunctionOnSet([e \in DailyRows |-> daily[e].qty], {e \in DailyRows : DailyOrder[e] = p})

\* refreshProducedQty reads the sum, and then stores it.
SumDaily(c) ==
  /\ productionReq[c].op = "sum"
  /\ productionReq' = [productionReq EXCEPT ![c] =
       ProductionReq("refresh", productionReq[c].row, "", DailyTotal(productionReq[c].row))]
  /\ UNCHANGED <<sales, movedBy, production, daily, finalPass, outOfStep>>

StoreProduced(c) ==
  /\ productionReq[c].op = "refresh"
  /\ LET r == productionReq[c]
     IN /\ production' = [production EXCEPT ![r.row].produced = r.qty]
        /\ outOfStep' = IF r.stale THEN outOfStep \cup {r.row} ELSE outOfStep
  /\ productionReq' = [productionReq EXCEPT ![c] = Idle]
  /\ UNCHANGED <<sales, movedBy, daily, finalPass>>

\* A day ends, and the nightly job locks the entries of earlier days.
DayEnds ==
  /\ daily' = [e \in DailyRows |-> IF daily[e] = NoEntry THEN NoEntry
                                   ELSE [daily[e] EXCEPT !.past = TRUE]]
  /\ UNCHANGED <<sales, movedBy, production, finalPass, productionReq, outOfStep>>

LockDailyProductions ==
  /\ daily' = [e \in DailyRows |-> IF daily[e].past THEN [daily[e] EXCEPT !.locked = TRUE]
                                   ELSE daily[e]]
  /\ UNCHANGED <<sales, movedBy, production, finalPass, productionReq, outOfStep>>

\* A request is refused, or the server dies between two of its commits.
DropProductionRequest(c) ==
  /\ productionReq[c] # Idle
  /\ outOfStep' = IF productionReq[c].op \in {"sum", "refresh"}
                  THEN outOfStep \cup {productionReq[c].row} ELSE outOfStep
  /\ productionReq' = [productionReq EXCEPT ![c] = Idle]
  /\ UNCHANGED <<sales, movedBy, production, daily, finalPass>>

ProductionNext ==
  \/ DayEnds
  \/ LockDailyProductions
  \/ \E c \in Clients :
       \/ CheckProductionOrder(c)
       \/ CreateProductionOrder(c)
       \/ ReadProductionOrder(c)
       \/ ReplanProductionOrder(c)
       \/ MoveProductionOrder(c)
       \/ PatchSales(c)
       \/ HandleStarted(c)
       \/ HandleCompleted(c)
       \/ MoveSales(c)
       \/ StoreQcResult(c)
       \/ ReadForCompletion(c)
       \/ CheckDaily(c)
       \/ RecordDaily(c)
       \/ ReadDaily(c)
       \/ UpdateDaily(c)
       \/ SumDaily(c)
       \/ StoreProduced(c)
       \/ DropProductionRequest(c)

ProductionSpec == ProductionInit /\ [][ProductionNext]_productionVars

ProductionTypeOK ==
  /\ sales \in {"confirmed", "in_production", "qc", "packed", "delivered", "cancelled"}
  /\ movedBy \in {"user", "handler"}
  /\ production \in [ProductionOrders ->
       [status : {"none", "planned", "in_progress", "on_hold", "completed"},
        planned : Quantities \cup {0}, produced : Nat]]
  /\ daily \in [DailyRows -> [qty : Quantities \cup {0}, past : BOOLEAN, locked : BOOLEAN]]
  /\ finalPass \subseteq ProductionOrders
  /\ \A c \in Clients : productionReq[c] # Idle =>
       productionReq[c].op \in {"create", "plan", "move", "announce", "patch", "handle",
                                "complete", "record", "entry", "sum", "refresh"}
  /\ outOfStep \subseteq ProductionOrders

\* The produced quantity of an order is what its daily entries add up to when nobody is
\* about to refresh it, unless a refresh was lost or stored an old sum
\* (refreshProducedQty).
ProducedIsDaily ==
  \A p \in ProductionOrders \ outOfStep :
    (\A c \in Clients : productionReq[c].op \in {"sum", "refresh"} => productionReq[c].row # p)
      => production[p].produced = DailyTotal(p)

\* A production order is completed only after a final inspection of it has passed, and
\* production brings the sales order to qc only after one of its production orders has
\* passed, whatever the event has overtaken or was overtaken by.  A user may move the sales
\* order to qc without any inspection (QcResultsService.create, the handler of
\* production.completed, OrdersService.transitionStatus).
QcFollowsFinalPass ==
  /\ sales = "qc" => finalPass # {} \/ movedBy = "user"
  /\ \A p \in ProductionOrders : production[p].status = "completed" => p \in finalPass

\* An entry that the nightly job has locked never changes again, an update that read it
\* before included (update, lockDailyProductions).
LockedEntriesStand ==
  [][\A e \in DailyRows : daily[e].locked => daily'[e] = daily[e]]_productionVars
====
