---------------------------- MODULE Procurement ----------------------------
(***************************************************************************)
(* Purchase orders and goods receipts: PurchaseOrdersService and           *)
(* GoodsReceiptsService.                                                   *)
(*                                                                         *)
(* Adding or removing a line writes the line, reads the lines and writes   *)
(* their sum, each on its own.  Replacing the lines and approving a        *)
(* receipt are transactions, but READ COMMITTED ones: between their first  *)
(* and their last statement other requests commit.                         *)
(*                                                                         *)
(* Left out: vendors, dates, notes, the e-mail queue, photos.  An update   *)
(* of an order that brings no lines changes nothing that is modelled.      *)
(***************************************************************************)
EXTENDS Integers, Sequences, FiniteSets, Functions

CONSTANTS
    Clients,      \* requests running at the same time
    Orders,       \* purchase orders
    LineIds,      \* ids of purchase order lines, each used once
    Receipts,     \* goods receipts
    LineSpecs,    \* lines an order may be given: [qty, price]
    Entries,      \* quantities a receipt line may be created with
    Patches,      \* fields of a receipt line an edit may set
    MaxEntries,   \* bound: lines of one receipt
    Revisit,      \* bound: whether requests start on an order or a receipt
                  \* that a request has written over unseen
    Thresholds,   \* poThresholdLineMgr, poThresholdManager, poThresholdFinance
    Unused, Gone  \* a line that was never created, or was deleted

Fields == {"received", "accepted", "rejected"}

LineRow == [order : Orders, qty : Nat \ {0}, price : Nat, received : Nat]

\* Tables are finite, and no row of prc.po_lines is one that is not there.
ASSUME TableAssumption == IsFiniteSet(LineIds) /\ IsFiniteSet(Receipts)
ASSUME NoLineAssumption ==
    Unused # Gone /\ Unused \notin LineRow /\ Gone \notin LineRow
ASSUME LineAssumption == LineSpecs \subseteq [qty : Nat \ {0}, price : Nat]
ASSUME EntryAssumption ==
    /\ Entries \subseteq [Fields -> Nat]
    /\ \A d \in Patches : DOMAIN d \subseteq Fields
                          /\ \A f \in DOMAIN d : d[f] \in Nat
ASSUME BoundAssumption == MaxEntries \in Nat /\ Revisit \in BOOLEAN
ASSUME ThresholdAssumption ==
    Thresholds \in [lineMgr : Nat, manager : Nat, finance : Nat]

VARIABLES
    order,      \* prc.purchase_orders
    line,       \* prc.po_lines
    receipt,    \* prc.goods_receipts with their gr_lines
    req,        \* what each running request has read and has left to do
    announced,  \* history: the lines of each grn.approved event of a receipt
    unsummed,   \* history: orders with a line written by a request that ended
                \* before it wrote the total, and no total written since
    overtaken,  \* history: a request wrote over an order that had changed
                \* since the request looked at it
    outdated    \* the same for receipts

vars == <<order, line, receipt, req, announced, unsummed, overtaken, outdated>>

PO_STATUS_TRANSITIONS ==
    [draft              |-> {"pending_approval", "cancelled"},
     pending_approval   |-> {"approved", "cancelled"},
     approved           |-> {"partially_received", "received"},
     partially_received |-> {"received"},
     received           |-> {},
     cancelled          |-> {}]

GRN_STATUS_TRANSITIONS ==
    [draft      |-> {"qc_pending", "rejected"},
     qc_pending |-> {"approved", "rejected"},
     approved   |-> {},
     rejected   |-> {}]

OrderStatus == DOMAIN PO_STATUS_TRANSITIONS
ReceiptStatus == DOMAIN GRN_STATUS_TRANSITIONS

NoOrder == [status |-> "none"]
NoReceipt == [status |-> "none"]
Idle == [kind |-> "idle"]

\* resolveApproverRole(totalAmount, thresholds).
ApproverRole(total) ==
    IF total < Thresholds.lineMgr THEN "line_manager"
    ELSE IF total < Thresholds.manager THEN "manager"
    ELSE IF total < Thresholds.finance THEN "finance"
    ELSE "md"

Roles == {"line_manager", "manager", "finance", "md"}

Present == {l \in LineIds : line[l] \notin {Unused, Gone}}

LinesOf(p) == {l \in Present : line[l].order = p}

\* The lines of an order, as a query returns them.
OrderLines(p) == [l \in LinesOf(p) |-> line[l]]

\* calcTotalAmount(lines).
Amount(rows) == SumFunction([l \in DOMAIN rows |-> rows[l].qty * rows[l].price])

NewLine(p, s) == [order |-> p, qty |-> s.qty, price |-> s.price, received |-> 0]

\* assertQtyRules, and the constraint chk_gr_qty.
QtyRules(qty) == qty.accepted + qty.rejected <= qty.received

\* The quantities of a receipt line after an update that sets the fields of d.
Patched(qty, d) == [f \in Fields |-> IF f \in DOMAIN d THEN d[f] ELSE qty[f]]

\* A line of an order that some receipt line refers to cannot be deleted.
Referenced(l) ==
    \E g \in Receipts : /\ receipt[g] # NoReceipt
                        /\ \E k \in DOMAIN receipt[g].lines :
                               receipt[g].lines[k].poLine = l

-----------------------------------------------------------------------------
Init ==
    /\ order = [p \in Orders |-> NoOrder]
    /\ line = [l \in LineIds |-> Unused]
    /\ receipt = [g \in Receipts |-> NoReceipt]
    /\ req = [c \in Clients |-> Idle]
    /\ announced = [g \in Receipts |-> <<>>]
    /\ unsummed = {}
    /\ overtaken = [p \in Orders |-> FALSE]
    /\ outdated = [g \in Receipts |-> FALSE]

End(c) == req' = [req EXCEPT ![c] = Idle]

\* A request that looked at order p writes to it; stale says that what it
\* looked at has changed.
MarkOvertaken(p, stale) ==
    overtaken' = [overtaken EXCEPT ![p] = overtaken[p] \/ stale]

MarkOutdated(g, stale) ==
    outdated' = [outdated EXCEPT ![g] = outdated[g] \/ stale]

-----------------------------------------------------------------------------
\* Purchase orders.

\* Lines S are created for order p, as the bodies of a request describe them.
Created(p, S, body) ==
    [l \in LineIds |-> IF l \in S THEN NewLine(p, body[l]) ELSE line[l]]

CreateOrder(p) ==
    /\ order[p] = NoOrder
    /\ \E S \in SUBSET {l \in LineIds : line[l] = Unused} \ {{}} :
       \E body \in [S -> LineSpecs] :
        /\ line' = Created(p, S, body)
        /\ order' = [order EXCEPT ![p] =
               [status |-> "draft", total |-> Amount(body), role |-> "none"]]
    /\ UNCHANGED <<receipt, req, announced, unsummed, overtaken, outdated>>

OrderOps == {"submit", "approve", "reject", "cancel", "update", "addLine",
             "removeLine"}

\* Mutant: no operation checks the status.
AcceptsAny(op, p) == op = "submit" => LinesOf(p) # {}

\* The conditions under which an operation goes on after findOne.
Accepts(op, p) ==
    LET from == order[p].status
    IN CASE op = "submit" -> /\ "pending_approval" \in PO_STATUS_TRANSITIONS[from]
                             /\ LinesOf(p) # {}
         [] op = "approve" -> "approved" \in PO_STATUS_TRANSITIONS[from]
         [] op = "reject" -> from = "pending_approval"
         [] op = "cancel" -> "cancelled" \in PO_STATUS_TRANSITIONS[from]
         [] OTHER -> from = "draft"

\* What the operation has looked at: the status, and to submit an order its
\* total and whether it has lines.
Look(op, p) ==
    [status |-> order[p].status,
     total |-> IF op = "submit" THEN order[p].total ELSE 0,
     lined |-> op = "submit" => LinesOf(p) # {}]

ReadOrder(c) ==
    /\ req[c] = Idle
    /\ \E p \in Orders, op \in OrderOps :
        /\ Revisit \/ ~ overtaken[p]
        /\ order[p] # NoOrder /\ Accepts(op, p)
        /\ req' = [req EXCEPT ![c] =
               [kind |-> op, order |-> p, seen |-> Look(op, p)]]
    /\ UNCHANGED <<order, line, receipt, announced, unsummed, overtaken, outdated>>

\* The last write of an operation on the row of its order.
WriteOrder(c, row) ==
    /\ order' = [order EXCEPT ![req[c].order] = row]
    /\ MarkOvertaken(req[c].order, req[c].seen # Look(req[c].kind, req[c].order))
    /\ End(c)
    /\ UNCHANGED <<line, receipt, announced, unsummed, outdated>>

OwnOrder(c) == order[req[c].order]

\* The order of the request is not in the status the request saw.
Moved(c) == OwnOrder(c).status # req[c].seen.status

Submit(c) ==
    /\ req[c].kind = "submit"
    /\ WriteOrder(c, [status |-> "pending_approval", total |-> OwnOrder(c).total,
                      role |-> ApproverRole(req[c].seen.total)])

Approve(c) ==
    /\ req[c].kind = "approve"
    /\ WriteOrder(c, [OwnOrder(c) EXCEPT !.status = "approved"])

Reject(c) ==
    /\ req[c].kind = "reject"
    /\ WriteOrder(c, [OwnOrder(c) EXCEPT !.status = "draft", !.role = "none"])

Cancel(c) ==
    /\ req[c].kind = "cancel"
    /\ WriteOrder(c, [OwnOrder(c) EXCEPT !.status = "cancelled"])

-----------------------------------------------------------------------------
\* Edits of the lines of a draft order.

\* The line of addLine or removeLine is written; the total is not.
Summing(c) ==
    req' = [req EXCEPT ![c] =
        [kind |-> "sum", order |-> req[c].order, seen |-> req[c].seen]]

\* Mutant: addLine does not recompute the total.
InsertLineOnly(c) ==
    /\ req[c].kind = "addLine"
    /\ \E l \in LineIds, s \in LineSpecs :
        /\ line[l] = Unused
        /\ line' = [line EXCEPT ![l] = NewLine(req[c].order, s)]
    /\ End(c)
    /\ MarkOvertaken(req[c].order, Moved(c))
    /\ UNCHANGED <<order, receipt, announced, unsummed, outdated>>

InsertLine(c) ==
    /\ req[c].kind = "addLine"
    /\ \E l \in LineIds, s \in LineSpecs :
        /\ line[l] = Unused
        /\ line' = [line EXCEPT ![l] = NewLine(req[c].order, s)]
    /\ Summing(c)
    /\ MarkOvertaken(req[c].order, Moved(c))
    /\ UNCHANGED <<order, receipt, announced, unsummed, outdated>>

\* Mutant: a line may be deleted although a receipt refers to it.
DeleteAnyLine(c) ==
    /\ req[c].kind = "removeLine"
    /\ \E l \in Present :
        /\ line' = [line EXCEPT ![l] = Gone]
        /\ MarkOvertaken(req[c].order, Moved(c))
    /\ Summing(c)
    /\ UNCHANGED <<order, receipt, announced, unsummed, outdated>>

\* The delete names the line only: the line may be one of another order, which
\* the request has not looked at.
DeleteLine(c) ==
    /\ req[c].kind = "removeLine"
    /\ \E l \in Present :
        /\ ~ Referenced(l)
        /\ line' = [line EXCEPT ![l] = Gone]
        /\ IF line[l].order = req[c].order
             THEN MarkOvertaken(req[c].order, Moved(c))
             ELSE MarkOvertaken(line[l].order, TRUE)
    /\ Summing(c)
    /\ UNCHANGED <<order, receipt, announced, unsummed, outdated>>

\* recalcTotal: reads the lines of the order ...
ReadLines(c) ==
    /\ req[c].kind = "sum"
    /\ req' = [req EXCEPT ![c] =
           [kind |-> "total", order |-> req[c].order, seen |-> req[c].seen,
            from |-> OrderLines(req[c].order)]]
    /\ UNCHANGED <<order, line, receipt, announced, unsummed, overtaken, outdated>>

\* ... and writes their sum.
WriteTotal(c) ==
    /\ req[c].kind = "total"
    /\ order' = [order EXCEPT ![req[c].order].total = Amount(req[c].from)]
    /\ MarkOvertaken(req[c].order, \/ Moved(c)
                                   \/ OrderLines(req[c].order) # req[c].from)
    /\ unsummed' = unsummed \ {req[c].order}
    /\ End(c)
    /\ UNCHANGED <<line, receipt, announced, outdated>>

\* The transaction of update: the first statement deletes the lines there are ...
DeleteLines(c) ==
    /\ req[c].kind = "update"
    /\ req' = [req EXCEPT ![c] =
           [kind |-> "replace", order |-> req[c].order, seen |-> req[c].seen,
            doomed |-> LinesOf(req[c].order)]]
    /\ UNCHANGED <<order, line, receipt, announced, unsummed, overtaken, outdated>>

\* ... the others create new ones and write the total.  Lines that other
\* requests have created since then stay.
ReplaceLines(c) ==
    /\ req[c].kind = "replace"
    /\ \A l \in req[c].doomed : ~ Referenced(l)
    /\ \E S \in SUBSET {l \in LineIds : line[l] = Unused} \ {{}} :
       \E body \in [S -> LineSpecs] :
        /\ line' = [l \in LineIds |->
               IF l \in req[c].doomed THEN Gone
               ELSE Created(req[c].order, S, body)[l]]
        /\ order' = [order EXCEPT ![req[c].order].total = Amount(body)]
    /\ MarkOvertaken(req[c].order,
           Moved(c) \/ ~ LinesOf(req[c].order) \subseteq req[c].doomed)
    /\ unsummed' = unsummed \ {req[c].order}
    /\ End(c)
    /\ UNCHANGED <<receipt, announced, outdated>>

-----------------------------------------------------------------------------
\* Goods receipts.

ReadOrderToReceive(c) ==
    /\ req[c] = Idle
    /\ \E p \in Orders :
        /\ Revisit \/ ~ overtaken[p]
        /\ order[p].status \in {"approved", "partially_received"}
        /\ req' = [req EXCEPT ![c] =
               [kind |-> "receive", order |-> p, lines |-> LinesOf(p)]]
    /\ UNCHANGED <<order, line, receipt, announced, unsummed, overtaken, outdated>>

\* The status of the order is not looked at again; a foreign key makes sure
\* that the lines are still there.
CreateReceipt(c) ==
    /\ req[c].kind = "receive"
    /\ \E g \in Receipts, n \in 1 .. MaxEntries :
       \E lines \in [1 .. n -> [poLine : req[c].lines \cap Present, qty : Entries]] :
        /\ receipt[g] = NoReceipt
        /\ \A k \in 1 .. n : QtyRules(lines[k].qty)
        /\ receipt' = [receipt EXCEPT ![g] =
               [status |-> "draft", order |-> req[c].order, lines |-> lines]]
    /\ End(c)
    /\ UNCHANGED <<order, line, announced, unsummed, overtaken, outdated>>

ReceiptOps == {"edit", "submitForQc", "approveReceipt", "rejectReceipt"}

Target(op) == CASE op = "submitForQc" -> "qc_pending"
                [] op = "approveReceipt" -> "approved"
                [] op = "rejectReceipt" -> "rejected"

Editable(g) == receipt[g].status \in {"draft", "qc_pending"}

ReadReceipt(c) ==
    /\ req[c] = Idle
    /\ \E g \in Receipts, op \in ReceiptOps :
        /\ Revisit \/ ~ outdated[g]
        /\ receipt[g] # NoReceipt
        /\ IF op = "edit" THEN Editable(g)
                          ELSE Target(op) \in GRN_STATUS_TRANSITIONS[receipt[g].status]
        /\ req' = [req EXCEPT ![c] =
               [kind |-> op, receipt |-> g, seen |-> receipt[g]]]
    /\ UNCHANGED <<order, line, receipt, announced, unsummed, overtaken, outdated>>

\* updateLine: the rule is checked on the line as it was read with the fields
\* that were given, and by the database on the line as it becomes.
EditLine(c) ==
    /\ req[c].kind = "edit"
    /\ LET g == req[c].receipt IN
        /\ \E k \in DOMAIN receipt[g].lines, d \in Patches :
            /\ QtyRules(Patched(req[c].seen.lines[k].qty, d))
            /\ QtyRules(Patched(receipt[g].lines[k].qty, d))
            /\ receipt' = [receipt EXCEPT ![g].lines[k].qty =
                   Patched(receipt[g].lines[k].qty, d)]
        /\ MarkOutdated(g, ~ Editable(g))
    /\ End(c)
    /\ UNCHANGED <<order, line, announced, unsummed, overtaken>>

\* submitForQc and reject.
WriteReceipt(c, op) ==
    /\ req[c].kind = op
    /\ LET g == req[c].receipt IN
        /\ receipt' = [receipt EXCEPT ![g].status = Target(op)]
        /\ MarkOutdated(g, receipt[g].status # req[c].seen.status)
    /\ End(c)
    /\ UNCHANGED <<order, line, announced, unsummed, overtaken>>

SubmitForQc(c) == WriteReceipt(c, "submitForQc")
RejectReceipt(c) == WriteReceipt(c, "rejectReceipt")

\* What the receipt r accepts of line l.
Accepted(r, l) ==
    SumFunctionOnSet([k \in DOMAIN r.lines |-> r.lines[k].qty.accepted],
                     {k \in DOMAIN r.lines : r.lines[k].poLine = l})

\* Mutant: a receipt replaces what was received before.
IncrementedAnew(r) ==
    [l \in LinesOf(r.order) |-> [line[l] EXCEPT !.received = Accepted(r, l)]]

\* The lines of the order after the increments of approving receipt r.
Incremented(r) ==
    [l \in LinesOf(r.order) |->
        [line[l] EXCEPT !.received = line[l].received + Accepted(r, l)]]

\* The status of an order with these lines.
ReceivedStatus(rows) ==
    IF \A l \in DOMAIN rows : rows[l].received >= rows[l].qty THEN "received"
    ELSE IF \E l \in DOMAIN rows : rows[l].received > 0 THEN "partially_received"
    ELSE "approved"

PoLines(r) == {r.lines[k].poLine : k \in DOMAIN r.lines}

\* Another transaction has updated the row of the receipt or one of its order
\* lines, and holds the lock.  (Other waits for these rows order two writes and
\* change nothing else.)
Locked(c) ==
    \E d \in Clients :
        /\ req[d].kind = "book"
        /\ \/ req[d].receipt = req[c].receipt
           \/ PoLines(req[d].seen) \cap PoLines(req[c].seen) # {}

\* Mutant: the lines are read before they are incremented.
IncrementLate(c) ==
    /\ req[c].kind = "approveReceipt" /\ ~ Locked(c)
    /\ req' = [req EXCEPT ![c] =
           [kind |-> "book", receipt |-> req[c].receipt, seen |-> req[c].seen,
            from |-> OrderLines(req[c].seen.order),
            status |-> ReceivedStatus(OrderLines(req[c].seen.order))]]
    /\ UNCHANGED <<order, line, receipt, announced, unsummed, overtaken, outdated>>

\* Mutant: the event is emitted inside the transaction.
IncrementAnnouncing(c) ==
    /\ req[c].kind = "approveReceipt" /\ ~ Locked(c)
    /\ announced' = [announced EXCEPT ![req[c].receipt] =
           Append(announced[req[c].receipt], req[c].seen.lines)]
    /\ req' = [req EXCEPT ![c] =
           [kind |-> "book", receipt |-> req[c].receipt, seen |-> req[c].seen,
            from |-> OrderLines(req[c].seen.order),
            status |-> ReceivedStatus(Incremented(req[c].seen))]]
    /\ UNCHANGED <<order, line, receipt, unsummed, overtaken, outdated>>

\* The transaction of approve: increments the lines, reads them, derives the
\* status of the order ...
Increment(c) ==
    /\ req[c].kind = "approveReceipt" /\ ~ Locked(c)
    /\ req' = [req EXCEPT ![c] =
           [kind |-> "book", receipt |-> req[c].receipt, seen |-> req[c].seen,
            from |-> OrderLines(req[c].seen.order),
            status |-> ReceivedStatus(Incremented(req[c].seen))]]
    /\ UNCHANGED <<order, line, receipt, announced, unsummed, overtaken, outdated>>

\* ... and writes it when it gets the row of the order.
CommitReceipt(c) ==
    /\ req[c].kind = "book"
    /\ LET r == req[c].seen
           g == req[c].receipt
       IN /\ receipt' = [receipt EXCEPT ![g].status = "approved"]
          /\ line' = [l \in LineIds |->
                 IF l \in PoLines(r) THEN Incremented(r)[l] ELSE line[l]]
          /\ order' = [order EXCEPT ![r.order].status = req[c].status]
          /\ MarkOvertaken(r.order, OrderLines(r.order) # req[c].from)
          /\ MarkOutdated(g, receipt[g] # r)
          /\ req' = [req EXCEPT ![c] =
                 [kind |-> "announce", receipt |-> g, seen |-> r]]
    /\ UNCHANGED <<announced, unsummed>>

\* emit('grn.approved'), after the commit.
Announce(c) ==
    /\ req[c].kind = "announce"
    /\ announced' = [announced EXCEPT ![req[c].receipt] =
           Append(announced[req[c].receipt], req[c].seen.lines)]
    /\ End(c)
    /\ UNCHANGED <<order, line, receipt, unsummed, overtaken, outdated>>

-----------------------------------------------------------------------------
\* An exception (a line that is gone, a foreign key, the quantity rule) or a
\* crash ends a request; what it has not committed is lost.
Fail(c) ==
    /\ req[c] # Idle
    /\ unsummed' = IF req[c].kind \in {"sum", "total"}
                     THEN unsummed \cup {req[c].order} ELSE unsummed
    /\ End(c)
    /\ UNCHANGED <<order, line, receipt, announced, overtaken, outdated>>

Next ==
    \/ \E p \in Orders : CreateOrder(p)
    \/ \E c \in Clients :
        \/ ReadOrder(c) \/ Submit(c) \/ Approve(c) \/ Reject(c) \/ Cancel(c)
        \/ InsertLine(c) \/ DeleteLine(c) \/ ReadLines(c) \/ WriteTotal(c)
        \/ DeleteLines(c) \/ ReplaceLines(c)
        \/ ReadOrderToReceive(c) \/ CreateReceipt(c)
        \/ ReadReceipt(c) \/ EditLine(c) \/ SubmitForQc(c) \/ RejectReceipt(c)
        \/ Increment(c) \/ CommitReceipt(c) \/ Announce(c)
        \/ Fail(c)

Spec == Init /\ [][Next]_vars

-----------------------------------------------------------------------------
ReceiptLine == [poLine : LineIds, qty : [Fields -> Nat]]

OrderRow == [status : OrderStatus, total : Nat, role : Roles \cup {"none"}]

IsReceipt(r) ==
    /\ DOMAIN r = {"status", "order", "lines"}
    /\ r.status \in ReceiptStatus /\ r.order \in Orders
    /\ \A k \in DOMAIN r.lines : r.lines[k] \in ReceiptLine
                                /\ QtyRules(r.lines[k].qty)

\* The rows have their types; receipt lines keep the quantity rule; a receipt
\* refers to lines of its order that exist, a line to an order that exists.
TypeOK ==
    /\ order \in [Orders -> OrderRow \cup {NoOrder}]
    /\ line \in [LineIds -> LineRow \cup {Unused, Gone}]
    /\ \A l \in Present : order[line[l].order] # NoOrder
    /\ \A g \in Receipts :
           \/ receipt[g] = NoReceipt
           \/ /\ IsReceipt(receipt[g])
              /\ PoLines(receipt[g]) \subseteq LinesOf(receipt[g].order)
    /\ unsummed \subseteq Orders
    /\ overtaken \in [Orders -> BOOLEAN]
    /\ outdated \in [Receipts -> BOOLEAN]

\* A request has written a line of order p and not yet the total.
Editing(p) == \E c \in Clients : req[c].kind \in {"sum", "total"} /\ req[c].order = p

\* The total of an order is the sum over its lines whenever no edit of its lines
\* is running, unless an edit ended halfway or wrote over what it had not seen
\* (create, update, addLine, removeLine, recalcTotal).
TotalIsSum ==
    \A p \in Orders :
        order[p] # NoOrder /\ ~ Editing(p) /\ p \notin unsummed /\ ~ overtaken[p]
            => order[p].total = Amount(OrderLines(p))

\* An order that has been submitted carries the approver role of the amount it
\* is for, at every moment from submit to the last receipt, although line
\* edits that passed the check for a draft may still be running.
RoleMatchesTotal ==
    \A p \in Orders :
        order[p].status \in OrderStatus \ {"draft", "cancelled"} /\ ~ overtaken[p]
            => order[p].role = ApproverRole(order[p].total)

\* What has been received on a line is what the approved receipts accepted of
\* it: not an edit that came late, not a receipt approved twice.
ReceivedIsAccepted ==
    \A l \in Present :
        LET on == {g \in Receipts : receipt[g] # NoReceipt /\ l \in PoLines(receipt[g])}
            approved == {g \in on : receipt[g].status = "approved"}
        IN (\A g \in on : ~ outdated[g])
             => line[l].received
                  = SumFunction([g \in approved |-> Accepted(receipt[g], l)])

\* The status of an approved order follows from what was received on its lines
\* (the end of GoodsReceiptsService.approve), unless two receipts of it were
\* approved at once or the order was written to by a late request.
StatusFollowsReceipts ==
    \A p \in Orders :
        order[p].status \in {"approved", "partially_received", "received"}
          /\ ~ overtaken[p]
            => order[p].status = ReceivedStatus(OrderLines(p))

\* The stock ledger learns of a receipt at most once, only after it was
\* approved, and of the quantities it was approved with (grn.approved).
AnnouncedAsApproved ==
    \A g \in Receipts : ~ outdated[g] =>
        /\ Len(announced[g]) <= 1
        /\ Len(announced[g]) = 1 => /\ receipt[g].status = "approved"
                                    /\ announced[g][1] = receipt[g].lines

\* Orders move along PO_STATUS_TRANSITIONS, or back from pending_approval to
\* draft, although approving a receipt writes the status of the order without
\* looking at it; receipts move along GRN_STATUS_TRANSITIONS.
FollowStateMachines ==
    [][/\ \A p \in Orders : order[p] # NoOrder /\ ~ overtaken'[p] =>
            \/ order'[p].status = order[p].status
            \/ order'[p].status \in PO_STATUS_TRANSITIONS[order[p].status]
            \/ order[p].status = "pending_approval" /\ order'[p].status = "draft"
       /\ \A g \in Receipts : receipt[g] # NoReceipt /\ ~ outdated'[g] =>
            \/ receipt'[g].status = receipt[g].status
            \/ receipt'[g].status \in GRN_STATUS_TRANSITIONS[receipt[g].status]]_vars

\* What removeLine says when it refuses: "Can only remove lines from draft POs".
\* A line leaves an order only while the order is a draft.
OnlyDraftsLoseLines ==
    [][\A l \in Present : line'[l] = Gone => order[line[l].order].status = "draft"]_vars
=============================================================================
