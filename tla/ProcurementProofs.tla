-------------------------- MODULE ProcurementProofs --------------------------
(***************************************************************************)
(* Proofs about Procurement for any number of orders, lines, receipts and  *)
(* clients, and for any lines, quantities and approver thresholds.         *)
(*                                                                         *)
(* Typed is the inductive invariant. It is kept because the tables only    *)
(* grow (Grows): a line keeps its order until it is deleted, and is not    *)
(* deleted once a receipt names it; a receipt keeps its order and the      *)
(* lines it names. So what a request has read before an await is still     *)
(* true of what it writes (RequestStays). The properties follow with one   *)
(* more invariant each: SumOK, RoleOK, Follows, Logged and ReceivedOK.     *)
(***************************************************************************)
EXTENDS Procurement, Sums, SequenceTheorems, TLAPS

-----------------------------------------------------------------------------
\* Sums over the lines of orders and receipts.

\* Lines a request has read: rows of prc.po_lines.
IsRows(rows) == DOMAIN rows \subseteq LineIds /\ \A l \in DOMAIN rows : rows[l] \in LineRow

\* An amount is a natural number.
LEMMA AmountNat ==
    ASSUME NEW rows, DOMAIN rows \subseteq LineIds,
           \A l \in DOMAIN rows : rows[l].qty \in Nat /\ rows[l].price \in Nat
    PROVE  Amount(rows) \in Nat
<1> DEFINE w == [l \in DOMAIN rows |-> rows[l].qty * rows[l].price]
<1>1. IsFiniteSet(DOMAIN rows)
  BY TableAssumption, FS_Subset
<1>2. ASSUME NEW l \in DOMAIN rows PROVE w[l] \in Nat
  <2>1. PICK q \in Nat, x \in Nat : q = rows[l].qty /\ x = rows[l].price
    OBVIOUS
  <2>2. q * x \in Nat
    BY SMT
  <2>3. QED
    BY <2>1, <2>2
<1>3. DOMAIN w = DOMAIN rows
  OBVIOUS
<1> HIDE DEF w
<1>4. SumFunctionOnSet(w, DOMAIN rows) \in Nat
  BY <1>1, <1>2, SumNat
<1>5. QED
  BY <1>3, <1>4 DEF Amount, SumFunction, w

\* The amount depends on quantities and prices only.
LEMMA AmountSame ==
    ASSUME NEW rows, NEW lines, DOMAIN lines = DOMAIN rows,
           \A l \in DOMAIN rows : lines[l].qty = rows[l].qty /\ lines[l].price = rows[l].price
    PROVE  Amount(lines) = Amount(rows)
<1>1. [l \in DOMAIN lines |-> lines[l].qty * lines[l].price]
        = [l \in DOMAIN rows |-> rows[l].qty * rows[l].price]
  OBVIOUS
<1>2. QED
  BY <1>1 DEF Amount

\* A receipt has a line or more.
Numbered(r) == \E n \in Nat : DOMAIN r.lines = 1 .. n

\* What a receipt accepts of a line is a natural number, and nothing of a line
\* it does not have.
LEMMA AcceptedType ==
    ASSUME NEW r, IsReceipt(r), Numbered(r), NEW l
    PROVE  /\ Accepted(r, l) \in Nat
           /\ l \notin PoLines(r) => Accepted(r, l) = 0
<1> DEFINE w == [k \in DOMAIN r.lines |-> r.lines[k].qty.accepted]
           S == {k \in DOMAIN r.lines : r.lines[k].poLine = l}
<1>1. IsFiniteSet(DOMAIN r.lines)
  BY FS_Interval DEF Numbered
<1>2. IsFiniteSet(S)
  <2>1. S \subseteq DOMAIN r.lines
    OBVIOUS
  <2> HIDE DEF S
  <2>2. QED
    BY <1>1, <2>1, FS_Subset
<1>3. ASSUME NEW k \in S PROVE w[k] \in Nat
  <2>1. r.lines[k] \in ReceiptLine
    BY DEF IsReceipt
  <2>2. QED
    BY <2>1 DEF ReceiptLine, Fields
<1>4. l \notin PoLines(r) => S = {}
  BY DEF PoLines
<1> HIDE DEF w, S
<1>5. SumFunctionOnSet(w, S) \in Nat
  BY <1>2, <1>3, SumNat
<1>6. SumFunctionOnSet(w, {}) = 0
  BY <1>2, <1>3, SumType
<1>7. Accepted(r, l) = SumFunctionOnSet(w, S)
  BY DEF Accepted, w, S
<1>8. QED
  BY <1>4, <1>5, <1>6, <1>7

\* What a receipt accepts depends on its lines only.
LEMMA AcceptedSame ==
    ASSUME NEW r, NEW s, r.lines = s.lines, NEW l
    PROVE  Accepted(r, l) = Accepted(s, l)
BY DEF Accepted

-----------------------------------------------------------------------------
\* The inductive invariant: requests have seen what they checked.

EditKinds == {"update", "addLine", "removeLine", "sum", "total", "replace"}

WriteKinds == {"submit", "approve", "reject", "cancel"}

\* The statuses of an order from its approval on.
Placed == {"approved", "partially_received", "received"}

\* Requests on a receipt that have read it.
ReceiptKinds == ReceiptOps \cup {"book", "announce"}

\* Lines of order p that a request has read still belong to p, if they are there.
StillOf(p, S) == S \subseteq LineIds /\ \A l \in S : line[l] = Gone \/ l \in LinesOf(p)

\* The receipt a request has read refers to the lines the receipt refers to.
SameRefs(r, s) ==
    /\ r.order = s.order /\ DOMAIN r.lines = DOMAIN s.lines
    /\ \A k \in DOMAIN s.lines : r.lines[k].poLine = s.lines[k].poLine

\* Order lines after the increments of approving receipt r.
After(rows, r) ==
    [l \in DOMAIN rows |-> [rows[l] EXCEPT !.received = rows[l].received + Accepted(r, l)]]

OrderRequestOK(r) ==
    r.kind \in EditKinds \cup WriteKinds =>
        /\ r.order \in Orders /\ order[r.order] # NoOrder
        /\ r.kind \in EditKinds \cup {"submit"} => r.seen.status = "draft"
        /\ r.kind \in {"approve", "reject"} => r.seen.status = "pending_approval"
        /\ r.kind = "cancel" => r.seen.status \in {"draft", "pending_approval"}
        /\ r.kind = "submit" => r.seen.lined
        /\ r.kind = "total" => IsRows(r.from)
        /\ r.kind = "replace" => StillOf(r.order, r.doomed)

ReceiveRequestOK(r) ==
    r.kind = "receive" =>
        /\ r.order \in Orders /\ order[r.order] # NoOrder /\ StillOf(r.order, r.lines)
        /\ ~ overtaken[r.order] => order[r.order].status \in Placed

ReceiptRequestOK(r) ==
    r.kind \in ReceiptKinds =>
        /\ r.receipt \in Receipts /\ receipt[r.receipt] # NoReceipt
        /\ IsReceipt(r.seen) /\ SameRefs(r.seen, receipt[r.receipt])
        /\ r.kind = "submitForQc" => r.seen.status = "draft"
        /\ r.kind \in {"edit", "rejectReceipt"} => r.seen.status \in {"draft", "qc_pending"}
        /\ r.kind \in {"approveReceipt", "book", "announce"} => r.seen.status = "qc_pending"
        /\ r.kind = "book" => /\ IsRows(r.from)
                              /\ r.status = ReceivedStatus(After(r.from, r.seen))

RequestOK(r) == OrderRequestOK(r) /\ ReceiveRequestOK(r) /\ ReceiptRequestOK(r)

\* A receipt is one of an order that was placed.
ReceiptOK(g) ==
    receipt[g] # NoReceipt =>
        /\ Numbered(receipt[g]) /\ order[receipt[g].order] # NoOrder
        /\ ~ overtaken[receipt[g].order] => order[receipt[g].order].status \in Placed

Tables == DOMAIN receipt = Receipts /\ DOMAIN req = Clients /\ DOMAIN announced = Receipts

Typed ==
    /\ TypeOK /\ Tables
    /\ \A c \in Clients : RequestOK(req[c])
    /\ \A g \in Receipts : ReceiptOK(g)

\* An order row with another status, and one with another total.
LEMMA RowStatus ==
    ASSUME NEW row \in OrderRow, NEW s \in OrderStatus
    PROVE  /\ [row EXCEPT !.status = s] \in OrderRow
           /\ [row EXCEPT !.status = s].status = s
           /\ [row EXCEPT !.status = s].total = row.total
           /\ [row EXCEPT !.status = s].role = row.role
           /\ [row EXCEPT !.status = s, !.role = "none"] \in OrderRow
           /\ [row EXCEPT !.status = s, !.role = "none"].status = s
           /\ [row EXCEPT !.status = s, !.role = "none"].total = row.total
BY DEF OrderRow

\* Writing the total of an order leaves its status and its role.
LEMMA RowTotal ==
    ASSUME NEW row \in OrderRow, NEW t \in Nat
    PROVE  /\ [row EXCEPT !.total = t] \in OrderRow
           /\ [row EXCEPT !.total = t].total = t
           /\ [row EXCEPT !.total = t].status = row.status
           /\ [row EXCEPT !.total = t].role = row.role
BY DEF OrderRow

\* An order row, and a receipt.
LEMMA OrderType ==
    ASSUME Typed, NEW p \in Orders, order[p] # NoOrder PROVE order[p] \in OrderRow
BY DEF Typed, TypeOK

\* A receipt is for lines of its order, which exists.
LEMMA ReceiptType ==
    ASSUME Typed, NEW g \in Receipts, receipt[g] # NoReceipt
    PROVE  /\ IsReceipt(receipt[g]) /\ PoLines(receipt[g]) \subseteq LinesOf(receipt[g].order)
           /\ Numbered(receipt[g]) /\ receipt[g].order \in Orders
           /\ order[receipt[g].order] # NoOrder
BY DEF Typed, TypeOK, ReceiptOK, IsReceipt

\* A line is a row of an order that exists.
LEMMA LineType ==
    ASSUME Typed, NEW l \in Present
    PROVE  /\ l \in LineIds /\ line[l] \in LineRow /\ line[l].order \in Orders
           /\ order[line[l].order] # NoOrder
BY DEF Typed, TypeOK, Present, LineRow

\* A request on an order is on one that exists, a request on a receipt knows
\* the lines of the receipt.
LEMMA OrderRequest ==
    ASSUME Typed, NEW c \in Clients, req[c].kind \in EditKinds \cup WriteKinds
    PROVE  req[c].order \in Orders /\ order[req[c].order] \in OrderRow /\ OrderRequestOK(req[c])
BY OrderType DEF Typed, RequestOK, OrderRequestOK

\* A request on a receipt has read the order and the lines of that receipt.
LEMMA ReceiptRequest ==
    ASSUME Typed, NEW c \in Clients, req[c].kind \in ReceiptKinds
    PROVE  /\ req[c].receipt \in Receipts /\ receipt[req[c].receipt] # NoReceipt
           /\ ReceiptRequestOK(req[c])
           /\ IsReceipt(req[c].seen) /\ Numbered(req[c].seen)
           /\ req[c].seen.order = receipt[req[c].receipt].order
           /\ req[c].seen.order \in Orders /\ order[req[c].seen.order] \in OrderRow
           /\ PoLines(req[c].seen) = PoLines(receipt[req[c].receipt])
           /\ PoLines(req[c].seen) \subseteq LinesOf(req[c].seen.order)
<1>1. PICK r, g : r = req[c] /\ g = req[c].receipt
  OBVIOUS
<1>2. /\ g \in Receipts /\ receipt[g] # NoReceipt /\ ReceiptRequestOK(r)
      /\ IsReceipt(r.seen) /\ SameRefs(r.seen, receipt[g])
  BY <1>1 DEF Typed, RequestOK, ReceiptRequestOK
<1>3. /\ PoLines(receipt[g]) \subseteq LinesOf(receipt[g].order)
      /\ Numbered(receipt[g]) /\ receipt[g].order \in Orders
      /\ order[receipt[g].order] \in OrderRow
  BY <1>2, ReceiptType, OrderType
<1>4. PoLines(r.seen) = PoLines(receipt[g]) /\ Numbered(r.seen)
  BY <1>2, <1>3 DEF SameRefs, PoLines, Numbered
<1>5. r.seen.order = receipt[g].order
  BY <1>2 DEF SameRefs
<1>6. QED
  BY <1>1, <1>2, <1>3, <1>4, <1>5

-----------------------------------------------------------------------------
\* What the actions that write do.

\* submit, approve, reject and cancel write one order, and unless it was
\* overtaken they find it in the status they have checked.
LEMMA WriteEffect ==
    ASSUME Typed, NEW c \in Clients, Submit(c) \/ Approve(c) \/ Reject(c) \/ Cancel(c),
           NEW p, p = req[c].order
    PROVE  /\ p \in Orders /\ order[p] \in OrderRow
           /\ order' = [order EXCEPT ![p] = order'[p]]
           /\ order'[p] \in OrderRow /\ order'[p].total = order[p].total
           /\ overtaken' = [overtaken EXCEPT ![p] = overtaken'[p]] /\ overtaken'[p] \in BOOLEAN
           /\ overtaken[p] => overtaken'[p]
           /\ req' = [req EXCEPT ![c] = Idle]
           /\ UNCHANGED <<line, receipt, announced, unsummed, outdated>>
           /\ ~ overtaken'[p] =>
                \/ /\ order[p].status = "draft" /\ order'[p].status = "pending_approval"
                   /\ order'[p].role = ApproverRole(order[p].total) /\ LinesOf(p) # {}
                \/ /\ order[p].status = "pending_approval"
                   /\ order'[p].status \in {"approved", "draft", "cancelled"}
                   /\ order'[p].status = "approved" => order'[p].role = order[p].role
                \/ order[p].status = "draft" /\ order'[p].status = "cancelled"
<1>1. PICK r : r = req[c]
  OBVIOUS
<1>2. /\ r.kind \in WriteKinds /\ p = r.order /\ OrderRequestOK(r)
      /\ p \in Orders /\ order[p] \in OrderRow
  BY <1>1, OrderRequest DEF Submit, Approve, Reject, Cancel, WriteKinds
<1>3. PICK row :
        /\ WriteOrder(c, row)
        /\ \/ /\ r.kind = "submit"
              /\ row = [status |-> "pending_approval", total |-> order[p].total,
                        role |-> ApproverRole(r.seen.total)]
           \/ r.kind = "approve" /\ row = [order[p] EXCEPT !.status = "approved"]
           \/ r.kind = "reject" /\ row = [order[p] EXCEPT !.status = "draft", !.role = "none"]
           \/ r.kind = "cancel" /\ row = [order[p] EXCEPT !.status = "cancelled"]
  BY <1>1, <1>2 DEF Submit, Approve, Reject, Cancel, OwnOrder
<1>4. row \in OrderRow /\ row.total = order[p].total
  <2>1. ApproverRole(r.seen.total) \in Roles
    BY DEF ApproverRole, Roles
  <2>2. {"pending_approval", "approved", "draft", "cancelled"} \subseteq OrderStatus
    BY DEF OrderStatus, PO_STATUS_TRANSITIONS
  <2>3. QED
    <3>1. CASE r.kind = "submit"
      BY <1>2, <1>3, <2>1, <2>2, <3>1 DEF OrderRow
    <3>2. ASSUME NEW s \in OrderStatus,
                 \/ row = [order[p] EXCEPT !.status = s]
                 \/ row = [order[p] EXCEPT !.status = s, !.role = "none"]
          PROVE  row \in OrderRow /\ row.total = order[p].total
      <4>1. CASE row = [order[p] EXCEPT !.status = s]
        BY <1>2, <4>1, RowStatus
      <4>2. CASE row = [order[p] EXCEPT !.status = s, !.role = "none"]
        BY <1>2, <4>2, RowStatus
      <4>3. QED
        BY <3>2, <4>1, <4>2
    <3>3. QED
      BY <1>3, <2>2, <3>1, <3>2
<1>5. /\ order' = [order EXCEPT ![p] = row] /\ req' = [req EXCEPT ![c] = Idle]
      /\ UNCHANGED <<line, receipt, announced, unsummed, outdated>>
      /\ overtaken' = [overtaken EXCEPT ![p] = overtaken[p] \/ r.seen # Look(r.kind, p)]
  BY <1>1, <1>2, <1>3 DEF WriteOrder, End, MarkOvertaken
<1>6. order'[p] = row
  BY <1>2, <1>5 DEF Typed, TypeOK
<1>7. overtaken'[p] <=> overtaken[p] \/ r.seen # Look(r.kind, p)
  BY <1>2, <1>5 DEF Typed, TypeOK
<1>8. overtaken'[p] \in BOOLEAN
  BY <1>2, <1>5 DEF Typed, TypeOK
<1>9. ASSUME ~ overtaken'[p]
      PROVE  /\ order[p].status = r.seen.status
             /\ r.kind = "submit" => order[p].total = r.seen.total /\ LinesOf(p) # {}
  <2>1. r.seen = Look(r.kind, p)
    BY <1>7, <1>9
  <2>2. r.kind = "submit" => r.seen.lined
    BY <1>2 DEF OrderRequestOK
  <2>3. order[p].status = r.seen.status
    BY <2>1 DEF Look
  <2>4. ASSUME r.kind = "submit" PROVE order[p].total = r.seen.total /\ LinesOf(p) # {}
    <3>1. /\ r.seen.total = IF r.kind = "submit" THEN order[p].total ELSE 0
          /\ r.seen.lined = (r.kind = "submit" => LinesOf(p) # {})
      BY <2>1 DEF Look
    <3>2. QED
      BY <2>2, <2>4, <3>1
  <2>5. QED
    BY <2>3, <2>4
<1>10. ASSUME ~ overtaken'[p]
       PROVE  \/ /\ order[p].status = "draft" /\ row.status = "pending_approval"
                 /\ row.role = ApproverRole(order[p].total) /\ LinesOf(p) # {}
              \/ /\ order[p].status = "pending_approval"
                 /\ row.status \in {"approved", "draft", "cancelled"}
                 /\ row.status = "approved" => row.role = order[p].role
              \/ order[p].status = "draft" /\ row.status = "cancelled"
  <2>1. /\ r.kind = "submit" => r.seen.status = "draft"
        /\ r.kind \in {"approve", "reject"} => r.seen.status = "pending_approval"
        /\ r.kind = "cancel" => r.seen.status \in {"draft", "pending_approval"}
    BY <1>2 DEF OrderRequestOK
  <2>2. /\ r.kind = "approve" => row.status = "approved" /\ row.role = order[p].role
        /\ r.kind = "reject" => row.status = "draft"
        /\ r.kind = "cancel" => row.status = "cancelled"
        /\ r.kind = "submit" => row.status = "pending_approval"
                                /\ row.role = ApproverRole(r.seen.total)
    <3>1. {"approved", "draft", "cancelled"} \subseteq OrderStatus
      BY DEF OrderStatus, PO_STATUS_TRANSITIONS
    <3>2. CASE r.kind = "approve"
      <4>1. row = [order[p] EXCEPT !.status = "approved"]
        BY <1>3, <3>2
      <4>2. QED
        BY <1>2, <3>1, <3>2, <4>1, RowStatus
    <3>3. CASE r.kind = "reject"
      <4>1. row = [order[p] EXCEPT !.status = "draft", !.role = "none"]
        BY <1>3, <3>3
      <4>2. QED
        BY <1>2, <3>1, <3>3, <4>1, RowStatus
    <3>4. CASE r.kind = "cancel"
      <4>1. row = [order[p] EXCEPT !.status = "cancelled"]
        BY <1>3, <3>4
      <4>2. QED
        BY <1>2, <3>1, <3>4, <4>1, RowStatus
    <3>5. CASE r.kind = "submit"
      BY <1>3, <3>5
    <3>6. QED
      BY <1>2, <3>2, <3>3, <3>4, <3>5 DEF WriteKinds
  <2>3. QED
    BY <1>2, <1>9, <1>10, <2>1, <2>2 DEF WriteKinds
<1>11. order' = [order EXCEPT ![p] = order'[p]] /\ overtaken' = [overtaken EXCEPT ![p] = overtaken'[p]]
  BY <1>5, <1>6, <1>7, <1>8 DEF Typed, TypeOK
<1>12. QED
  BY <1>2, <1>4, <1>5, <1>6, <1>7, <1>8, <1>10, <1>11

\* The lines D go, the lines S are created for order q.
Rewritten(D, S, q, body) ==
    [l \in LineIds |->
        IF l \in D THEN Gone ELSE IF l \in S THEN NewLine(q, body[l]) ELSE line[l]]

\* What an edit of the lines does: the lines that stay are as they were.
LEMMA EditedLines ==
    ASSUME Typed, NEW D \in SUBSET LineIds, NEW S \in SUBSET LineIds, NEW q \in Orders,
           NEW body \in [S -> LineSpecs], \A l \in S : line[l] = Unused,
           \A l \in D : line[l] # Unused, line' = Rewritten(D, S, q, body)
    PROVE  /\ line' \in [LineIds -> LineRow \cup {Unused, Gone}]
           /\ Present' = (Present \ D) \cup S
           /\ \A l \in Present \ D : line'[l] = line[l]
           /\ \A l \in S : line'[l] = NewLine(q, body[l])
           /\ \A l \in D : line'[l] = Gone
           /\ \A l \in LineIds : line[l] = Gone => line'[l] = Gone
<1>1. ASSUME NEW l \in S PROVE NewLine(q, body[l]) \in LineRow
  <2>1. body[l] \in [qty : Nat \ {0}, price : Nat]
    BY LineAssumption
  <2>2. QED
    BY <2>1 DEF NewLine, LineRow
<1>2. line \in [LineIds -> LineRow \cup {Unused, Gone}]
  BY DEF Typed, TypeOK
<1>3. ASSUME NEW l \in LineIds
      PROVE  line'[l] = IF l \in D THEN Gone
                        ELSE IF l \in S THEN NewLine(q, body[l]) ELSE line[l]
  BY DEF Rewritten
<1>4. S \cap D = {}
  OBVIOUS
<1>5. \A l \in D : line'[l] = Gone
  BY <1>3
<1>6. \A l \in S : line'[l] = NewLine(q, body[l])
  BY <1>3, <1>4
<1>7. \A l \in LineIds \ (S \cup D) : line'[l] = line[l]
  BY <1>3
<1>8. line' \in [LineIds -> LineRow \cup {Unused, Gone}]
  <2>1. line' = [l \in LineIds |-> line'[l]]
    BY DEF Rewritten
  <2>2. ASSUME NEW l \in LineIds PROVE line'[l] \in LineRow \cup {Unused, Gone}
    BY <1>1, <1>2, <1>5, <1>6, <1>7
  <2>3. QED
    BY <2>1, <2>2
<1>9. Present' = (Present \ D) \cup S
  <2>1. ASSUME NEW l \in LineIds PROVE l \in Present' <=> l \in (Present \ D) \cup S
    <3>1. l \in Present' <=> line'[l] \notin {Unused, Gone}
      BY DEF Present
    <3>2. l \in Present <=> line[l] \notin {Unused, Gone}
      BY DEF Present
    <3>3. CASE l \in D
      BY <1>4, <1>5, <3>1, <3>3
    <3>4. CASE l \in S
      BY <1>1, <1>6, <3>1, <3>4, NoLineAssumption
    <3>5. CASE l \notin D \cup S
      BY <1>7, <3>1, <3>2, <3>5
    <3>6. QED
      BY <3>3, <3>4, <3>5
  <2>2. Present' \subseteq LineIds /\ Present \subseteq LineIds
    BY DEF Present
  <2>3. QED
    BY <2>1, <2>2
<1>10. \A l \in Present \ D : line'[l] = line[l]
  <2>1. \A l \in Present : l \notin S /\ l \in LineIds
    BY DEF Present
  <2>2. QED
    BY <1>7, <2>1
<1>11. \A l \in LineIds : line[l] = Gone => line'[l] = Gone
  BY <1>5, <1>7, NoLineAssumption
<1>12. QED
  BY <1>5, <1>6, <1>8, <1>9, <1>10, <1>11

\* The lines of an order after the lines D went and the lines S came.
LEMMA EditedLinesOf ==
    ASSUME Typed, NEW D \in SUBSET LineIds, NEW S \in SUBSET LineIds, NEW q \in Orders,
           NEW body \in [S -> LineSpecs], \A l \in S : line[l] = Unused,
           \A l \in D : line[l] # Unused, line' = Rewritten(D, S, q, body),
           NEW p \in Orders
    PROVE  LinesOf(p)' = (LinesOf(p) \ D) \cup (IF p = q THEN S ELSE {})
<1>1. /\ Present' = (Present \ D) \cup S
      /\ \A l \in Present \ D : line'[l] = line[l]
      /\ \A l \in S : line'[l] = NewLine(q, body[l])
  BY EditedLines
<1>2. ASSUME NEW l \in S PROVE line'[l].order = q
  <2>1. PICK s : s = body[l]
    OBVIOUS
  <2>2. NewLine(q, s).order = q
    BY DEF NewLine
  <2>3. QED
    BY <1>1, <2>1, <2>2
<1>3. LinesOf(p)' = {l \in Present' : line'[l].order = p}
  BY DEF LinesOf
<1>4. LinesOf(p) = {l \in Present : line[l].order = p}
  BY DEF LinesOf
<1>5. Present \cap S = {}
  BY DEF Present
<1>6. QED
  BY <1>1, <1>2, <1>3, <1>4, <1>5

\* An order is created as a draft with its lines.
LEMMA CreateEffect ==
    ASSUME Typed, NEW p \in Orders, CreateOrder(p)
    PROVE  /\ order[p] = NoOrder /\ order' = [order EXCEPT ![p] = order'[p]]
           /\ order'[p] \in OrderRow /\ order'[p].status = "draft"
           /\ UNCHANGED <<receipt, req, announced, unsummed, overtaken, outdated>>
           /\ \E S \in SUBSET LineIds : \E body \in [S -> LineSpecs] :
                 /\ \A l \in S : line[l] = Unused
                 /\ line' = Rewritten({}, S, p, body)
                 /\ order'[p].total = Amount(body)
<1>1. PICK S \in SUBSET {l \in LineIds : line[l] = Unused} \ {{}} :
        \E body \in [S -> LineSpecs] :
            /\ line' = Created(p, S, body)
            /\ order' = [order EXCEPT ![p] =
                   [status |-> "draft", total |-> Amount(body), role |-> "none"]]
  BY DEF CreateOrder
<1>2. PICK body \in [S -> LineSpecs] :
        /\ line' = Created(p, S, body)
        /\ order' = [order EXCEPT ![p] =
               [status |-> "draft", total |-> Amount(body), role |-> "none"]]
  BY <1>1
<1>3. S \in SUBSET LineIds /\ \A l \in S : line[l] = Unused
  OBVIOUS
<1>4. Amount(body) \in Nat
  <2>1. \A l \in S : body[l] \in [qty : Nat \ {0}, price : Nat]
    BY LineAssumption
  <2>2. DOMAIN body = S
    OBVIOUS
  <2>3. QED
    BY <1>3, <2>1, <2>2, AmountNat
<1>5. line' = Rewritten({}, S, p, body)
  BY <1>2 DEF Created, Rewritten
<1>6. PICK row : row = [status |-> "draft", total |-> Amount(body), role |-> "none"]
  OBVIOUS
<1>7. row \in OrderRow /\ row.status = "draft" /\ row.total = Amount(body)
  BY <1>4, <1>6 DEF OrderRow, OrderStatus, PO_STATUS_TRANSITIONS
<1>8. order' = [order EXCEPT ![p] = row] /\ order \in [Orders -> OrderRow \cup {NoOrder}]
  BY <1>2, <1>6 DEF Typed, TypeOK
<1>9. order'[p] = row /\ order' = [order EXCEPT ![p] = order'[p]]
  BY <1>8
<1>10. order[p] = NoOrder /\ UNCHANGED <<receipt, req, announced, unsummed, overtaken, outdated>>
  BY DEF CreateOrder
<1>11. QED
  BY <1>3, <1>5, <1>7, <1>9, <1>10

\* addLine and removeLine write one line; what they looked at is a draft.
LEMMA EditEffect ==
    ASSUME Typed, NEW c \in Clients, InsertLine(c) \/ DeleteLine(c)
    PROVE  /\ req[c].order \in Orders /\ order[req[c].order] \in OrderRow
           /\ req[c].kind \in {"addLine", "removeLine"} /\ Summing(c)
           /\ UNCHANGED <<order, receipt, announced, unsummed, outdated>>
           /\ \E q \in Orders, D \in SUBSET LineIds, S \in SUBSET LineIds :
              \E body \in [S -> LineSpecs] :
                 /\ order[q] # NoOrder
                 /\ q = req[c].order \/ overtaken'[q]
                 /\ \A l \in S : line[l] = Unused
                 /\ \A l \in D : l \in LinesOf(q) /\ ~ Referenced(l)
                 /\ S # {} => q = req[c].order
                 /\ line' = Rewritten(D, S, q, body)
                 /\ overtaken' = [overtaken EXCEPT ![q] = overtaken'[q]]
                 /\ overtaken'[q] \in BOOLEAN /\ (overtaken[q] => overtaken'[q])
                 /\ ~ overtaken'[q] => order[q].status = "draft"
<1>1. PICK r : r = req[c]
  OBVIOUS
<1>2. /\ r.kind \in {"addLine", "removeLine"} /\ Summing(c)
      /\ UNCHANGED <<order, receipt, announced, unsummed, outdated>>
  BY <1>1 DEF InsertLine, DeleteLine
<1>3. r.order \in Orders /\ order[r.order] \in OrderRow /\ r.seen.status = "draft"
  BY <1>1, <1>2, OrderRequest DEF OrderRequestOK, EditKinds
<1>4. overtaken \in [Orders -> BOOLEAN]
  BY DEF Typed, TypeOK
<1>5. NoOrder \notin OrderRow
  BY DEF NoOrder, OrderRow, OrderStatus, PO_STATUS_TRANSITIONS
<1>6. CASE InsertLine(c)
  <2>1. PICK l \in LineIds, s \in LineSpecs :
            line[l] = Unused /\ line' = [line EXCEPT ![l] = NewLine(r.order, s)]
    BY <1>1, <1>6 DEF InsertLine
  <2>2. PICK body : body = [k \in {l} |-> s]
    OBVIOUS
  <2>3. body \in [{l} -> LineSpecs] /\ body[l] = s
    BY <2>2
  <2>4. line' = Rewritten({}, {l}, r.order, body)
    <3>1. line \in [LineIds -> LineRow \cup {Unused, Gone}]
      BY DEF Typed, TypeOK
    <3>2. QED
      BY <2>1, <2>3, <3>1 DEF Rewritten
  <2>5. overtaken' = [overtaken EXCEPT ![r.order] = overtaken[r.order] \/ Moved(c)]
    BY <1>1, <1>6 DEF InsertLine, MarkOvertaken
  <2>6. Moved(c) <=> order[r.order].status # "draft"
    BY <1>1, <1>3 DEF Moved, OwnOrder
  <2>7. /\ overtaken' = [overtaken EXCEPT ![r.order] = overtaken'[r.order]]
        /\ overtaken'[r.order] \in BOOLEAN
        /\ overtaken'[r.order] <=> overtaken[r.order] \/ Moved(c)
    BY <1>3, <1>4, <2>5
  <2>8. PICK q, S : q = r.order /\ S = {l}
    OBVIOUS
  <2>9. /\ q \in Orders /\ S \in SUBSET LineIds /\ body \in [S -> LineSpecs]
        /\ order[q] # NoOrder /\ q = req[c].order
        /\ \A m \in S : line[m] = Unused
        /\ line' = Rewritten({}, S, q, body)
        /\ overtaken' = [overtaken EXCEPT ![q] = overtaken'[q]]
        /\ overtaken'[q] \in BOOLEAN /\ (overtaken[q] => overtaken'[q])
        /\ ~ overtaken'[q] => order[q].status = "draft"
    BY <1>1, <1>3, <1>5, <2>1, <2>3, <2>4, <2>6, <2>7, <2>8
  <2>10. QED
    BY <1>1, <1>2, <1>3, <2>9
<1>7. CASE DeleteLine(c)
  <2>1. PICK l \in Present :
            /\ ~ Referenced(l) /\ line' = [line EXCEPT ![l] = Gone]
            /\ IF line[l].order = r.order THEN MarkOvertaken(r.order, Moved(c))
                                          ELSE MarkOvertaken(line[l].order, TRUE)
    BY <1>1, <1>7 DEF DeleteLine
  <2>2. PICK q : q = line[l].order
    OBVIOUS
  <2>3. l \in LineIds /\ q \in Orders /\ order[q] # NoOrder /\ l \in LinesOf(q)
    BY <2>2, LineType DEF LinesOf
  <2>4. PICK body : body = [k \in {} |-> k]
    OBVIOUS
  <2>5. body \in [{} -> LineSpecs]
    BY <2>4
  <2>6. line' = Rewritten({l}, {}, q, body)
    <3>1. line \in [LineIds -> LineRow \cup {Unused, Gone}]
      BY DEF Typed, TypeOK
    <3>2. QED
      BY <2>1, <2>3, <3>1 DEF Rewritten
  <2>7. PICK b \in BOOLEAN : b <=> IF q = r.order THEN Moved(c) ELSE TRUE
    OBVIOUS
  <2>8. overtaken' = [overtaken EXCEPT ![q] = overtaken[q] \/ b]
    <3>1. CASE q = r.order
      <4>1. b = Moved(c)
        BY <2>7, <3>1 DEF Moved
      <4>2. QED
        BY <2>1, <2>2, <3>1, <4>1 DEF MarkOvertaken
    <3>2. CASE q # r.order
      <4>1. b = TRUE
        BY <2>7, <3>2
      <4>2. QED
        BY <2>1, <2>2, <3>2, <4>1 DEF MarkOvertaken
    <3>3. QED
      BY <3>1, <3>2
  <2>9. q = r.order => (Moved(c) <=> order[q].status # "draft")
    BY <1>1, <1>3 DEF Moved, OwnOrder
  <2>10. /\ overtaken' = [overtaken EXCEPT ![q] = overtaken'[q]]
         /\ overtaken'[q] \in BOOLEAN
         /\ overtaken'[q] <=> overtaken[q] \/ b
    BY <1>4, <2>3, <2>8
  <2>11. PICK D, S : D = {l} /\ S = {}
    OBVIOUS
  <2>12. /\ D \in SUBSET LineIds /\ S \in SUBSET LineIds /\ body \in [S -> LineSpecs]
         /\ \A m \in S : line[m] = Unused
         /\ S # {} => q = req[c].order
         /\ q = req[c].order \/ overtaken'[q]
         /\ \A m \in D : m \in LinesOf(q) /\ ~ Referenced(m)
         /\ line' = Rewritten(D, S, q, body)
         /\ overtaken[q] => overtaken'[q]
         /\ ~ overtaken'[q] => order[q].status = "draft"
    BY <1>1, <2>1, <2>3, <2>5, <2>6, <2>7, <2>9, <2>10, <2>11
  <2>13. QED
    BY <1>1, <1>2, <1>3, <2>3, <2>10, <2>12
<1>8. QED
  BY <1>6, <1>7

\* What a write of the total of an order does to the row of the order.
LEMMA TotalEffect ==
    ASSUME order \in [Orders -> OrderRow \cup {NoOrder}], NEW p \in Orders,
           order[p] \in OrderRow, NEW t \in Nat, order' = [order EXCEPT ![p].total = t]
    PROVE  /\ order' = [order EXCEPT ![p] = order'[p]]
           /\ order'[p] \in OrderRow /\ order'[p].total = t
           /\ order'[p].status = order[p].status /\ order'[p].role = order[p].role
<1>1. PICK row : row = [order[p] EXCEPT !.total = t]
  OBVIOUS
<1>2. order' = [order EXCEPT ![p] = row]
  BY <1>1
<1>3. /\ row \in OrderRow /\ row.total = t /\ row.status = order[p].status
      /\ row.role = order[p].role
  BY <1>1, RowTotal
<1>4. order'[p] = row /\ order' = [order EXCEPT ![p] = order'[p]]
  BY <1>2
<1>5. QED
  BY <1>3, <1>4

\* recalcTotal writes the sum of the lines it has read.
LEMMA SumEffect ==
    ASSUME Typed, NEW c \in Clients, WriteTotal(c), NEW p, p = req[c].order
    PROVE  /\ p \in Orders /\ order[p] \in OrderRow
           /\ order' = [order EXCEPT ![p] = order'[p]]
           /\ order'[p] \in OrderRow /\ order'[p].total = Amount(req[c].from)
           /\ order'[p].status = order[p].status /\ order'[p].role = order[p].role
           /\ overtaken' = [overtaken EXCEPT ![p] = overtaken'[p]] /\ overtaken'[p] \in BOOLEAN
           /\ overtaken[p] => overtaken'[p]
           /\ ~ overtaken'[p] => order[p].status = "draft" /\ OrderLines(p) = req[c].from
           /\ req' = [req EXCEPT ![c] = Idle] /\ unsummed' = unsummed \ {p}
           /\ UNCHANGED <<line, receipt, announced, outdated>>
<1>1. PICK r : r = req[c]
  OBVIOUS
<1>2. r.kind = "total"
  BY <1>1 DEF WriteTotal
<1>3. IsRows(r.from)
  BY <1>1, <1>2, OrderRequest DEF OrderRequestOK, EditKinds
<1>4. Amount(r.from) \in Nat
  BY <1>3, AmountNat DEF IsRows, LineRow
<1>5. /\ order' = [order EXCEPT ![p].total = Amount(r.from)]
      /\ MarkOvertaken(p, Moved(c) \/ OrderLines(p) # r.from)
      /\ unsummed' = unsummed \ {p} /\ req' = [req EXCEPT ![c] = Idle]
      /\ UNCHANGED <<line, receipt, announced, outdated>>
  BY <1>1 DEF WriteTotal, End
<1>6. PICK t \in Nat : t = Amount(r.from)
  BY <1>4
<1>7. /\ p \in Orders /\ order[p] \in OrderRow
      /\ order' = [order EXCEPT ![p] = order'[p]]
      /\ order'[p] \in OrderRow /\ order'[p].total = t
      /\ order'[p].status = order[p].status /\ order'[p].role = order[p].role
      /\ Moved(c) <=> order[p].status # "draft"
  <2>1. p \in Orders /\ order[p] \in OrderRow /\ r.seen.status = "draft"
    BY <1>1, <1>2, OrderRequest DEF OrderRequestOK, EditKinds
  <2>2. order' = [order EXCEPT ![p].total = t]
    BY <1>5, <1>6
  <2>3. order \in [Orders -> OrderRow \cup {NoOrder}]
    BY DEF Typed, TypeOK
  <2>4. /\ order' = [order EXCEPT ![p] = order'[p]]
        /\ order'[p] \in OrderRow /\ order'[p].total = t
        /\ order'[p].status = order[p].status /\ order'[p].role = order[p].role
    BY <2>1, <2>2, <2>3, TotalEffect
  <2>5. Moved(c) <=> order[p].status # "draft"
    BY <1>1, <2>1 DEF Moved, OwnOrder
  <2>6. QED
    BY <2>1, <2>4, <2>5
<1>8. /\ overtaken' = [overtaken EXCEPT ![p] = overtaken'[p]] /\ overtaken'[p] \in BOOLEAN
      /\ overtaken[p] => overtaken'[p]
      /\ ~ overtaken'[p] => ~ Moved(c) /\ OrderLines(p) = r.from
  <2>1. overtaken \in [Orders -> BOOLEAN]
    BY DEF Typed, TypeOK
  <2>2. QED
    BY <1>5, <1>7, <2>1 DEF MarkOvertaken
<1>9. QED
  BY <1>1, <1>5, <1>6, <1>7, <1>8

\* The step takes the lines D from the table, adds lines of p, and stores the sum of those.
NewLines(D, p) ==
    \E S \in SUBSET LineIds : \E body \in [S -> LineSpecs] :
        /\ \A l \in S : line[l] = Unused
        /\ line' = Rewritten(D, S, p, body)
        /\ order'[p].total = Amount(body)

\* update writes new lines and their sum; lines created meanwhile stay.
LEMMA ReplaceEffect ==
    ASSUME Typed, NEW c \in Clients, ReplaceLines(c), NEW p, p = req[c].order
    PROVE  /\ p \in Orders /\ order[p] \in OrderRow
           /\ order' = [order EXCEPT ![p] = order'[p]]
           /\ order'[p] \in OrderRow
           /\ order'[p].status = order[p].status /\ order'[p].role = order[p].role
           /\ overtaken' = [overtaken EXCEPT ![p] = overtaken'[p]] /\ overtaken'[p] \in BOOLEAN
           /\ overtaken[p] => overtaken'[p]
           /\ ~ overtaken'[p] => order[p].status = "draft" /\ LinesOf(p) \subseteq req[c].doomed
           /\ req' = [req EXCEPT ![c] = Idle] /\ unsummed' = unsummed \ {p}
           /\ UNCHANGED <<receipt, announced, outdated>>
           /\ req[c].doomed \in SUBSET LineIds
           /\ \A l \in req[c].doomed :
                 (line[l] = Gone \/ l \in LinesOf(p)) /\ line[l] # Unused /\ ~ Referenced(l)
           /\ NewLines(req[c].doomed, p)
<1>1. PICK r : r = req[c]
  OBVIOUS
<1>2. r.kind = "replace" /\ \A l \in r.doomed : ~ Referenced(l)
  BY <1>1 DEF ReplaceLines
<1>3. StillOf(p, r.doomed)
  BY <1>1, <1>2, OrderRequest DEF OrderRequestOK, EditKinds
<1>4a. \E S \in SUBSET {l \in LineIds : line[l] = Unused} \ {{}} :
       \E body \in [S -> LineSpecs] :
        /\ line' = [l \in LineIds |->
               IF l \in req[c].doomed THEN Gone
               ELSE Created(req[c].order, S, body)[l]]
        /\ order' = [order EXCEPT ![req[c].order].total = Amount(body)]
  BY Zenon DEF ReplaceLines
<1>4. PICK S \in SUBSET {l \in LineIds : line[l] = Unused} \ {{}} :
      \E body \in [S -> LineSpecs] :
        /\ line' = [l \in LineIds |->
               IF l \in r.doomed THEN Gone ELSE Created(p, S, body)[l]]
        /\ order' = [order EXCEPT ![p].total = Amount(body)]
  BY <1>1, <1>4a
<1>5. PICK body \in [S -> LineSpecs] :
        /\ line' = [l \in LineIds |->
               IF l \in r.doomed THEN Gone ELSE Created(p, S, body)[l]]
        /\ order' = [order EXCEPT ![p].total = Amount(body)]
  BY <1>4
<1>6. S \in SUBSET LineIds /\ \A l \in S : line[l] = Unused
  OBVIOUS
<1>7. line' = Rewritten(r.doomed, S, p, body)
  BY <1>5 DEF Rewritten, Created
<1>8. Amount(body) \in Nat
  <2>1. \A l \in S : body[l] \in [qty : Nat \ {0}, price : Nat]
    BY LineAssumption
  <2>2. DOMAIN body = S
    OBVIOUS
  <2>3. QED
    BY <1>6, <2>1, <2>2, AmountNat
<1>9. /\ MarkOvertaken(p, Moved(c) \/ ~ LinesOf(p) \subseteq r.doomed)
      /\ unsummed' = unsummed \ {p} /\ req' = [req EXCEPT ![c] = Idle]
      /\ UNCHANGED <<receipt, announced, outdated>>
  BY <1>1 DEF ReplaceLines, End
<1>10. PICK t \in Nat : t = Amount(body)
  BY <1>8
<1>11. /\ p \in Orders /\ order[p] \in OrderRow
       /\ order' = [order EXCEPT ![p] = order'[p]]
       /\ order'[p] \in OrderRow /\ order'[p].total = t
       /\ order'[p].status = order[p].status /\ order'[p].role = order[p].role
       /\ Moved(c) <=> order[p].status # "draft"
  <2>1. p \in Orders /\ order[p] \in OrderRow /\ r.seen.status = "draft"
    BY <1>1, <1>2, OrderRequest DEF OrderRequestOK, EditKinds
  <2>2. order' = [order EXCEPT ![p].total = t]
    BY <1>5, <1>10
  <2>3. order \in [Orders -> OrderRow \cup {NoOrder}]
    BY DEF Typed, TypeOK
  <2>4. /\ order' = [order EXCEPT ![p] = order'[p]]
        /\ order'[p] \in OrderRow /\ order'[p].total = t
        /\ order'[p].status = order[p].status /\ order'[p].role = order[p].role
    BY <2>1, <2>2, <2>3, TotalEffect
  <2>5. Moved(c) <=> order[p].status # "draft"
    BY <1>1, <2>1 DEF Moved, OwnOrder
  <2>6. QED
    BY <2>1, <2>4, <2>5
<1>12. /\ overtaken' = [overtaken EXCEPT ![p] = overtaken'[p]] /\ overtaken'[p] \in BOOLEAN
       /\ overtaken[p] => overtaken'[p]
       /\ ~ overtaken'[p] => ~ Moved(c) /\ LinesOf(p) \subseteq r.doomed
  <2>1. overtaken \in [Orders -> BOOLEAN]
    BY DEF Typed, TypeOK
  <2>2. QED
    BY <1>9, <1>11, <2>1 DEF MarkOvertaken
<1>13. /\ r.doomed \in SUBSET LineIds
       /\ \A l \in r.doomed :
             (line[l] = Gone \/ l \in LinesOf(p)) /\ line[l] # Unused /\ ~ Referenced(l)
  BY <1>2, <1>3, NoLineAssumption DEF StillOf, LinesOf, Present
<1>14. NewLines(r.doomed, p)
  BY <1>6, <1>7, <1>10, <1>11 DEF NewLines
<1>15. QED
  BY <1>1, <1>9, <1>11, <1>12, <1>13, <1>14

\* The lines of an update: those it found go, new ones come.
LEMMA ReplacedLines ==
    ASSUME Typed, NEW c \in Clients, ReplaceLines(c), NEW p, p = req[c].order,
           NEW D, D = req[c].doomed
    PROVE  \E S \in SUBSET LineIds : \E body \in [S -> LineSpecs] :
              /\ \A l \in S : line[l] = Unused
              /\ line' = Rewritten(D, S, p, body)
              /\ order'[p].total = Amount(body)
<1>1. NewLines(req[c].doomed, p)
  BY ReplaceEffect
<1>2. NewLines(D, p)
  BY <1>1
<1>3. QED
  BY <1>2, Zenon DEF NewLines

\* The rows after the increments of a receipt: those the receipt names grow by
\* what it accepts, the others it accepts nothing of.
LEMMA Increments ==
    ASSUME Typed, NEW r, IsReceipt(r), Numbered(r), r.order \in Orders,
           PoLines(r) \subseteq LinesOf(r.order), NEW l \in LinesOf(r.order)
    PROVE  /\ Incremented(r)[l] \in LineRow
           /\ Incremented(r)[l].order = line[l].order
           /\ Incremented(r)[l].qty = line[l].qty /\ Incremented(r)[l].price = line[l].price
           /\ Incremented(r)[l].received = line[l].received + Accepted(r, l)
           /\ l \notin PoLines(r) => Incremented(r)[l] = line[l]
<1>1. Accepted(r, l) \in Nat /\ (l \notin PoLines(r) => Accepted(r, l) = 0)
  BY AcceptedType
<1>2. line[l] \in LineRow
  BY LineType DEF LinesOf
<1>3. PICK n \in Nat, row \in LineRow : n = Accepted(r, l) /\ row = line[l]
  BY <1>1, <1>2
<1>4. Incremented(r)[l] = [row EXCEPT !.received = row.received + n]
  BY <1>3 DEF Incremented
<1>5. /\ [row EXCEPT !.received = row.received + n] \in LineRow
      /\ [row EXCEPT !.received = row.received + n].order = row.order
      /\ [row EXCEPT !.received = row.received + n].qty = row.qty
      /\ [row EXCEPT !.received = row.received + n].price = row.price
      /\ [row EXCEPT !.received = row.received + n].received = row.received + n
      /\ n = 0 => [row EXCEPT !.received = row.received + n] = row
  BY DEF LineRow
<1>6. QED
  BY <1>1, <1>3, <1>4, <1>5

\* A receipt in another status.
LEMMA ReceiptStatusType ==
    ASSUME NEW r, IsReceipt(r), NEW s \in ReceiptStatus, NEW row, row = [r EXCEPT !.status = s]
    PROVE  IsReceipt(row) /\ row.status = s /\ row.lines = r.lines /\ SameRefs(row, r)
<1>1. DOMAIN r = {"status", "order", "lines"}
  BY DEF IsReceipt
<1>2. /\ DOMAIN row = {"status", "order", "lines"} /\ row.status = s
      /\ row.lines = r.lines /\ row.order = r.order
  BY <1>1
<1>3. QED
  BY <1>2 DEF IsReceipt, SameRefs

\* The receipt of a commit is approved.
LEMMA CommitReceiptRow ==
    ASSUME Typed, NEW g \in Receipts, receipt[g] # NoReceipt,
           receipt' = [receipt EXCEPT ![g].status = "approved"]
    PROVE  /\ receipt' = [receipt EXCEPT ![g] = receipt'[g]] /\ IsReceipt(receipt'[g])
           /\ SameRefs(receipt'[g], receipt[g]) /\ receipt'[g].status = "approved"
           /\ receipt'[g].lines = receipt[g].lines
<1>1. PICK r, row : r = receipt[g] /\ row = [r EXCEPT !.status = "approved"]
  OBVIOUS
<1>2. IsReceipt(r)
  BY <1>1, ReceiptType
<1>3. "approved" \in ReceiptStatus
  BY DEF ReceiptStatus, GRN_STATUS_TRANSITIONS
<1>4. IsReceipt(row) /\ row.status = "approved" /\ row.lines = r.lines /\ SameRefs(row, r)
  BY <1>1, <1>2, <1>3, ReceiptStatusType
<1>5. receipt' = [receipt EXCEPT ![g] = row] /\ receipt'[g] = row
  BY <1>1 DEF Typed, Tables
<1>6. QED
  BY <1>1, <1>4, <1>5

\* The commit of an approval: every line of the order has the increments, and
\* the order the status that was derived from them.
LEMMA CommitEffect ==
    ASSUME Typed, NEW c \in Clients, CommitReceipt(c), NEW r, r = req[c].seen,
           NEW g, g = req[c].receipt, NEW p, p = r.order
    PROVE  /\ g \in Receipts /\ receipt[g] # NoReceipt /\ IsReceipt(r)
           /\ p \in Orders /\ order[p] \in OrderRow /\ p = receipt[g].order
           /\ order' = [order EXCEPT ![p] = order'[p]]
           /\ order'[p] \in OrderRow /\ order'[p].total = order[p].total
           /\ order'[p].role = order[p].role /\ order'[p].status = req[c].status
           /\ order'[p].status \in Placed
           /\ overtaken' = [overtaken EXCEPT ![p] = overtaken'[p]] /\ overtaken'[p] \in BOOLEAN
           /\ overtaken[p] => overtaken'[p]
           /\ ~ overtaken'[p] => OrderLines(p) = req[c].from
           /\ line' \in [LineIds -> LineRow \cup {Unused, Gone}]
           /\ \A l \in LineIds \ LinesOf(p) : line'[l] = line[l]
           /\ \A l \in LinesOf(p) :
                 /\ line'[l] \in LineRow /\ line'[l].order = line[l].order
                 /\ line'[l].qty = line[l].qty /\ line'[l].price = line[l].price
                 /\ line'[l].received = line[l].received + Accepted(r, l)
           /\ OrderLines(p)' = After(OrderLines(p), r)
           /\ receipt' = [receipt EXCEPT ![g] = receipt'[g]] /\ IsReceipt(receipt'[g])
           /\ SameRefs(receipt'[g], receipt[g]) /\ receipt'[g].status = "approved"
           /\ receipt'[g].lines = receipt[g].lines
           /\ outdated' = [outdated EXCEPT ![g] = outdated'[g]] /\ outdated'[g] \in BOOLEAN
           /\ outdated[g] => outdated'[g]
           /\ ~ outdated'[g] => receipt[g] = r
           /\ req' = [req EXCEPT ![c] = [kind |-> "announce", receipt |-> g, seen |-> r]]
           /\ UNCHANGED <<announced, unsummed>>
<1>1. PICK q : q = req[c]
  OBVIOUS
<1>2. q.kind = "book" /\ r = q.seen /\ g = q.receipt
  BY <1>1 DEF CommitReceipt
<1>3. /\ g \in Receipts /\ receipt[g] # NoReceipt /\ ReceiptRequestOK(q)
      /\ IsReceipt(r) /\ Numbered(r) /\ p = receipt[g].order /\ p \in Orders
      /\ order[p] \in OrderRow /\ PoLines(r) \subseteq LinesOf(p)
  BY <1>1, <1>2, ReceiptRequest DEF ReceiptKinds
<1>4. /\ order \in [Orders -> OrderRow \cup {NoOrder}] /\ overtaken \in [Orders -> BOOLEAN]
      /\ outdated \in [Receipts -> BOOLEAN]
      /\ line \in [LineIds -> LineRow \cup {Unused, Gone}]
  BY DEF Typed, TypeOK
<1>5. /\ receipt' = [receipt EXCEPT ![g].status = "approved"]
      /\ line' = [l \in LineIds |->
             IF l \in PoLines(r) THEN Incremented(r)[l] ELSE line[l]]
      /\ order' = [order EXCEPT ![p].status = q.status]
      /\ MarkOvertaken(p, OrderLines(p) # q.from)
      /\ MarkOutdated(g, receipt[g] # r)
      /\ req' = [req EXCEPT ![c] = [kind |-> "announce", receipt |-> g, seen |-> r]]
      /\ UNCHANGED <<announced, unsummed>>
  BY <1>1, <1>2 DEF CommitReceipt
<1>6. q.status \in Placed
  <2>1. q.status = ReceivedStatus(After(q.from, r))
    BY <1>2, <1>3 DEF ReceiptRequestOK, ReceiptKinds
  <2>2. QED
    BY <2>1 DEF ReceivedStatus, Placed
<1>7. PICK row : row = [order[p] EXCEPT !.status = q.status]
  OBVIOUS
<1>8. row \in OrderRow /\ row.total = order[p].total /\ row.role = order[p].role
      /\ row.status = q.status
  <2>1. q.status \in OrderStatus
    BY <1>6 DEF Placed, OrderStatus, PO_STATUS_TRANSITIONS
  <2>2. QED
    BY <1>3, <1>7, <2>1, RowStatus
<1>9. order' = [order EXCEPT ![p] = row] /\ order'[p] = row
  BY <1>3, <1>4, <1>5, <1>7
<1>10. /\ overtaken' = [overtaken EXCEPT ![p] = overtaken'[p]] /\ overtaken'[p] \in BOOLEAN
       /\ overtaken[p] => overtaken'[p]
       /\ ~ overtaken'[p] => OrderLines(p) = q.from
  BY <1>3, <1>4, <1>5 DEF MarkOvertaken
<1>11. /\ outdated' = [outdated EXCEPT ![g] = outdated'[g]] /\ outdated'[g] \in BOOLEAN
       /\ outdated[g] => outdated'[g]
       /\ ~ outdated'[g] => receipt[g] = r
  BY <1>3, <1>4, <1>5 DEF MarkOutdated
<1>12. \A l \in LineIds \ LinesOf(p) : line'[l] = line[l]
  BY <1>3, <1>5
<1>13. ASSUME NEW l \in LinesOf(p)
       PROVE  /\ line'[l] \in LineRow /\ line'[l].order = line[l].order
              /\ line'[l].qty = line[l].qty /\ line'[l].price = line[l].price
              /\ line'[l].received = line[l].received + Accepted(r, l)
              /\ line'[l] = Incremented(r)[l]
  <2>1. l \in LineIds
    BY DEF LinesOf, Present
  <2>2. line'[l] = IF l \in PoLines(r) THEN Incremented(r)[l] ELSE line[l]
    BY <1>5, <2>1
  <2>3. /\ Incremented(r)[l] \in LineRow /\ Incremented(r)[l].order = line[l].order
        /\ Incremented(r)[l].qty = line[l].qty /\ Incremented(r)[l].price = line[l].price
        /\ Incremented(r)[l].received = line[l].received + Accepted(r, l)
        /\ l \notin PoLines(r) => Incremented(r)[l] = line[l]
    <3>1. r.order \in Orders /\ PoLines(r) \subseteq LinesOf(r.order) /\ l \in LinesOf(r.order)
      BY <1>3
    <3>2. QED
      BY <1>3, <3>1, Increments
  <2>4. line'[l] = Incremented(r)[l]
    BY <2>2, <2>3
  <2>5. QED
    BY <2>3, <2>4
<1>14. line' \in [LineIds -> LineRow \cup {Unused, Gone}]
  <2>1. line' = [l \in LineIds |-> line'[l]]
    BY <1>5
  <2>2. ASSUME NEW l \in LineIds PROVE line'[l] \in LineRow \cup {Unused, Gone}
    BY <1>4, <1>12, <1>13
  <2>3. QED
    BY <2>1, <2>2
<1>15. LinesOf(p)' = LinesOf(p)
  <2>1. Present' = {l \in LineIds : line'[l] \notin {Unused, Gone}}
    BY DEF Present
  <2>2. LinesOf(p)' = {l \in Present' : line'[l].order = p}
    BY DEF LinesOf
  <2>3. \A l \in LinesOf(p) : l \in LinesOf(p)'
    BY <1>13, <2>1, <2>2, NoLineAssumption DEF LinesOf, Present
  <2>4. \A l \in LinesOf(p)' : l \in LinesOf(p)
    BY <1>12, <2>1, <2>2 DEF LinesOf, Present
  <2>5. QED
    BY <2>3, <2>4
<1>16. OrderLines(p)' = After(OrderLines(p), r)
  <2>1. OrderLines(p)' = [l \in LinesOf(p) |-> line'[l]]
    BY <1>15 DEF OrderLines
  <2>2. OrderLines(p) = [l \in LinesOf(p) |-> line[l]]
    BY DEF OrderLines
  <2>3. After(OrderLines(p), r)
          = [l \in LinesOf(p) |-> [line[l] EXCEPT !.received = line[l].received + Accepted(r, l)]]
    BY <2>2 DEF After
  <2>4. Incremented(r)
          = [l \in LinesOf(p) |-> [line[l] EXCEPT !.received = line[l].received + Accepted(r, l)]]
    BY DEF Incremented
  <2>5. QED
    BY <1>13, <2>1, <2>3, <2>4
<1>17. order'[p].status = q.status /\ order' = [order EXCEPT ![p] = order'[p]]
  BY <1>8, <1>9
<1>18. /\ receipt' = [receipt EXCEPT ![g] = receipt'[g]] /\ IsReceipt(receipt'[g])
       /\ SameRefs(receipt'[g], receipt[g]) /\ receipt'[g].status = "approved"
       /\ receipt'[g].lines = receipt[g].lines
  BY <1>3, <1>5, CommitReceiptRow
<1>19. QED
  BY <1>1, <1>2, <1>3, <1>5, <1>6, <1>8, <1>9, <1>10, <1>11, <1>12, <1>13, <1>14, <1>16, <1>17, <1>18

-----------------------------------------------------------------------------
\* What actions do to receipts.

\* The quantities of a receipt line after an edit.
LEMMA PatchedType ==
    ASSUME NEW q \in [Fields -> Nat], NEW d \in Patches
    PROVE  Patched(q, d) \in [Fields -> Nat]
<1>1. \A f \in DOMAIN d : d[f] \in Nat
  BY EntryAssumption
<1>2. QED
  BY <1>1 DEF Patched

\* A receipt is created as a draft on lines of an order that was placed.
LEMMA CreateReceiptEffect ==
    ASSUME Typed, NEW c \in Clients, CreateReceipt(c)
    PROVE  /\ req' = [req EXCEPT ![c] = Idle]
           /\ UNCHANGED <<order, line, announced, unsummed, overtaken, outdated>>
           /\ \E g \in Receipts : \E row :
                 /\ receipt[g] = NoReceipt /\ receipt' = [receipt EXCEPT ![g] = row]
                 /\ IsReceipt(row) /\ Numbered(row) /\ row.status = "draft"
                 /\ row.order \in Orders /\ order[row.order] # NoOrder
                 /\ PoLines(row) \subseteq LinesOf(row.order)
                 /\ ~ overtaken[row.order] => order[row.order].status \in Placed
<1>1. PICK r : r = req[c]
  OBVIOUS
<1>2. r.kind = "receive" /\ RequestOK(r)
  BY <1>1 DEF CreateReceipt, Typed
<1>3. /\ r.order \in Orders /\ order[r.order] # NoOrder /\ StillOf(r.order, r.lines)
      /\ ~ overtaken[r.order] => order[r.order].status \in Placed
  BY <1>2 DEF RequestOK, ReceiveRequestOK
<1>4. PICK g \in Receipts, n \in 1 .. MaxEntries :
      \E lines \in [1 .. n -> [poLine : r.lines \cap Present, qty : Entries]] :
        /\ receipt[g] = NoReceipt
        /\ \A k \in 1 .. n : QtyRules(lines[k].qty)
        /\ receipt' = [receipt EXCEPT ![g] =
               [status |-> "draft", order |-> r.order, lines |-> lines]]
  BY <1>1 DEF CreateReceipt
<1>5. PICK lines \in [1 .. n -> [poLine : r.lines \cap Present, qty : Entries]] :
        /\ receipt[g] = NoReceipt
        /\ \A k \in 1 .. n : QtyRules(lines[k].qty)
        /\ receipt' = [receipt EXCEPT ![g] =
               [status |-> "draft", order |-> r.order, lines |-> lines]]
  BY <1>4
<1>6. PICK row : row = [status |-> "draft", order |-> r.order, lines |-> lines]
  OBVIOUS
<1>7. /\ DOMAIN row = {"status", "order", "lines"} /\ row.status = "draft"
      /\ row.order = r.order /\ row.lines = lines
  BY <1>6
<1>8. ASSUME NEW k \in 1 .. n
      PROVE  lines[k] \in ReceiptLine /\ lines[k].poLine \in LinesOf(r.order)
  <2>1. lines[k] \in [poLine : r.lines \cap Present, qty : Entries]
    OBVIOUS
  <2>2. lines[k].poLine \in Present /\ lines[k].poLine \in LinesOf(r.order)
    BY <1>3, <2>1 DEF StillOf, Present
  <2>3. QED
    BY <2>1, <2>2, EntryAssumption DEF ReceiptLine, Present
<1>9. IsReceipt(row)
  <2>1. "draft" \in ReceiptStatus
    BY DEF ReceiptStatus, GRN_STATUS_TRANSITIONS
  <2>2. QED
    BY <1>3, <1>5, <1>7, <1>8, <2>1 DEF IsReceipt
<1>10. Numbered(row) /\ PoLines(row) \subseteq LinesOf(row.order)
  <2>1. n \in Nat /\ DOMAIN row.lines = 1 .. n
    BY <1>7, BoundAssumption
  <2>2. QED
    BY <1>7, <1>8, <2>1 DEF Numbered, PoLines
<1>11. receipt' = [receipt EXCEPT ![g] = row]
  BY <1>5, <1>6
<1>12. /\ req' = [req EXCEPT ![c] = Idle]
       /\ UNCHANGED <<order, line, announced, unsummed, overtaken, outdated>>
  BY DEF CreateReceipt, End
<1>13. QED
  BY <1>3, <1>5, <1>7, <1>9, <1>10, <1>11, <1>12

\* An edit of a receipt line, and a change of the status of a receipt, keep the
\* lines the receipt refers to; they find it in a status they have checked
\* unless the receipt becomes outdated.
LEMMA ReceiptEffect ==
    ASSUME Typed, NEW c \in Clients, EditLine(c) \/ SubmitForQc(c) \/ RejectReceipt(c),
           NEW g, g = req[c].receipt
    PROVE  /\ g \in Receipts /\ receipt[g] # NoReceipt
           /\ receipt' = [receipt EXCEPT ![g] = receipt'[g]]
           /\ IsReceipt(receipt'[g]) /\ SameRefs(receipt'[g], receipt[g])
           /\ outdated' = [outdated EXCEPT ![g] = outdated'[g]] /\ outdated'[g] \in BOOLEAN
           /\ outdated[g] => outdated'[g]
           /\ ~ outdated'[g] =>
                \/ /\ receipt'[g].status = receipt[g].status
                   /\ receipt[g].status \in {"draft", "qc_pending"}
                \/ /\ receipt[g].status = "draft"
                   /\ receipt'[g].status \in {"qc_pending", "rejected"}
                \/ receipt[g].status = "qc_pending" /\ receipt'[g].status = "rejected"
           /\ req' = [req EXCEPT ![c] = Idle]
           /\ UNCHANGED <<order, line, announced, unsummed, overtaken>>
<1>1. PICK q : q = req[c]
  OBVIOUS
<1>2. PICK r : r = receipt[g]
  OBVIOUS
<1>3. q.kind \in {"edit", "submitForQc", "rejectReceipt"} /\ g = q.receipt
  BY <1>1 DEF EditLine, SubmitForQc, RejectReceipt, WriteReceipt
<1>4. g \in Receipts /\ r # NoReceipt /\ ReceiptRequestOK(q)
  BY <1>1, <1>2, <1>3, ReceiptRequest DEF ReceiptKinds, ReceiptOps
<1>5. IsReceipt(r)
  BY <1>2, <1>4, ReceiptType
<1>6. DOMAIN receipt = Receipts /\ outdated \in [Receipts -> BOOLEAN]
  BY DEF Typed, TypeOK, Tables
<1>7. req' = [req EXCEPT ![c] = Idle] /\ UNCHANGED <<order, line, announced, unsummed, overtaken>>
  BY DEF EditLine, SubmitForQc, RejectReceipt, WriteReceipt, End
<1>8. CASE EditLine(c)
  <2>1. /\ \E k \in DOMAIN r.lines, d \in Patches :
            /\ QtyRules(Patched(r.lines[k].qty, d))
            /\ receipt' = [receipt EXCEPT ![g].lines[k].qty = Patched(r.lines[k].qty, d)]
        /\ MarkOutdated(g, ~ Editable(g))
    <3>1. /\ \E k \in DOMAIN receipt[req[c].receipt].lines, d \in Patches :
              /\ QtyRules(Patched(receipt[req[c].receipt].lines[k].qty, d))
              /\ receipt' = [receipt EXCEPT ![req[c].receipt].lines[k].qty =
                      Patched(receipt[req[c].receipt].lines[k].qty, d)]
          /\ MarkOutdated(req[c].receipt, ~ Editable(req[c].receipt))
      BY Zenon, <1>8 DEF EditLine
    <3>2. req[c].receipt = g
      BY <1>1, <1>3
    <3>3. receipt[g] = r
      BY <1>2
    <3>4. QED
      BY ONLY <3>1, <3>2, <3>3
  <2>2. PICK k \in DOMAIN r.lines, d \in Patches :
            /\ QtyRules(Patched(r.lines[k].qty, d))
            /\ receipt' = [receipt EXCEPT ![g].lines[k].qty = Patched(r.lines[k].qty, d)]
    BY <2>1
  <2>3. r.lines[k] \in ReceiptLine /\ DOMAIN r = {"status", "order", "lines"}
    BY <1>5 DEF IsReceipt
  <2>4. PICK qty \in [Fields -> Nat] : qty = Patched(r.lines[k].qty, d)
    BY <2>3, PatchedType DEF ReceiptLine
  <2>5. PICK lines : lines = [r.lines EXCEPT ![k].qty = qty]
    OBVIOUS
  <2>6. PICK row : row = [r EXCEPT !.lines = lines]
    OBVIOUS
  <2>7. receipt' = [receipt EXCEPT ![g] = row]
    BY <1>2, <2>2, <2>4, <2>5, <2>6
  <2>8. /\ DOMAIN row = {"status", "order", "lines"} /\ row.lines = lines
        /\ row.status = r.status /\ row.order = r.order
    BY <2>3, <2>6
  <2>9. /\ DOMAIN lines = DOMAIN r.lines
        /\ \A j \in DOMAIN r.lines : j # k => lines[j] = r.lines[j]
        /\ lines[k] = [r.lines[k] EXCEPT !.qty = qty]
    BY <2>5
  <2>10. lines[k] \in ReceiptLine /\ lines[k].poLine = r.lines[k].poLine /\ lines[k].qty = qty
    BY <2>3, <2>9 DEF ReceiptLine
  <2>11. QtyRules(lines[k].qty)
    BY <2>2, <2>4, <2>10
  <2>12. ASSUME NEW j \in DOMAIN r.lines
         PROVE  /\ lines[j] \in ReceiptLine /\ QtyRules(lines[j].qty)
                /\ lines[j].poLine = r.lines[j].poLine
    <3>1. CASE j = k
      BY <2>10, <2>11, <3>1
    <3>2. CASE j # k
      BY <1>5, <2>9, <3>2 DEF IsReceipt
    <3>3. QED
      BY <3>1, <3>2
  <2>13. IsReceipt(row) /\ SameRefs(row, r)
    BY <1>5, <2>8, <2>9, <2>12 DEF IsReceipt, SameRefs
  <2>14. receipt'[g] = row
    BY <1>4, <1>6, <2>7
  <2>15. outdated'[g] <=> outdated[g] \/ ~ Editable(g)
    BY <1>4, <1>6, <2>1 DEF MarkOutdated, Editable
  <2>16. outdated' = [outdated EXCEPT ![g] = outdated'[g]] /\ outdated'[g] \in BOOLEAN
    BY <1>4, <1>6, <2>1 DEF MarkOutdated, Editable
  <2>17. QED
    BY <1>2, <1>4, <1>7, <2>7, <2>8, <2>13, <2>14, <2>15, <2>16 DEF Editable
<1>9. CASE SubmitForQc(c) \/ RejectReceipt(c)
  <2>1. PICK s : /\ receipt' = [receipt EXCEPT ![g].status = s]
                 /\ MarkOutdated(g, r.status # q.seen.status)
                 /\ \/ q.kind = "submitForQc" /\ s = "qc_pending"
                    \/ q.kind = "rejectReceipt" /\ s = "rejected"
    <3>1. CASE SubmitForQc(c)
      BY <1>1, <1>2, <1>3, <3>1 DEF SubmitForQc, WriteReceipt, Target
    <3>2. CASE RejectReceipt(c)
      BY <1>1, <1>2, <1>3, <3>2 DEF RejectReceipt, WriteReceipt, Target
    <3>3. QED
      BY <1>9, <3>1, <3>2
  <2>2. s \in ReceiptStatus
    BY <2>1 DEF ReceiptStatus, GRN_STATUS_TRANSITIONS
  <2>3. PICK row : row = [r EXCEPT !.status = s]
    OBVIOUS
  <2>4. IsReceipt(row) /\ row.status = s /\ SameRefs(row, r)
    BY <1>5, <2>2, <2>3, ReceiptStatusType
  <2>5. receipt' = [receipt EXCEPT ![g] = row] /\ receipt'[g] = row
    BY <1>2, <1>4, <1>6, <2>1, <2>3
  <2>6. outdated'[g] <=> outdated[g] \/ r.status # q.seen.status
    BY <1>4, <1>6, <2>1 DEF MarkOutdated
  <2>7. outdated' = [outdated EXCEPT ![g] = outdated'[g]] /\ outdated'[g] \in BOOLEAN
    BY <1>4, <1>6, <2>1 DEF MarkOutdated
  <2>8. /\ q.kind = "submitForQc" => q.seen.status = "draft"
        /\ q.kind = "rejectReceipt" => q.seen.status \in {"draft", "qc_pending"}
    BY <1>3, <1>4 DEF ReceiptRequestOK, ReceiptKinds, ReceiptOps
  <2>9. QED
    BY <1>2, <1>4, <1>7, <2>1, <2>4, <2>5, <2>6, <2>7, <2>8
<1>10. QED
  BY <1>8, <1>9

-----------------------------------------------------------------------------
\* Rows never vanish, and what a request knows of them stays true.

OrdersGrow ==
    /\ order' \in [Orders -> OrderRow \cup {NoOrder}]
    /\ overtaken' \in [Orders -> BOOLEAN]
    /\ \A p \in Orders :
          /\ order[p] # NoOrder => order'[p] # NoOrder
          /\ overtaken[p] => overtaken'[p]
          /\ order[p] # NoOrder /\ order[p].status \in Placed /\ ~ overtaken'[p]
                => order'[p].status \in Placed

LinesGrow ==
    /\ line' \in [LineIds -> LineRow \cup {Unused, Gone}]
    /\ \A l \in LineIds : line[l] = Gone => line'[l] = Gone
    /\ \A l \in Present :
          \/ line'[l] = Gone /\ ~ Referenced(l)
          \/ l \in Present' /\ line'[l].order = line[l].order
    /\ \A l \in Present' \ Present : order'[line'[l].order] # NoOrder

\* A receipt that a request may have created.
Creatable(r) ==
    /\ IsReceipt(r) /\ Numbered(r) /\ r.order \in Orders /\ order[r.order] # NoOrder
    /\ PoLines(r) \subseteq LinesOf(r.order)
    /\ ~ overtaken[r.order] => order[r.order].status \in Placed

ReceiptsGrow ==
    /\ DOMAIN receipt' = Receipts /\ DOMAIN announced' = Receipts
    /\ outdated' \in [Receipts -> BOOLEAN]
    /\ \A g \in Receipts :
          /\ outdated[g] => outdated'[g]
          /\ receipt[g] # NoReceipt =>
                /\ receipt'[g] # NoReceipt /\ IsReceipt(receipt'[g])
                /\ SameRefs(receipt'[g], receipt[g])
          /\ receipt[g] = NoReceipt /\ receipt'[g] # NoReceipt =>
                /\ \E r : r = receipt'[g] /\ Creatable(r)
                /\ UNCHANGED <<order, line, overtaken>>

RequestsGrow ==
    /\ DOMAIN req' = Clients
    /\ \A c \in Clients : \E r : r = req'[c] /\ RequestOK(r)

Grows == OrdersGrow /\ LinesGrow /\ ReceiptsGrow

\* A row of an order is one.
LEMMA RowIsOrder == NoOrder \notin OrderRow
BY DEF NoOrder, OrderRow, OrderStatus, PO_STATUS_TRANSITIONS

\* A receipt is not the absence of one.
LEMMA ReceiptIsOne == ASSUME NEW r, IsReceipt(r) PROVE r # NoReceipt
BY DEF IsReceipt, NoReceipt

\* A write of one order row.
LEMMA OneOrderGrows ==
    ASSUME Typed, NEW p \in Orders, order' = [order EXCEPT ![p] = order'[p]],
           order'[p] \in OrderRow, overtaken' = [overtaken EXCEPT ![p] = overtaken'[p]],
           overtaken'[p] \in BOOLEAN, overtaken[p] => overtaken'[p],
           order[p] # NoOrder /\ order[p].status \in Placed /\ ~ overtaken'[p]
                => order'[p].status \in Placed
    PROVE  OrdersGrow
<1>1. order \in [Orders -> OrderRow \cup {NoOrder}] /\ overtaken \in [Orders -> BOOLEAN]
  BY DEF Typed, TypeOK
<1>2. PICK row, b : row = order'[p] /\ b = overtaken'[p]
  OBVIOUS
<1>3. order' = [order EXCEPT ![p] = row] /\ overtaken' = [overtaken EXCEPT ![p] = b]
  BY <1>2
<1>4. order' \in [Orders -> OrderRow \cup {NoOrder}] /\ overtaken' \in [Orders -> BOOLEAN]
  BY <1>1, <1>2, <1>3
<1>5. \A q \in Orders : q # p => order'[q] = order[q] /\ overtaken'[q] = overtaken[q]
  BY <1>1, <1>3
<1>6. QED
  BY <1>2, <1>4, <1>5, RowIsOrder DEF OrdersGrow

\* Nothing happens to the orders.
LEMMA OrdersStay == ASSUME Typed, UNCHANGED <<order, overtaken>> PROVE OrdersGrow
BY DEF Typed, TypeOK, OrdersGrow

\* Nothing happens to the lines.
LEMMA LinesStay ==
    ASSUME Typed, UNCHANGED line PROVE LinesGrow
<1>1. Present' = Present
  BY DEF Present
<1>2. QED
  BY <1>1 DEF Typed, TypeOK, LinesGrow

\* Nothing happens to the receipts.
LEMMA ReceiptsStay ==
    ASSUME Typed, UNCHANGED <<receipt, outdated>>, DOMAIN announced' = Receipts
    PROVE  ReceiptsGrow
BY DEF Typed, TypeOK, Tables, ReceiptsGrow, SameRefs

\* The lines of an order are edited.
LEMMA EditedLinesGrow ==
    ASSUME Typed, NEW q \in Orders, order'[q] # NoOrder,
           NEW D \in SUBSET LineIds, NEW S \in SUBSET LineIds,
           NEW body \in [S -> LineSpecs], \A l \in S : line[l] = Unused,
           \A l \in D : line[l] # Unused /\ ~ Referenced(l), line' = Rewritten(D, S, q, body)
    PROVE  LinesGrow
<1>1. /\ line' \in [LineIds -> LineRow \cup {Unused, Gone}]
      /\ Present' = (Present \ D) \cup S
      /\ \A l \in Present \ D : line'[l] = line[l]
      /\ \A l \in S : line'[l] = NewLine(q, body[l])
      /\ \A l \in D : line'[l] = Gone
      /\ \A l \in LineIds : line[l] = Gone => line'[l] = Gone
  BY EditedLines
<1>2. ASSUME NEW l \in S PROVE line'[l].order = q
  <2>1. PICK s : s = body[l]
    OBVIOUS
  <2>2. NewLine(q, s).order = q
    BY DEF NewLine
  <2>3. QED
    BY <1>1, <2>1, <2>2
<1>3. QED
  BY <1>1, <1>2 DEF LinesGrow

\* One receipt is written.
LEMMA OneReceiptGrows ==
    ASSUME Typed, NEW g \in Receipts, receipt[g] # NoReceipt,
           receipt' = [receipt EXCEPT ![g] = receipt'[g]], IsReceipt(receipt'[g]),
           SameRefs(receipt'[g], receipt[g]),
           outdated' = [outdated EXCEPT ![g] = outdated'[g]], outdated'[g] \in BOOLEAN,
           outdated[g] => outdated'[g], UNCHANGED announced
    PROVE  ReceiptsGrow
<1>1. /\ outdated \in [Receipts -> BOOLEAN] /\ DOMAIN receipt = Receipts
      /\ DOMAIN announced = Receipts
  BY DEF Typed, TypeOK, Tables
<1>2. PICK row, b : row = receipt'[g] /\ b = outdated'[g]
  OBVIOUS
<1>3. receipt' = [receipt EXCEPT ![g] = row] /\ outdated' = [outdated EXCEPT ![g] = b]
  BY <1>2
<1>4. DOMAIN receipt' = Receipts /\ DOMAIN announced' = Receipts
  BY <1>1, <1>3
<1>5. outdated' \in [Receipts -> BOOLEAN]
  BY <1>1, <1>2, <1>3
<1>6. \A h \in Receipts : h # g => receipt'[h] = receipt[h] /\ outdated'[h] = outdated[h]
  BY <1>1, <1>3
<1>7. ASSUME NEW h \in Receipts, receipt[h] # NoReceipt
      PROVE  receipt'[h] # NoReceipt /\ IsReceipt(receipt'[h]) /\ SameRefs(receipt'[h], receipt[h])
  <2>1. CASE h = g
    BY <1>2, <2>1, ReceiptIsOne
  <2>2. CASE h # g
    <3>1. receipt'[h] = receipt[h] /\ IsReceipt(receipt[h])
      BY <1>6, <1>7, <2>2, ReceiptType
    <3>2. SameRefs(receipt[h], receipt[h])
      BY DEF SameRefs
    <3>3. QED
      BY <1>7, <3>1, <3>2
  <2>3. QED
    BY <2>1, <2>2
<1>8. \A h \in Receipts : outdated[h] => outdated'[h]
  BY <1>2, <1>6
<1>9. \A h \in Receipts : ~ (receipt[h] = NoReceipt /\ receipt'[h] # NoReceipt)
  BY <1>6
<1>10. QED
  BY <1>4, <1>5, <1>7, <1>8, <1>9 DEF ReceiptsGrow

\* The lines of an order that are referred to stay lines of the order.
LEMMA StillOfStays ==
    ASSUME Typed, LinesGrow, NEW p, NEW S, StillOf(p, S) PROVE StillOf(p, S)'
<1>1. S \subseteq LineIds
  BY DEF StillOf
<1>2. ASSUME NEW l \in S PROVE line'[l] = Gone \/ l \in LinesOf(p)'
  <2>1. CASE line[l] = Gone
    BY <1>1, <2>1 DEF LinesGrow
  <2>2. CASE l \in LinesOf(p)
    <3>1. l \in Present /\ line[l].order = p
      BY <2>2 DEF LinesOf
    <3>2. QED
      BY <3>1 DEF LinesGrow, LinesOf
  <2>3. QED
    BY <2>1, <2>2 DEF StillOf
<1>3. QED
  BY <1>1, <1>2 DEF StillOf

\* Two receipts with the references of a third have the same.
LEMMA SameRefsTrans ==
    ASSUME NEW r, NEW s, NEW t, SameRefs(r, s), SameRefs(t, s) PROVE SameRefs(r, t)
BY DEF SameRefs

\* What a request relies on is not taken from it.
LEMMA RequestStays ==
    ASSUME Typed, Grows, NEW r, RequestOK(r) PROVE RequestOK(r)'
<1>1. OrderRequestOK(r)'
  <2>1. SUFFICES ASSUME r.kind \in EditKinds \cup WriteKinds
        PROVE  /\ r.order \in Orders /\ order'[r.order] # NoOrder
               /\ r.kind \in EditKinds \cup {"submit"} => r.seen.status = "draft"
               /\ r.kind \in {"approve", "reject"} => r.seen.status = "pending_approval"
               /\ r.kind = "cancel" => r.seen.status \in {"draft", "pending_approval"}
               /\ r.kind = "submit" => r.seen.lined
               /\ r.kind = "total" => IsRows(r.from)
               /\ r.kind = "replace" => StillOf(r.order, r.doomed)'
    BY DEF OrderRequestOK
  <2>2. /\ r.order \in Orders /\ order[r.order] # NoOrder
        /\ r.kind \in EditKinds \cup {"submit"} => r.seen.status = "draft"
        /\ r.kind \in {"approve", "reject"} => r.seen.status = "pending_approval"
        /\ r.kind = "cancel" => r.seen.status \in {"draft", "pending_approval"}
        /\ r.kind = "submit" => r.seen.lined
        /\ r.kind = "total" => IsRows(r.from)
        /\ r.kind = "replace" => StillOf(r.order, r.doomed)
    BY <2>1 DEF RequestOK, OrderRequestOK
  <2>3. order'[r.order] # NoOrder
    BY <2>2 DEF Grows, OrdersGrow
  <2>4. r.kind = "replace" => StillOf(r.order, r.doomed)'
    BY <2>2, StillOfStays DEF Grows
  <2>5. QED
    BY <2>2, <2>3, <2>4
<1>2. ReceiveRequestOK(r)'
  <2>1. SUFFICES ASSUME r.kind = "receive"
        PROVE  /\ r.order \in Orders /\ order'[r.order] # NoOrder
               /\ StillOf(r.order, r.lines)'
               /\ ~ overtaken'[r.order] => order'[r.order].status \in Placed
    BY DEF ReceiveRequestOK
  <2>2. /\ r.order \in Orders /\ order[r.order] # NoOrder /\ StillOf(r.order, r.lines)
        /\ ~ overtaken[r.order] => order[r.order].status \in Placed
    BY <2>1 DEF RequestOK, ReceiveRequestOK
  <2>3. StillOf(r.order, r.lines)'
    BY <2>2, StillOfStays DEF Grows
  <2>4. QED
    BY <2>2, <2>3 DEF Grows, OrdersGrow
<1>3. ReceiptRequestOK(r)'
  <2>1. SUFFICES ASSUME r.kind \in ReceiptKinds
        PROVE  /\ r.receipt \in Receipts /\ receipt'[r.receipt] # NoReceipt
               /\ IsReceipt(r.seen) /\ SameRefs(r.seen, receipt'[r.receipt])
               /\ r.kind = "submitForQc" => r.seen.status = "draft"
               /\ r.kind \in {"edit", "rejectReceipt"} => r.seen.status \in {"draft", "qc_pending"}
               /\ r.kind \in {"approveReceipt", "book", "announce"} => r.seen.status = "qc_pending"
               /\ r.kind = "book" => /\ IsRows(r.from)
                                     /\ r.status = ReceivedStatus(After(r.from, r.seen))
    BY DEF ReceiptRequestOK
  <2>2. /\ r.receipt \in Receipts /\ receipt[r.receipt] # NoReceipt
        /\ IsReceipt(r.seen) /\ SameRefs(r.seen, receipt[r.receipt])
        /\ r.kind = "submitForQc" => r.seen.status = "draft"
        /\ r.kind \in {"edit", "rejectReceipt"} => r.seen.status \in {"draft", "qc_pending"}
        /\ r.kind \in {"approveReceipt", "book", "announce"} => r.seen.status = "qc_pending"
        /\ r.kind = "book" => /\ IsRows(r.from)
                              /\ r.status = ReceivedStatus(After(r.from, r.seen))
    BY <2>1 DEF RequestOK, ReceiptRequestOK
  <2>3. receipt'[r.receipt] # NoReceipt /\ SameRefs(receipt'[r.receipt], receipt[r.receipt])
    BY <2>2 DEF Grows, ReceiptsGrow
  <2>4. SameRefs(r.seen, receipt'[r.receipt])
    BY <2>2, <2>3, SameRefsTrans
  <2>5. QED
    BY <2>2, <2>3, <2>4
<1>4. QED
  BY <1>1, <1>2, <1>3 DEF RequestOK

\* The references of a receipt stay lines of its order.
LEMMA ReceiptStays ==
    ASSUME Typed, Grows, NEW g \in Receipts, receipt[g] # NoReceipt
    PROVE  \E s : s = receipt'[g] /\ Creatable(s)'
<1>1. PICK r, s : r = receipt[g] /\ s = receipt'[g]
  OBVIOUS
<1>2. PICK p : p = r.order
  OBVIOUS
<1>3. /\ IsReceipt(r) /\ PoLines(r) \subseteq LinesOf(p) /\ Numbered(r) /\ p \in Orders
      /\ order[p] # NoOrder
  BY <1>1, <1>2, ReceiptType
<1>4. IsReceipt(s) /\ SameRefs(s, r)
  BY <1>1 DEF Grows, ReceiptsGrow
<1>5. PoLines(s) = PoLines(r) /\ Numbered(s) /\ s.order = p
  BY <1>2, <1>3, <1>4 DEF SameRefs, PoLines, Numbered
<1>6. ASSUME NEW l \in PoLines(r) PROVE l \in LinesOf(p)'
  <2>1. l \in Present /\ line[l].order = p
    BY <1>3 DEF LinesOf
  <2>2. Referenced(l)
    <3>1. PICK k \in DOMAIN r.lines : r.lines[k].poLine = l
      BY DEF PoLines
    <3>2. QED
      BY <1>1, <3>1 DEF Referenced
  <2>3. QED
    BY <2>1, <2>2 DEF Grows, LinesGrow, LinesOf
<1>7. order'[p] # NoOrder
  BY <1>3 DEF Grows, OrdersGrow
<1>8. ~ overtaken'[p] => order'[p].status \in Placed
  <2>1. ~ overtaken[p] => order[p].status \in Placed
    BY <1>1, <1>2 DEF Typed, ReceiptOK
  <2>2. QED
    BY <1>3, <2>1 DEF Grows, OrdersGrow
<1>9. Creatable(s)'
  BY <1>2, <1>3, <1>4, <1>5, <1>6, <1>7, <1>8 DEF Creatable
<1>10. QED
  BY <1>1, <1>9

\* A step that keeps the rows and finds requests that have seen what they
\* checked leaves the invariant true.
LEMMA GrowingKeepsTyped ==
    ASSUME Typed, Grows, RequestsGrow, unsummed' \subseteq Orders PROVE Typed'
<1>1. /\ order' \in [Orders -> OrderRow \cup {NoOrder}] /\ overtaken' \in [Orders -> BOOLEAN]
      /\ line' \in [LineIds -> LineRow \cup {Unused, Gone}]
      /\ outdated' \in [Receipts -> BOOLEAN]
      /\ DOMAIN receipt' = Receipts /\ DOMAIN announced' = Receipts /\ DOMAIN req' = Clients
  BY DEF Grows, OrdersGrow, LinesGrow, ReceiptsGrow, RequestsGrow
<1>2. ASSUME NEW l \in Present' PROVE order'[line'[l].order] # NoOrder
  <2>1. CASE l \in Present
    <3>1. line'[l] # Gone
      BY DEF Present
    <3>2. line'[l].order = line[l].order
      BY <2>1, <3>1 DEF Grows, LinesGrow
    <3>3. line[l].order \in Orders /\ order[line[l].order] # NoOrder
      BY <2>1, LineType
    <3>4. QED
      BY <3>2, <3>3 DEF Grows, OrdersGrow
  <2>2. CASE l \notin Present
    BY <2>2 DEF Grows, LinesGrow
  <2>3. QED
    BY <2>1, <2>2
<1>3. ASSUME NEW g \in Receipts, receipt'[g] # NoReceipt
      PROVE  \E s : s = receipt'[g] /\ Creatable(s)'
  <2>1. CASE receipt[g] # NoReceipt
    BY <2>1, ReceiptStays
  <2>2. CASE receipt[g] = NoReceipt
    <3>1. PICK r : r = receipt'[g] /\ Creatable(r) /\ UNCHANGED <<order, line, overtaken>>
      BY <1>3, <2>2 DEF Grows, ReceiptsGrow
    <3>2. LinesOf(r.order)' = LinesOf(r.order)
      BY <3>1 DEF LinesOf, Present
    <3>3. Creatable(r)'
      BY <3>1, <3>2 DEF Creatable
    <3>4. QED
      BY <3>1, <3>3
  <2>3. QED
    BY <2>1, <2>2
<1>4. TypeOK'
  <2>1. ASSUME NEW g \in Receipts, receipt'[g] # NoReceipt
        PROVE  IsReceipt(receipt[g])' /\ (PoLines(receipt[g]) \subseteq LinesOf(receipt[g].order))'
    <3>1. PICK s : s = receipt'[g] /\ Creatable(s)'
      BY <1>3, <2>1
    <3>2. IsReceipt(s) /\ PoLines(s) \subseteq LinesOf(s.order)'
      BY <3>1 DEF Creatable
    <3>3. PoLines(receipt[g])' = PoLines(s) /\ LinesOf(receipt[g].order)' = LinesOf(s.order)'
      BY <3>1 DEF PoLines, LinesOf
    <3>4. QED
      BY <3>1, <3>2, <3>3
  <2>2. \A l \in Present' : order'[line'[l].order] # NoOrder
    BY <1>2
  <2>3. QED
    BY <1>1, <2>1, <2>2 DEF TypeOK
<1>5. Tables'
  BY <1>1 DEF Tables
<1>6. ASSUME NEW c \in Clients PROVE RequestOK(req[c])'
  <2>1. PICK r : r = req'[c] /\ RequestOK(r)
    BY DEF RequestsGrow
  <2>2. RequestOK(r)'
    BY <2>1, RequestStays
  <2>3. QED
    BY <2>1, <2>2 DEF RequestOK, OrderRequestOK, ReceiveRequestOK, ReceiptRequestOK
<1>7. ASSUME NEW g \in Receipts PROVE ReceiptOK(g)'
  <2>1. SUFFICES ASSUME receipt'[g] # NoReceipt PROVE ReceiptOK(g)'
    BY DEF ReceiptOK
  <2>2. PICK s : s = receipt'[g] /\ Creatable(s)'
    BY <1>3, <2>1
  <2>3. QED
    BY <2>2 DEF ReceiptOK, Creatable
<1>8. QED
  BY <1>4, <1>5, <1>6, <1>7 DEF Typed

\* One request goes on.
LEMMA OneRequest ==
    ASSUME Typed, NEW c \in Clients, NEW x, RequestOK(x), req' = [req EXCEPT ![c] = x]
    PROVE  RequestsGrow
<1>1. DOMAIN req = Clients /\ \A d \in Clients : RequestOK(req[d])
  BY DEF Typed, Tables
<1>2. DOMAIN req' = Clients /\ req'[c] = x /\ \A d \in Clients \ {c} : req'[d] = req[d]
  BY <1>1
<1>3. ASSUME NEW d \in Clients PROVE \E r : r = req'[d] /\ RequestOK(r)
  <2>1. CASE d = c
    BY <1>2, <2>1
  <2>2. CASE d # c
    <3>1. PICK r : r = req[d]
      OBVIOUS
    <3>2. RequestOK(r)
      BY <1>1, <3>1
    <3>3. QED
      BY <1>2, <2>2, <3>1, <3>2
  <2>3. QED
    BY <2>1, <2>2
<1>4. QED
  BY <1>2, <1>3 DEF RequestsGrow

\* A client without a request knows nothing that could be wrong.
LEMMA IdleOK == RequestOK(Idle)
BY DEF RequestOK, OrderRequestOK, ReceiveRequestOK, ReceiptRequestOK, Idle, EditKinds,
       WriteKinds, ReceiptKinds, ReceiptOps

\* A request ends.
LEMMA OneRequestEnds ==
    ASSUME Typed, NEW c \in Clients, req' = [req EXCEPT ![c] = Idle] PROVE RequestsGrow
BY IdleOK, OneRequest

\* A request about an order is about none else.
LEMMA OrderRequestIsOne ==
    ASSUME NEW r, r.kind \in EditKinds \cup WriteKinds, OrderRequestOK(r) PROVE RequestOK(r)
BY DEF RequestOK, ReceiveRequestOK, ReceiptRequestOK, EditKinds, WriteKinds, ReceiptKinds, ReceiptOps

\* A request about a receipt is about none else.
LEMMA ReceiptRequestIsOne ==
    ASSUME NEW r, r.kind \in ReceiptKinds, ReceiptRequestOK(r) PROVE RequestOK(r)
BY DEF RequestOK, OrderRequestOK, ReceiveRequestOK, EditKinds, WriteKinds, ReceiptKinds, ReceiptOps

\* The actions that change no row.
Quiet(c) ==
    \/ ReadOrder(c) \/ ReadLines(c) \/ DeleteLines(c) \/ ReadOrderToReceive(c)
    \/ ReadReceipt(c) \/ Increment(c) \/ Announce(c) \/ Fail(c)

\* They leave the tables alone.
LEMMA QuietEffect ==
    ASSUME NEW c \in Clients, Quiet(c)
    PROVE  UNCHANGED <<order, line, receipt, overtaken, outdated>>
BY DEF Quiet, ReadOrder, ReadLines, DeleteLines, ReadOrderToReceive, ReadReceipt, Increment,
       Announce, Fail

\* findOne, and the check of the status.
LEMMA ReadOrderRequest ==
    ASSUME Typed, NEW c \in Clients, ReadOrder(c) PROVE RequestsGrow
<1>1. PICK p \in Orders, op \in OrderOps :
        /\ order[p] # NoOrder /\ Accepts(op, p)
        /\ req' = [req EXCEPT ![c] = [kind |-> op, order |-> p, seen |-> Look(op, p)]]
  BY DEF ReadOrder
<1>2. PICK seen : seen = Look(op, p)
  OBVIOUS
<1>3. PICK x : x = [kind |-> op, order |-> p, seen |-> seen]
  OBVIOUS
<1>4. x.kind = op /\ x.order = p /\ x.seen = seen
  BY <1>3
<1>5. PICK from : from = order[p].status
  OBVIOUS
<1>6. seen.status = from /\ seen.lined = (op = "submit" => LinesOf(p) # {})
  BY <1>2, <1>5 DEF Look
<1>7. from \in OrderStatus
  BY <1>1, <1>5, OrderType DEF OrderRow
<1>8. /\ op = "submit" => from = "draft" /\ LinesOf(p) # {}
      /\ op = "approve" => from = "pending_approval"
      /\ op = "reject" => from = "pending_approval"
      /\ op = "cancel" => from \in {"draft", "pending_approval"}
      /\ op \in {"update", "addLine", "removeLine"} => from = "draft"
  <2>1. /\ "pending_approval" \in PO_STATUS_TRANSITIONS[from] => from = "draft"
        /\ "approved" \in PO_STATUS_TRANSITIONS[from] => from = "pending_approval"
        /\ "cancelled" \in PO_STATUS_TRANSITIONS[from] => from \in {"draft", "pending_approval"}
    BY <1>7 DEF OrderStatus, PO_STATUS_TRANSITIONS
  <2>2. CASE op = "submit"
    BY <1>1, <1>5, <2>1, <2>2 DEF Accepts
  <2>3. CASE op = "approve"
    BY <1>1, <1>5, <2>1, <2>3 DEF Accepts
  <2>4. CASE op = "reject"
    BY <1>1, <1>5, <2>1, <2>4 DEF Accepts
  <2>5. CASE op = "cancel"
    BY <1>1, <1>5, <2>1, <2>5 DEF Accepts
  <2>6. CASE op \in {"update", "addLine", "removeLine"}
    BY <1>1, <1>5, <2>1, <2>6 DEF Accepts
  <2>7. QED
    BY <2>2, <2>3, <2>4, <2>5, <2>6 DEF OrderOps
<1>9. seen.lined <=> (op = "submit" => LinesOf(p) # {})
  BY <1>6
<1>10. x.kind \in EditKinds \cup WriteKinds /\ op \notin {"total", "replace", "sum"}
  BY <1>4 DEF OrderOps, EditKinds, WriteKinds
<1>11. OrderRequestOK(x)
  BY <1>1, <1>4, <1>6, <1>8, <1>9, <1>10 DEF OrderRequestOK, EditKinds
<1>12. QED
  BY <1>1, <1>2, <1>3, <1>10, <1>11, OrderRequestIsOne, OneRequest

\* The lines of an order are rows.
LEMMA OrderLinesAreRows == ASSUME Typed, NEW p PROVE IsRows(OrderLines(p))
BY LineType DEF IsRows, OrderLines, LinesOf

\* Lines just read are still those of the order.
LEMMA LinesOfStill == ASSUME NEW p PROVE StillOf(p, LinesOf(p))
BY DEF StillOf, LinesOf, Present

\* The reads inside an edit of the lines.
LEMMA ReadLinesRequest ==
    ASSUME Typed, NEW c \in Clients, ReadLines(c) \/ DeleteLines(c) \/ Summing(c),
           req[c].kind \in EditKinds
    PROVE  RequestsGrow
<1>1. PICK r, p : r = req[c] /\ p = r.order
  OBVIOUS
<1>2. /\ p \in Orders /\ order[p] # NoOrder /\ r.seen.status = "draft"
  BY <1>1, OrderRequest, RowIsOrder DEF OrderRequestOK
<1>3. CASE ReadLines(c)
  <2>1. PICK from : from = OrderLines(p)
    OBVIOUS
  <2>2. PICK x : x = [kind |-> "total", order |-> p, seen |-> r.seen, from |-> from]
    OBVIOUS
  <2>3. req' = [req EXCEPT ![c] = x]
    BY <1>1, <1>3, <2>1, <2>2 DEF ReadLines
  <2>4. x.kind = "total" /\ x.order = p /\ x.seen = r.seen /\ x.from = from
    BY <2>2
  <2>5. IsRows(from)
    BY <2>1, OrderLinesAreRows
  <2>6. OrderRequestOK(x) /\ x.kind \in EditKinds
    BY <1>2, <2>4, <2>5 DEF OrderRequestOK, EditKinds
  <2>7. QED
    BY <2>3, <2>6, OrderRequestIsOne, OneRequest
<1>4. CASE DeleteLines(c)
  <2>1. PICK doomed : doomed = LinesOf(p)
    OBVIOUS
  <2>2. PICK x : x = [kind |-> "replace", order |-> p, seen |-> r.seen, doomed |-> doomed]
    OBVIOUS
  <2>3. req' = [req EXCEPT ![c] = x]
    BY <1>1, <1>4, <2>1, <2>2 DEF DeleteLines
  <2>4. x.kind = "replace" /\ x.order = p /\ x.seen = r.seen /\ x.doomed = doomed
    BY <2>2
  <2>5. StillOf(p, doomed)
    BY <2>1, LinesOfStill
  <2>6. OrderRequestOK(x) /\ x.kind \in EditKinds
    BY <1>2, <2>4, <2>5 DEF OrderRequestOK, EditKinds
  <2>7. QED
    BY <2>3, <2>6, OrderRequestIsOne, OneRequest
<1>5. CASE Summing(c)
  <2>1. PICK x : x = [kind |-> "sum", order |-> p, seen |-> r.seen]
    OBVIOUS
  <2>2. req' = [req EXCEPT ![c] = x]
    BY <1>1, <1>5, <2>1 DEF Summing
  <2>3. x.kind = "sum" /\ x.order = p /\ x.seen = r.seen
    BY <2>1
  <2>4. OrderRequestOK(x) /\ x.kind \in EditKinds
    BY <1>2, <2>3 DEF OrderRequestOK, EditKinds
  <2>5. QED
    BY <2>2, <2>4, OrderRequestIsOne, OneRequest
<1>6. QED
  BY <1>3, <1>4, <1>5

\* create of a receipt reads the order and its lines.
LEMMA ReadToReceiveRequest ==
    ASSUME Typed, NEW c \in Clients, ReadOrderToReceive(c) PROVE RequestsGrow
<1>1. PICK p \in Orders :
        /\ order[p].status \in {"approved", "partially_received"}
        /\ req' = [req EXCEPT ![c] = [kind |-> "receive", order |-> p, lines |-> LinesOf(p)]]
  BY DEF ReadOrderToReceive
<1>2. PICK lines : lines = LinesOf(p)
  OBVIOUS
<1>3. PICK x : x = [kind |-> "receive", order |-> p, lines |-> lines]
  OBVIOUS
<1>4. x.kind = "receive" /\ x.order = p /\ x.lines = lines
  BY <1>3
<1>5. StillOf(p, lines)
  BY <1>2, LinesOfStill
<1>6. order[p] # NoOrder /\ order[p].status \in Placed
  BY <1>1 DEF NoOrder, Placed
<1>7. RequestOK(x)
  BY <1>4, <1>5, <1>6 DEF RequestOK, OrderRequestOK, ReceiveRequestOK, ReceiptRequestOK,
     EditKinds, WriteKinds, ReceiptKinds, ReceiptOps
<1>8. QED
  BY <1>1, <1>2, <1>3, <1>7, OneRequest

\* findOne of a receipt, and the check of its status.
LEMMA ReadReceiptRequest ==
    ASSUME Typed, NEW c \in Clients, ReadReceipt(c) PROVE RequestsGrow
<1>1. PICK g \in Receipts, op \in ReceiptOps :
        /\ receipt[g] # NoReceipt
        /\ IF op = "edit" THEN Editable(g)
                          ELSE Target(op) \in GRN_STATUS_TRANSITIONS[receipt[g].status]
        /\ req' = [req EXCEPT ![c] = [kind |-> op, receipt |-> g, seen |-> receipt[g]]]
  BY DEF ReadReceipt
<1>2. PICK seen : seen = receipt[g]
  OBVIOUS
<1>3. PICK x : x = [kind |-> op, receipt |-> g, seen |-> seen]
  OBVIOUS
<1>4. x.kind = op /\ x.receipt = g /\ x.seen = seen
  BY <1>3
<1>5. IsReceipt(seen) /\ SameRefs(seen, receipt[g]) /\ seen.status \in ReceiptStatus
  BY <1>1, <1>2, ReceiptType DEF SameRefs, IsReceipt
<1>6. /\ op = "submitForQc" => seen.status = "draft"
      /\ op \in {"edit", "rejectReceipt"} => seen.status \in {"draft", "qc_pending"}
      /\ op = "approveReceipt" => seen.status = "qc_pending"
  <2>1. PICK s : s = seen.status
    OBVIOUS
  <2>2. /\ "qc_pending" \in GRN_STATUS_TRANSITIONS[s] => s = "draft"
        /\ "approved" \in GRN_STATUS_TRANSITIONS[s] => s = "qc_pending"
        /\ "rejected" \in GRN_STATUS_TRANSITIONS[s] => s \in {"draft", "qc_pending"}
    BY <1>5, <2>1 DEF ReceiptStatus, GRN_STATUS_TRANSITIONS
  <2>3. /\ op = "submitForQc" => "qc_pending" \in GRN_STATUS_TRANSITIONS[s]
        /\ op = "approveReceipt" => "approved" \in GRN_STATUS_TRANSITIONS[s]
        /\ op = "rejectReceipt" => "rejected" \in GRN_STATUS_TRANSITIONS[s]
    BY <1>1, <1>2, <2>1 DEF Target
  <2>4. op = "edit" => s \in {"draft", "qc_pending"}
    BY <1>1, <1>2, <2>1 DEF Editable
  <2>5. QED
    BY <2>1, <2>2, <2>3, <2>4
<1>7. ReceiptRequestOK(x) /\ x.kind \in ReceiptKinds
  BY <1>1, <1>4, <1>5, <1>6 DEF ReceiptRequestOK, ReceiptKinds, ReceiptOps
<1>8. QED
  BY <1>1, <1>2, <1>3, <1>7, ReceiptRequestIsOne, OneRequest

\* The lines after the increments, as the order of the receipt reads them.
LEMMA IncrementedIsAfter ==
    ASSUME NEW r PROVE Incremented(r) = After(OrderLines(r.order), r)
BY DEF Incremented, After, OrderLines

\* approve of a receipt reads the lines inside its transaction, and goes on with
\* the status they give.
LEMMA IncrementRequest ==
    ASSUME Typed, NEW c \in Clients, Increment(c)
    PROVE  /\ RequestsGrow
           /\ \E q, x, from : /\ q = req[c] /\ q.kind = "approveReceipt" /\ ~ Locked(c)
                        /\ from = OrderLines(q.seen.order)
                        /\ x = [kind |-> "book", receipt |-> q.receipt, seen |-> q.seen,
                                from |-> from, status |-> ReceivedStatus(After(from, q.seen))]
                        /\ req' = [req EXCEPT ![c] = x]
<1>1. PICK q : q = req[c]
  OBVIOUS
<1>2. q.kind = "approveReceipt" /\ ~ Locked(c)
  BY <1>1 DEF Increment
<1>3. /\ q.receipt \in Receipts /\ receipt[q.receipt] # NoReceipt /\ IsReceipt(q.seen)
      /\ SameRefs(q.seen, receipt[q.receipt]) /\ q.seen.status = "qc_pending"
  BY <1>1, <1>2, ReceiptRequest DEF ReceiptRequestOK, ReceiptKinds, ReceiptOps
<1>4. PICK from : from = OrderLines(q.seen.order)
  OBVIOUS
<1>5. PICK status : status = ReceivedStatus(After(from, q.seen))
  OBVIOUS
<1>6. PICK x : x = [kind |-> "book", receipt |-> q.receipt, seen |-> q.seen, from |-> from,
                    status |-> status]
  OBVIOUS
<1>7. ReceivedStatus(Incremented(q.seen)) = status
  BY <1>4, <1>5, IncrementedIsAfter
<1>8. req' = [req EXCEPT ![c] = x]
  BY <1>1, <1>4, <1>6, <1>7 DEF Increment
<1>9. /\ x.kind = "book" /\ x.receipt = q.receipt /\ x.seen = q.seen /\ x.from = from
      /\ x.status = status
  BY <1>6
<1>10. IsRows(from)
  BY <1>4, OrderLinesAreRows
<1>11. ReceiptRequestOK(x) /\ x.kind \in ReceiptKinds
  BY <1>3, <1>5, <1>9, <1>10 DEF ReceiptRequestOK, ReceiptKinds, ReceiptOps
<1>12. RequestsGrow
  BY <1>8, <1>11, ReceiptRequestIsOne, OneRequest
<1>13. QED
  BY <1>1, <1>2, <1>4, <1>5, <1>6, <1>8, <1>12

\* Announcing and failing end a request.
LEMMA QuietRequest ==
    ASSUME Typed, NEW c \in Clients, Quiet(c) PROVE RequestsGrow
<1>1. CASE ReadOrder(c)
  BY <1>1, ReadOrderRequest
<1>2. CASE ReadLines(c) \/ DeleteLines(c)
  BY <1>2, ReadLinesRequest DEF ReadLines, DeleteLines, EditKinds
<1>3. CASE ReadOrderToReceive(c)
  BY <1>3, ReadToReceiveRequest
<1>4. CASE ReadReceipt(c)
  BY <1>4, ReadReceiptRequest
<1>5. CASE Increment(c)
  BY <1>5, IncrementRequest
<1>6. CASE Announce(c) \/ Fail(c)
  BY <1>6, OneRequestEnds DEF Announce, Fail, End
<1>7. QED
  BY <1>1, <1>2, <1>3, <1>4, <1>5, <1>6 DEF Quiet

\* The actions, by what they write.
Writes(c) == Submit(c) \/ Approve(c) \/ Reject(c) \/ Cancel(c)
Edits(c) == InsertLine(c) \/ DeleteLine(c)
Grades(c) == EditLine(c) \/ SubmitForQc(c) \/ RejectReceipt(c)

\* Every step is one of these.
LEMMA Steps ==
    ASSUME [Next]_vars
    PROVE  \/ UNCHANGED vars
           \/ \E p \in Orders : CreateOrder(p)
           \/ \E c \in Clients :
                \/ Quiet(c) \/ Writes(c) \/ Edits(c) \/ WriteTotal(c) \/ ReplaceLines(c)
                \/ CreateReceipt(c) \/ Grades(c) \/ CommitReceipt(c)
BY DEF Next, Quiet, Writes, Edits, Grades

\* A step that changes nothing keeps Typed.
LEMMA StutterKeepsTyped == ASSUME Typed, UNCHANGED vars PROVE Typed'
<1>1. OrdersGrow /\ LinesGrow
  BY OrdersStay, LinesStay DEF vars
<1>2. ReceiptsGrow
  BY ReceiptsStay DEF vars, Typed, Tables
<1>3. RequestsGrow
  <2>1. DOMAIN req = Clients /\ \A c \in Clients : RequestOK(req[c])
    BY DEF Typed, Tables
  <2>2. ASSUME NEW c \in Clients PROVE \E r : r = req'[c] /\ RequestOK(r)
    <3>1. PICK r : r = req[c]
      OBVIOUS
    <3>2. RequestOK(r) /\ r = req'[c]
      BY <2>1, <3>1 DEF vars
    <3>3. QED
      BY <3>2
  <2>3. QED
    BY <2>1, <2>2 DEF RequestsGrow, vars
<1>4. unsummed' \subseteq Orders
  BY DEF vars, Typed, TypeOK
<1>5. QED
  BY <1>1, <1>2, <1>3, <1>4, GrowingKeepsTyped DEF Grows

\* unsummed stays a set of orders.
LEMMA UnsummedType ==
    ASSUME Typed, NEW c \in Clients, Quiet(c) PROVE unsummed' \subseteq Orders
<1>1. unsummed \subseteq Orders
  BY DEF Typed, TypeOK
<1>2. CASE Fail(c)
  <2>1. req[c].kind \in {"sum", "total"} => req[c].order \in Orders
    BY OrderRequest DEF EditKinds
  <2>2. QED
    BY <1>1, <1>2, <2>1 DEF Fail
<1>3. CASE ~ Fail(c)
  BY <1>1, <1>3 DEF Quiet, ReadOrder, ReadLines, DeleteLines, ReadOrderToReceive, ReadReceipt,
     Increment, Announce
<1>4. QED
  BY <1>2, <1>3

\* The log keeps one entry per receipt.
LEMMA AnnouncedDomain ==
    ASSUME Typed, NEW c \in Clients, Quiet(c) PROVE DOMAIN announced' = Receipts
<1>1. DOMAIN announced = Receipts
  BY DEF Typed, Tables
<1>2. QED
  BY <1>1 DEF Quiet, ReadOrder, ReadLines, DeleteLines, ReadOrderToReceive, ReadReceipt,
     Increment, Announce, Fail

\* The tables grow in each of the actions: first where they do not change,
LEMMA QuietGrows == ASSUME Typed, NEW c \in Clients, Quiet(c) PROVE Grows
BY QuietEffect, AnnouncedDomain, OrdersStay, LinesStay, ReceiptsStay DEF Grows

\* a new order with its lines,
LEMMA CreateOrderGrows ==
    ASSUME Typed, NEW p \in Orders, CreateOrder(p) PROVE Grows
<1>1. /\ order[p] = NoOrder /\ order' = [order EXCEPT ![p] = order'[p]]
      /\ order'[p] \in OrderRow
      /\ UNCHANGED <<receipt, req, announced, unsummed, overtaken, outdated>>
  BY CreateEffect
<1>2. PICK S \in SUBSET LineIds : \E body \in [S -> LineSpecs] :
        (\A l \in S : line[l] = Unused) /\ line' = Rewritten({}, S, p, body)
  BY CreateEffect
<1>3. PICK body \in [S -> LineSpecs] :
        (\A l \in S : line[l] = Unused) /\ line' = Rewritten({}, S, p, body)
  BY <1>2
<1>4. overtaken' = [overtaken EXCEPT ![p] = overtaken'[p]] /\ overtaken'[p] \in BOOLEAN
  BY <1>1 DEF Typed, TypeOK
<1>5. OrdersGrow
  BY <1>1, <1>4, OneOrderGrows
<1>6. order'[p] # NoOrder
  BY <1>1, RowIsOrder
<1>7. PICK D \in SUBSET LineIds : D = {}
  OBVIOUS
<1>8. LinesGrow
  BY <1>3, <1>6, <1>7, EditedLinesGrow
<1>9. ReceiptsGrow
  BY <1>1, ReceiptsStay DEF Typed, Tables
<1>10. QED
  BY <1>5, <1>8, <1>9 DEF Grows

\* a status written with its condition,
LEMMA WriteGrows ==
    ASSUME Typed, NEW c \in Clients, Writes(c) PROVE Grows
<1>1. PICK p : p = req[c].order
  OBVIOUS
<1>2. /\ p \in Orders /\ order[p] \in OrderRow
      /\ order' = [order EXCEPT ![p] = order'[p]]
      /\ order'[p] \in OrderRow
      /\ overtaken' = [overtaken EXCEPT ![p] = overtaken'[p]] /\ overtaken'[p] \in BOOLEAN
      /\ overtaken[p] => overtaken'[p]
      /\ UNCHANGED <<line, receipt, announced, unsummed, outdated>>
      /\ ~ overtaken'[p] => order[p].status \in {"draft", "pending_approval"}
  BY <1>1, WriteEffect DEF Writes
<1>3. OrdersGrow
  BY <1>2, OneOrderGrows DEF Placed
<1>4. QED
  BY <1>2, <1>3, LinesStay, ReceiptsStay DEF Grows, Typed, Tables

\* a line inserted or deleted,
LEMMA EditGrows ==
    ASSUME Typed, NEW c \in Clients, Edits(c) PROVE Grows
<1>1. UNCHANGED <<order, receipt, announced, unsummed, outdated>>
  BY EditEffect DEF Edits
<1>2. PICK q \in Orders, D \in SUBSET LineIds, S \in SUBSET LineIds :
        \E body \in [S -> LineSpecs] :
            /\ order[q] # NoOrder
            /\ \A l \in S : line[l] = Unused
            /\ \A l \in D : l \in LinesOf(q) /\ ~ Referenced(l)
            /\ line' = Rewritten(D, S, q, body)
            /\ overtaken' = [overtaken EXCEPT ![q] = overtaken'[q]]
            /\ overtaken'[q] \in BOOLEAN /\ (overtaken[q] => overtaken'[q])
  BY EditEffect DEF Edits
<1>3. PICK body \in [S -> LineSpecs] :
            /\ order[q] # NoOrder
            /\ \A l \in S : line[l] = Unused
            /\ \A l \in D : l \in LinesOf(q) /\ ~ Referenced(l)
            /\ line' = Rewritten(D, S, q, body)
            /\ overtaken' = [overtaken EXCEPT ![q] = overtaken'[q]]
            /\ overtaken'[q] \in BOOLEAN /\ (overtaken[q] => overtaken'[q])
  BY <1>2
<1>4. \A l \in D : line[l] # Unused
  BY <1>3 DEF LinesOf, Present
<1>5. LinesGrow
  BY <1>1, <1>3, <1>4, EditedLinesGrow
<1>6. order' = [order EXCEPT ![q] = order'[q]] /\ order'[q] \in OrderRow
  BY <1>1, <1>3, OrderType DEF Typed, TypeOK
<1>7. OrdersGrow
  BY <1>1, <1>3, <1>6, OneOrderGrows
<1>8. QED
  BY <1>1, <1>5, <1>7, ReceiptsStay DEF Grows, Typed, Tables

\* the total written after it,
LEMMA TotalGrows ==
    ASSUME Typed, NEW c \in Clients, WriteTotal(c) PROVE Grows
<1>1. PICK p : p = req[c].order
  OBVIOUS
<1>2. /\ p \in Orders /\ order[p] \in OrderRow
      /\ order' = [order EXCEPT ![p] = order'[p]]
      /\ order'[p] \in OrderRow /\ order'[p].status = order[p].status
      /\ overtaken' = [overtaken EXCEPT ![p] = overtaken'[p]] /\ overtaken'[p] \in BOOLEAN
      /\ overtaken[p] => overtaken'[p]
      /\ UNCHANGED <<line, receipt, announced, outdated>>
  BY <1>1, SumEffect
<1>3. OrdersGrow
  BY <1>2, OneOrderGrows
<1>4. QED
  BY <1>2, <1>3, LinesStay, ReceiptsStay DEF Grows, Typed, Tables

\* the lines of an order replaced,
LEMMA ReplaceGrows ==
    ASSUME Typed, NEW c \in Clients, ReplaceLines(c) PROVE Grows
<1>1. PICK p, D : p = req[c].order /\ D = req[c].doomed
  OBVIOUS
<1>2. /\ p \in Orders /\ order[p] \in OrderRow
      /\ order' = [order EXCEPT ![p] = order'[p]]
      /\ order'[p] \in OrderRow /\ order'[p].status = order[p].status
      /\ overtaken' = [overtaken EXCEPT ![p] = overtaken'[p]] /\ overtaken'[p] \in BOOLEAN
      /\ overtaken[p] => overtaken'[p]
      /\ UNCHANGED <<receipt, announced, outdated>>
      /\ D \in SUBSET LineIds
      /\ \A l \in D : line[l] # Unused /\ ~ Referenced(l)
  BY <1>1, ReplaceEffect
<1>3. PICK S \in SUBSET LineIds : \E body \in [S -> LineSpecs] :
        (\A l \in S : line[l] = Unused) /\ line' = Rewritten(D, S, p, body)
  BY <1>1, ReplacedLines
<1>4. PICK body \in [S -> LineSpecs] :
        (\A l \in S : line[l] = Unused) /\ line' = Rewritten(D, S, p, body)
  BY <1>3
<1>5. OrdersGrow
  BY <1>2, OneOrderGrows
<1>6. LinesGrow
  BY <1>2, <1>4, RowIsOrder, EditedLinesGrow
<1>7. QED
  BY <1>2, <1>5, <1>6, ReceiptsStay DEF Grows, Typed, Tables

\* a new receipt,
LEMMA CreateReceiptGrows ==
    ASSUME Typed, NEW c \in Clients, CreateReceipt(c) PROVE Grows
<1>1. UNCHANGED <<order, line, announced, unsummed, overtaken, outdated>>
  BY CreateReceiptEffect
<1>2. PICK g \in Receipts : \E row :
        receipt[g] = NoReceipt /\ receipt' = [receipt EXCEPT ![g] = row] /\ Creatable(row)
  BY CreateReceiptEffect DEF Creatable
<1>3. PICK row :
        receipt[g] = NoReceipt /\ receipt' = [receipt EXCEPT ![g] = row] /\ Creatable(row)
  BY <1>2
<1>4. DOMAIN receipt = Receipts /\ DOMAIN announced = Receipts /\ outdated \in [Receipts -> BOOLEAN]
  BY DEF Typed, TypeOK, Tables
<1>5. receipt'[g] = row /\ \A h \in Receipts : h # g => receipt'[h] = receipt[h]
  BY <1>3, <1>4
<1>6. ASSUME NEW h \in Receipts, receipt[h] # NoReceipt
      PROVE  receipt'[h] # NoReceipt /\ IsReceipt(receipt'[h]) /\ SameRefs(receipt'[h], receipt[h])
  BY <1>3, <1>5, <1>6, ReceiptType DEF SameRefs
<1>7. ASSUME NEW h \in Receipts, receipt[h] = NoReceipt, receipt'[h] # NoReceipt
      PROVE  \E r : r = receipt'[h] /\ Creatable(r)
  BY <1>3, <1>5, <1>7
<1>8. ReceiptsGrow
  BY <1>1, <1>3, <1>4, <1>6, <1>7 DEF ReceiptsGrow
<1>9. QED
  BY <1>1, <1>8, OrdersStay, LinesStay DEF Grows

\* the lines or the status of a receipt written,
LEMMA GradeGrows ==
    ASSUME Typed, NEW c \in Clients, Grades(c) PROVE Grows
<1>1. PICK g : g = req[c].receipt
  OBVIOUS
<1>2. /\ g \in Receipts /\ receipt[g] # NoReceipt
      /\ receipt' = [receipt EXCEPT ![g] = receipt'[g]]
      /\ IsReceipt(receipt'[g]) /\ SameRefs(receipt'[g], receipt[g])
      /\ outdated' = [outdated EXCEPT ![g] = outdated'[g]] /\ outdated'[g] \in BOOLEAN
      /\ outdated[g] => outdated'[g]
      /\ UNCHANGED <<order, line, announced, unsummed, overtaken>>
  BY <1>1, ReceiptEffect DEF Grades
<1>3. ReceiptsGrow
  BY <1>2, OneReceiptGrows
<1>4. QED
  BY <1>2, <1>3, OrdersStay, LinesStay DEF Grows

\* a receipt approved and booked on its order.
LEMMA CommitGrows ==
    ASSUME Typed, NEW c \in Clients, CommitReceipt(c) PROVE Grows
<1>1. PICK r, g, p : r = req[c].seen /\ g = req[c].receipt /\ p = r.order
  OBVIOUS
<1>2. /\ g \in Receipts /\ receipt[g] # NoReceipt
      /\ p \in Orders /\ order[p] \in OrderRow
      /\ order' = [order EXCEPT ![p] = order'[p]]
      /\ order'[p] \in OrderRow /\ order'[p].status \in Placed
      /\ overtaken' = [overtaken EXCEPT ![p] = overtaken'[p]] /\ overtaken'[p] \in BOOLEAN
      /\ overtaken[p] => overtaken'[p]
      /\ UNCHANGED <<announced, unsummed>>
  BY <1>1, CommitEffect
<1>3. /\ receipt' = [receipt EXCEPT ![g] = receipt'[g]] /\ IsReceipt(receipt'[g])
      /\ SameRefs(receipt'[g], receipt[g])
      /\ outdated' = [outdated EXCEPT ![g] = outdated'[g]] /\ outdated'[g] \in BOOLEAN
      /\ outdated[g] => outdated'[g]
  BY <1>1, CommitEffect
<1>4. /\ line' \in [LineIds -> LineRow \cup {Unused, Gone}]
      /\ \A l \in LineIds \ LinesOf(p) : line'[l] = line[l]
      /\ \A l \in LinesOf(p) : line'[l] \in LineRow /\ line'[l].order = line[l].order
  BY <1>1, CommitEffect
<1>5. OrdersGrow
  BY <1>2, OneOrderGrows
<1>6. LinesGrow
  <2>1. ASSUME NEW l \in LineIds PROVE line[l] = Gone => line'[l] = Gone
    BY <1>4 DEF LinesOf, Present
  <2>2. ASSUME NEW l \in LineIds
        PROVE  (l \in Present' <=> l \in Present) /\ (l \in Present => line'[l].order = line[l].order)
    <3>1. l \in Present' <=> line'[l] \notin {Unused, Gone}
      BY DEF Present
    <3>2. l \in Present <=> line[l] \notin {Unused, Gone}
      BY DEF Present
    <3>3. CASE l \in LinesOf(p)
      BY <1>4, <3>1, <3>3, NoLineAssumption DEF LinesOf
    <3>4. CASE l \notin LinesOf(p)
      BY <1>4, <3>1, <3>2, <3>4
    <3>5. QED
      BY <3>3, <3>4
  <2>3. Present \subseteq LineIds /\ Present' \subseteq LineIds
    BY DEF Present
  <2>4. QED
    BY <1>4, <2>1, <2>2, <2>3 DEF LinesGrow
<1>7. ReceiptsGrow
  BY <1>2, <1>3, OneReceiptGrows
<1>8. QED
  BY <1>5, <1>6, <1>7 DEF Grows

\* A step leads from a typed state to one, and takes no row away.
LEMMA StepGrows == ASSUME Typed, [Next]_vars PROVE Typed' /\ (~ UNCHANGED vars => Grows)
<1>1. unsummed \subseteq Orders
  BY DEF Typed, TypeOK
<1>2. ASSUME NEW p \in Orders, CreateOrder(p) PROVE Typed' /\ Grows
  <2>1. UNCHANGED <<req, unsummed>>
    BY <1>2 DEF CreateOrder
  <2>2. RequestsGrow
    <3>1. DOMAIN req = Clients /\ \A c \in Clients : RequestOK(req[c])
      BY DEF Typed, Tables
    <3>2. ASSUME NEW c \in Clients PROVE \E r : r = req'[c] /\ RequestOK(r)
      <4>1. PICK r : r = req[c]
        OBVIOUS
      <4>2. RequestOK(r) /\ r = req'[c]
        BY <2>1, <3>1, <4>1
      <4>3. QED
        BY <4>2
    <3>3. QED
      BY <2>1, <3>1, <3>2 DEF RequestsGrow
  <2>3. Grows
    BY <1>2, CreateOrderGrows
  <2>4. QED
    BY <1>1, <2>1, <2>2, <2>3, GrowingKeepsTyped
<1>3. ASSUME NEW c \in Clients, Quiet(c) PROVE Typed' /\ Grows
  BY <1>3, QuietGrows, QuietRequest, UnsummedType, GrowingKeepsTyped
<1>4. ASSUME NEW c \in Clients, Writes(c) PROVE Typed' /\ Grows
  <2>1. req' = [req EXCEPT ![c] = Idle] /\ UNCHANGED unsummed
    BY <1>4 DEF Writes, Submit, Approve, Reject, Cancel, WriteOrder, End
  <2>2. QED
    BY <1>1, <1>4, <2>1, WriteGrows, OneRequestEnds, GrowingKeepsTyped
<1>5. ASSUME NEW c \in Clients, Edits(c) PROVE Typed' /\ Grows
  <2>1. UNCHANGED unsummed /\ Summing(c) /\ req[c].kind \in EditKinds
    BY <1>5 DEF Edits, InsertLine, DeleteLine, EditKinds
  <2>2. QED
    BY <1>1, <1>5, <2>1, EditGrows, ReadLinesRequest, GrowingKeepsTyped
<1>6. ASSUME NEW c \in Clients, WriteTotal(c) \/ ReplaceLines(c) PROVE Typed' /\ Grows
  <2>1. req' = [req EXCEPT ![c] = Idle] /\ unsummed' = unsummed \ {req[c].order}
    BY <1>6 DEF WriteTotal, ReplaceLines, End
  <2>2. QED
    BY <1>1, <1>6, <2>1, TotalGrows, ReplaceGrows, OneRequestEnds, GrowingKeepsTyped
<1>7. ASSUME NEW c \in Clients, CreateReceipt(c) \/ Grades(c) PROVE Typed' /\ Grows
  <2>1. req' = [req EXCEPT ![c] = Idle] /\ UNCHANGED unsummed
    BY <1>7 DEF CreateReceipt, Grades, EditLine, SubmitForQc, RejectReceipt, WriteReceipt, End
  <2>2. QED
    BY <1>1, <1>7, <2>1, CreateReceiptGrows, GradeGrows, OneRequestEnds, GrowingKeepsTyped
<1>8. ASSUME NEW c \in Clients, CommitReceipt(c) PROVE Typed' /\ Grows
  <2>1. UNCHANGED unsummed
    BY <1>8 DEF CommitReceipt
  <2>2. RequestsGrow
    <3>1. PICK q : q = req[c]
      OBVIOUS
    <3>2. q.kind = "book"
      BY <1>8, <3>1 DEF CommitReceipt
    <3>3. PICK x : x = [kind |-> "announce", receipt |-> q.receipt, seen |-> q.seen]
      OBVIOUS
    <3>4. req' = [req EXCEPT ![c] = x]
      BY <1>8, <3>1, <3>3 DEF CommitReceipt
    <3>5. /\ q.receipt \in Receipts /\ receipt[q.receipt] # NoReceipt /\ IsReceipt(q.seen)
          /\ SameRefs(q.seen, receipt[q.receipt]) /\ q.seen.status = "qc_pending"
      BY <3>1, <3>2, ReceiptRequest DEF ReceiptRequestOK, ReceiptKinds
    <3>6. x.kind = "announce" /\ x.receipt = q.receipt /\ x.seen = q.seen
      BY <3>3
    <3>7. ReceiptRequestOK(x) /\ x.kind \in ReceiptKinds
      BY <3>5, <3>6 DEF ReceiptRequestOK, ReceiptKinds
    <3>8. QED
      BY <3>4, <3>7, ReceiptRequestIsOne, OneRequest
  <2>3. QED
    BY <1>1, <1>8, <2>1, <2>2, CommitGrows, GrowingKeepsTyped
<1>9. CASE UNCHANGED vars
  BY <1>9, StutterKeepsTyped
<1>10. QED
  BY <1>2, <1>3, <1>4, <1>5, <1>6, <1>7, <1>8, <1>9, Steps

\* The empty tables are of their types.
LEMMA InitTyped == Init => Typed
<1> SUFFICES ASSUME Init PROVE Typed
  OBVIOUS
<1>1. Present = {}
  BY DEF Init, Present
<1>2. TypeOK
  BY <1>1, NoLineAssumption DEF Init, TypeOK
<1>3. Tables
  BY DEF Init, Tables
<1>4. \A c \in Clients : RequestOK(req[c])
  <2>1. ASSUME NEW c \in Clients PROVE req[c] = Idle
    BY DEF Init
  <2>2. QED
    BY <2>1, IdleOK
<1>5. \A g \in Receipts : ReceiptOK(g)
  BY DEF Init, ReceiptOK
<1>6. QED
  BY <1>2, <1>3, <1>4, <1>5 DEF Typed

\* The inductive invariant: the tables are of their types, every line belongs to an
\* order and every receipt to lines of its order, and every request (create, update,
\* addLine, approve and the rest) still knows what findOne gave it, up to the writes
\* that it cannot have missed.
THEOREM TypedAlways == Spec => []Typed
<1>1. Typed /\ [Next]_vars => Typed'
  BY StepGrows
<1>2. QED
  BY <1>1, InitTyped, PTL DEF Spec

\* The rows have their types, and what refers to a row finds it: a receipt
\* line refers to a line of the order of the receipt, although lines are added
\* and removed between the check of a request and its write.
THEOREM TypeCorrect == Spec => []TypeOK
<1>1. Typed => TypeOK
  BY DEF Typed
<1>2. QED
  BY <1>1, TypedAlways, PTL

-----------------------------------------------------------------------------
\* The total of an order is the sum over its lines.

\* An order whose lines nobody writes has the lines it had.
LEMMA OrderLinesSame ==
    ASSUME NEW p, LinesOf(p)' = LinesOf(p), \A l \in LinesOf(p) : line'[l] = line[l]
    PROVE  OrderLines(p)' = OrderLines(p)
BY DEF OrderLines

\* Lines nobody writes are the lines they were.
LEMMA UnwrittenLines ==
    ASSUME NEW p, UNCHANGED line
    PROVE  LinesOf(p)' = LinesOf(p) /\ OrderLines(p)' = OrderLines(p)
BY DEF OrderLines, LinesOf, Present

\* Editing one order leaves the lines of the others.
LEMMA EditedOthers ==
    ASSUME Typed, NEW D \in SUBSET LineIds, NEW S \in SUBSET LineIds, NEW q \in Orders,
           NEW body \in [S -> LineSpecs], \A l \in S : line[l] = Unused,
           \A l \in D : line[l] = Gone \/ l \in LinesOf(q), line' = Rewritten(D, S, q, body),
           NEW p \in Orders, p # q
    PROVE  LinesOf(p)' = LinesOf(p) /\ OrderLines(p)' = OrderLines(p)
<1>1. \A l \in D : line[l] # Unused /\ l \notin LinesOf(p)
  BY NoLineAssumption DEF LinesOf, Present
<1>2. LinesOf(p)' = LinesOf(p)
  BY <1>1, EditedLinesOf
<1>3. \A l \in Present \ D : line'[l] = line[l]
  BY <1>1, EditedLines
<1>4. \A l \in LinesOf(p) : line'[l] = line[l]
  BY <1>1, <1>3 DEF LinesOf
<1>5. QED
  BY <1>2, <1>4, OrderLinesSame

\* All lines of an order are the ones created for it: they sum up to the bodies.
LEMMA CreatedAmount ==
    ASSUME Typed, NEW D \in SUBSET LineIds, NEW S \in SUBSET LineIds, NEW q \in Orders,
           NEW body \in [S -> LineSpecs], \A l \in S : line[l] = Unused,
           \A l \in D : line[l] # Unused, line' = Rewritten(D, S, q, body),
           LinesOf(q) \subseteq D
    PROVE  \E rows : rows = OrderLines(q)' /\ Amount(rows) = Amount(body)
<1>1. LinesOf(q)' = S
  <2>1. PICK p \in Orders : p = q
    OBVIOUS
  <2>2. LinesOf(p)' = (LinesOf(p) \ D) \cup (IF p = q THEN S ELSE {})
    BY EditedLinesOf
  <2>3. QED
    BY <2>1, <2>2
<1>2. \A l \in S : line'[l] = NewLine(q, body[l])
  BY EditedLines
<1>3. PICK rows : rows = OrderLines(q)'
  OBVIOUS
<1>4. DOMAIN rows = S /\ \A l \in S : rows[l] = NewLine(q, body[l])
  BY <1>1, <1>2, <1>3 DEF OrderLines
<1>5. ASSUME NEW l \in S PROVE rows[l].qty = body[l].qty /\ rows[l].price = body[l].price
  <2>1. PICK s : s = body[l]
    OBVIOUS
  <2>2. NewLine(q, s).qty = s.qty /\ NewLine(q, s).price = s.price
    BY DEF NewLine
  <2>3. QED
    BY <1>4, <2>1, <2>2
<1>6. Amount(rows) = Amount(body)
  <2>1. DOMAIN rows = DOMAIN body
    BY <1>4
  <2>2. QED
    BY <1>5, <2>1, AmountSame
<1>7. QED
  BY <1>3, <1>6

\* Approving a receipt changes no other order.
LEMMA CommitOthers ==
    ASSUME Typed, NEW c \in Clients, CommitReceipt(c), NEW q, q = req[c].seen.order,
           NEW p \in Orders, p # q
    PROVE  /\ order'[p] = order[p] /\ overtaken'[p] = overtaken[p]
           /\ LinesOf(p)' = LinesOf(p) /\ OrderLines(p)' = OrderLines(p)
<1>1. PICK r, g : r = req[c].seen /\ g = req[c].receipt
  OBVIOUS
<1>2. /\ q \in Orders /\ q = r.order /\ order' = [order EXCEPT ![q] = order'[q]]
      /\ overtaken' = [overtaken EXCEPT ![q] = overtaken'[q]]
      /\ \A l \in LineIds \ LinesOf(q) : line'[l] = line[l]
      /\ \A l \in LinesOf(q) : line'[l] \in LineRow /\ line'[l].order = line[l].order
  BY <1>1, CommitEffect
<1>3. order'[p] = order[p] /\ overtaken'[p] = overtaken[p]
  BY <1>2 DEF Typed, TypeOK
<1>4. Present' = {l \in LineIds : line'[l] \notin {Unused, Gone}}
  BY DEF Present
<1>5. LinesOf(p)' = {l \in Present' : line'[l].order = p}
  BY DEF LinesOf
<1>6. \A l \in LinesOf(p) : l \in LineIds /\ l \notin LinesOf(q) /\ line[l].order = p
  BY DEF LinesOf, Present
<1>7. \A l \in LinesOf(p) : line'[l] = line[l]
  BY <1>2, <1>6
<1>8. \A l \in LinesOf(p) : l \in LinesOf(p)'
  BY <1>4, <1>5, <1>6, <1>7 DEF LinesOf, Present
<1>9. ASSUME NEW l \in LinesOf(p)' PROVE l \in LinesOf(p)
  <2>1. l \in LineIds /\ line'[l] \notin {Unused, Gone} /\ line'[l].order = p
    BY <1>4, <1>5
  <2>2. l \notin LinesOf(q)
    <3>1. \A m \in LinesOf(q) : line[m].order = q
      BY DEF LinesOf
    <3>2. QED
      BY <1>2, <2>1, <3>1
  <2>3. QED
    BY <1>2, <2>1, <2>2 DEF LinesOf, Present
<1>10. LinesOf(p)' = LinesOf(p)
  BY <1>8, <1>9
<1>11. QED
  BY <1>3, <1>7, <1>10, OrderLinesSame

\* An edit that is no longer running has written its total or failed.
LEMMA EditingEnds ==
    ASSUME Typed, NEW c \in Clients, NEW x, req' = [req EXCEPT ![c] = x], NEW p, Editing(p)
    PROVE  Editing(p)' \/ (req[c].kind \in {"sum", "total"} /\ req[c].order = p)
<1>1. PICK d \in Clients : req[d].kind \in {"sum", "total"} /\ req[d].order = p
  BY DEF Editing
<1>2. CASE d = c
  BY <1>1, <1>2
<1>3. CASE d # c
  <2>1. req'[d] = req[d]
    BY <1>3 DEF Typed, Tables
  <2>2. QED
    BY <1>1, <2>1 DEF Editing
<1>4. QED
  BY <1>2, <1>3

\* The total of order p is the sum over its lines, if nobody edits them.
SumOK(p) ==
    order[p] # NoOrder /\ ~ Editing(p) /\ p \notin unsummed /\ ~ overtaken[p]
        => order[p].total = Amount(OrderLines(p))

\* A step that leaves the total and the lines of an order, and no edit of it,
\* unfinished.
LEMMA SumKept ==
    ASSUME NEW p \in Orders, SumOK(p),
           order'[p] # NoOrder => order[p] # NoOrder /\ order'[p].total = order[p].total,
           OrderLines(p)' = OrderLines(p), overtaken[p] => overtaken'[p],
           p \in unsummed => p \in unsummed',
           Editing(p) => Editing(p)' \/ p \in unsummed'
    PROVE  SumOK(p)'
<1>1. PICK rows : rows = OrderLines(p)
  OBVIOUS
<1>2. Amount(OrderLines(p)) = Amount(rows) /\ Amount(OrderLines(p))' = Amount(rows)
  BY <1>1 DEF Amount
<1>3. QED
  BY <1>2 DEF SumOK

\* The same for a step that writes the sum.
LEMMA SumWritten ==
    ASSUME NEW p, NEW rows, rows = OrderLines(p)', order'[p].total = Amount(rows)
    PROVE  SumOK(p)'
<1>1. Amount(OrderLines(p))' = Amount(rows)
  BY DEF Amount
<1>2. QED
  BY <1>1 DEF SumOK

\* The sum in each of the actions: where no row changes,
LEMMA QuietSum ==
    ASSUME Typed, NEW c \in Clients, Quiet(c), NEW p \in Orders, SumOK(p) PROVE SumOK(p)'
<1>1. UNCHANGED <<order, line, overtaken>>
  BY QuietEffect
<1>2. OrderLines(p)' = OrderLines(p)
  BY <1>1, UnwrittenLines
<1>3. \E x : req' = [req EXCEPT ![c] = x]
  BY DEF Quiet, ReadOrder, ReadLines, DeleteLines, ReadOrderToReceive, ReadReceipt,
         Increment, Announce, Fail, End
<1>4. PICK x : req' = [req EXCEPT ![c] = x]
  BY <1>3
<1>5. p \in unsummed => p \in unsummed'
  BY DEF Quiet, ReadOrder, ReadLines, DeleteLines, ReadOrderToReceive, ReadReceipt,
         Increment, Announce, Fail
<1>6. ASSUME req[c].kind \in {"sum", "total"}, req[c].order = p
      PROVE  Editing(p)' \/ p \in unsummed'
  <2>1. req[c] # Idle
    BY <1>6 DEF Idle
  <2>2. ReadLines(c) \/ Fail(c)
    BY <1>6, <2>1 DEF Quiet, ReadOrder, DeleteLines, ReadOrderToReceive, ReadReceipt,
       Increment, Announce
  <2>3. CASE ReadLines(c)
    <3>1. req'[c].kind = "total" /\ req'[c].order = p
      BY <1>6, <2>3 DEF ReadLines, Typed, Tables
    <3>2. QED
      BY <3>1 DEF Editing
  <2>4. CASE Fail(c)
    BY <1>6, <2>4 DEF Fail
  <2>5. QED
    BY <2>2, <2>3, <2>4
<1>7. Editing(p) => Editing(p)' \/ p \in unsummed'
  BY <1>4, <1>6, EditingEnds
<1>8. QED
  BY <1>1, <1>2, <1>5, <1>7, SumKept

\* a new order carries the sum of its lines,
LEMMA CreateOrderSum ==
    ASSUME Typed, NEW q \in Orders, CreateOrder(q), NEW p \in Orders, SumOK(p) PROVE SumOK(p)'
<1>1. /\ order[q] = NoOrder /\ order' = [order EXCEPT ![q] = order'[q]]
      /\ UNCHANGED <<receipt, req, announced, unsummed, overtaken, outdated>>
  BY CreateEffect
<1>2. PICK S \in SUBSET LineIds : \E body \in [S -> LineSpecs] :
        /\ \A l \in S : line[l] = Unused
        /\ line' = Rewritten({}, S, q, body)
        /\ order'[q].total = Amount(body)
  BY CreateEffect
<1>3. PICK body \in [S -> LineSpecs] :
        /\ \A l \in S : line[l] = Unused
        /\ line' = Rewritten({}, S, q, body)
        /\ order'[q].total = Amount(body)
  BY <1>2
<1>4. PICK D \in SUBSET LineIds : D = {}
  OBVIOUS
<1>5. line' = Rewritten(D, S, q, body)
  BY <1>3, <1>4
<1>6. CASE p = q
  <2>1. LinesOf(q) \subseteq D
    BY <1>1, LineType DEF LinesOf
  <2>2. PICK rows : rows = OrderLines(q)' /\ Amount(rows) = Amount(body)
    BY <1>3, <1>4, <1>5, <2>1, CreatedAmount
  <2>3. QED
    BY <1>3, <1>6, <2>2, SumWritten
<1>7. CASE p # q
  <2>1. OrderLines(p)' = OrderLines(p)
    BY <1>3, <1>4, <1>5, <1>7, EditedOthers
  <2>2. order'[p] = order[p]
    BY <1>1, <1>7 DEF Typed, TypeOK
  <2>3. Editing(p)' <=> Editing(p)
    BY <1>1 DEF Editing
  <2>4. QED
    BY <1>1, <2>1, <2>2, <2>3, SumKept
<1>8. QED
  BY <1>6, <1>7

\* An action of a request that edits nothing, and ends it or moves it on.
LEMMA OtherSum ==
    ASSUME Typed, NEW c \in Clients, NEW x, req' = [req EXCEPT ![c] = x],
           req[c].kind \notin {"sum", "total"}, UNCHANGED unsummed,
           NEW p \in Orders, SumOK(p), OrderLines(p)' = OrderLines(p),
           order'[p] # NoOrder => order[p] # NoOrder /\ order'[p].total = order[p].total,
           overtaken[p] => overtaken'[p]
    PROVE  SumOK(p)'
BY EditingEnds, SumKept

\* a status written leaves total and lines,
LEMMA WriteSum ==
    ASSUME Typed, NEW c \in Clients, Writes(c), NEW p \in Orders, SumOK(p) PROVE SumOK(p)'
<1>1. PICK q : q = req[c].order
  OBVIOUS
<1>2. /\ q \in Orders /\ order[q] \in OrderRow
      /\ order' = [order EXCEPT ![q] = order'[q]]
      /\ order'[q].total = order[q].total
      /\ overtaken' = [overtaken EXCEPT ![q] = overtaken'[q]]
      /\ overtaken[q] => overtaken'[q]
      /\ req' = [req EXCEPT ![c] = Idle]
      /\ UNCHANGED <<line, unsummed>>
  BY <1>1, WriteEffect DEF Writes
<1>3. order'[p] # NoOrder => order[p] # NoOrder /\ order'[p].total = order[p].total
  BY <1>2, RowIsOrder DEF Typed, TypeOK
<1>4. overtaken[p] => overtaken'[p]
  BY <1>2 DEF Typed, TypeOK
<1>5. OrderLines(p)' = OrderLines(p)
  BY <1>2, UnwrittenLines
<1>6. req[c].kind \notin {"sum", "total"}
  BY DEF Writes, Submit, Approve, Reject, Cancel
<1>7. QED
  BY <1>2, <1>3, <1>4, <1>5, <1>6, OtherSum

\* a line inserted or deleted leaves the order to be summed,
LEMMA EditSum ==
    ASSUME Typed, NEW c \in Clients, Edits(c), NEW p \in Orders, SumOK(p) PROVE SumOK(p)'
<1>1. /\ UNCHANGED <<order, unsummed>> /\ Summing(c)
      /\ req[c].kind \in {"addLine", "removeLine"} /\ req[c].order \in Orders
  BY EditEffect DEF Edits
<1>2. PICK q \in Orders, D \in SUBSET LineIds, S \in SUBSET LineIds :
      \E body \in [S -> LineSpecs] :
        /\ q = req[c].order \/ overtaken'[q]
        /\ \A l \in S : line[l] = Unused
        /\ \A l \in D : l \in LinesOf(q) /\ ~ Referenced(l)
        /\ line' = Rewritten(D, S, q, body)
        /\ overtaken' = [overtaken EXCEPT ![q] = overtaken'[q]]
        /\ overtaken[q] => overtaken'[q]
  BY EditEffect DEF Edits
<1>3. PICK body \in [S -> LineSpecs] :
        /\ q = req[c].order \/ overtaken'[q]
        /\ \A l \in S : line[l] = Unused
        /\ \A l \in D : l \in LinesOf(q) /\ ~ Referenced(l)
        /\ line' = Rewritten(D, S, q, body)
        /\ overtaken' = [overtaken EXCEPT ![q] = overtaken'[q]]
        /\ overtaken[q] => overtaken'[q]
  BY <1>2
<1>4. PICK x : x = [kind |-> "sum", order |-> req[c].order, seen |-> req[c].seen]
  OBVIOUS
<1>5. req' = [req EXCEPT ![c] = x]
  BY <1>1, <1>4 DEF Summing
<1>6. CASE p = q
  <2>1. CASE overtaken'[q]
    BY <1>6, <2>1 DEF SumOK
  <2>2. CASE q = req[c].order
    <3>1. req'[c] = x /\ x.kind = "sum" /\ x.order = q
      BY <1>4, <1>5, <2>2 DEF Typed, Tables
    <3>2. Editing(p)'
      BY <1>6, <3>1 DEF Editing
    <3>3. QED
      BY <3>2 DEF SumOK
  <2>3. QED
    BY <1>3, <2>1, <2>2
<1>7. CASE p # q
  <2>1. OrderLines(p)' = OrderLines(p)
    BY <1>3, <1>7, EditedOthers
  <2>2. overtaken[p] => overtaken'[p]
    BY <1>3, <1>7 DEF Typed, TypeOK
  <2>3. QED
    BY <1>1, <1>5, <2>1, <2>2, OtherSum
<1>8. QED
  BY <1>6, <1>7

\* the total is that of the lines read in the same transaction,
LEMMA TotalSum ==
    ASSUME Typed, NEW c \in Clients, WriteTotal(c), NEW p \in Orders, SumOK(p) PROVE SumOK(p)'
<1>1. PICK q, from : q = req[c].order /\ from = req[c].from
  OBVIOUS
<1>2. /\ q \in Orders /\ order[q] \in OrderRow
      /\ order' = [order EXCEPT ![q] = order'[q]]
      /\ order'[q].total = Amount(from)
      /\ overtaken' = [overtaken EXCEPT ![q] = overtaken'[q]]
      /\ ~ overtaken'[q] => OrderLines(q) = from
      /\ req' = [req EXCEPT ![c] = Idle] /\ unsummed' = unsummed \ {q}
      /\ UNCHANGED line
  BY <1>1, SumEffect
<1>3. OrderLines(p)' = OrderLines(p)
  BY <1>2, UnwrittenLines
<1>4. CASE p = q
  <2>1. CASE overtaken'[q]
    BY <1>4, <2>1 DEF SumOK
  <2>2. CASE ~ overtaken'[q]
    <3>1. from = OrderLines(p)'
      BY <1>2, <1>3, <1>4, <2>2
    <3>2. QED
      BY <1>2, <1>4, <3>1, SumWritten
  <2>3. QED
    BY <2>1, <2>2
<1>5. CASE p # q
  <2>1. order'[p] = order[p] /\ (overtaken[p] => overtaken'[p])
    BY <1>2, <1>5 DEF Typed, TypeOK
  <2>2. Editing(p) => Editing(p)'
    BY <1>1, <1>2, <1>5, EditingEnds
  <2>3. p \in unsummed => p \in unsummed'
    BY <1>2, <1>5
  <2>4. QED
    BY <1>3, <2>1, <2>2, <2>3, SumKept
<1>6. QED
  BY <1>4, <1>5

\* lines replaced come with their total,
LEMMA ReplaceSum ==
    ASSUME Typed, NEW c \in Clients, ReplaceLines(c), NEW p \in Orders, SumOK(p) PROVE SumOK(p)'
<1>1. PICK q, D : q = req[c].order /\ D = req[c].doomed
  OBVIOUS
<1>2. /\ q \in Orders /\ order[q] \in OrderRow
      /\ order' = [order EXCEPT ![q] = order'[q]]
      /\ overtaken' = [overtaken EXCEPT ![q] = overtaken'[q]]
      /\ ~ overtaken'[q] => LinesOf(q) \subseteq D
      /\ req' = [req EXCEPT ![c] = Idle] /\ unsummed' = unsummed \ {q}
      /\ D \in SUBSET LineIds
      /\ \A l \in D : (line[l] = Gone \/ l \in LinesOf(q)) /\ line[l] # Unused
  BY <1>1, ReplaceEffect
<1>3. PICK S \in SUBSET LineIds : \E body \in [S -> LineSpecs] :
        /\ \A l \in S : line[l] = Unused
        /\ line' = Rewritten(D, S, q, body)
        /\ order'[q].total = Amount(body)
  BY <1>1, ReplacedLines
<1>4. PICK body \in [S -> LineSpecs] :
        /\ \A l \in S : line[l] = Unused
        /\ line' = Rewritten(D, S, q, body)
        /\ order'[q].total = Amount(body)
  BY <1>3
<1>5. CASE p = q
  <2>1. CASE overtaken'[q]
    BY <1>5, <2>1 DEF SumOK
  <2>2. CASE ~ overtaken'[q]
    <3>1. LinesOf(q) \subseteq D
      BY <1>2, <2>2
    <3>2. PICK rows : rows = OrderLines(q)' /\ Amount(rows) = Amount(body)
      BY <1>2, <1>4, <3>1, CreatedAmount
    <3>3. QED
      BY <1>4, <1>5, <3>2, SumWritten
  <2>3. QED
    BY <2>1, <2>2
<1>6. CASE p # q
  <2>1. order'[p] = order[p] /\ (overtaken[p] => overtaken'[p])
    BY <1>2, <1>6 DEF Typed, TypeOK
  <2>2. Editing(p) => Editing(p)'
    BY <1>1, <1>2, <1>6, EditingEnds
  <2>3. p \in unsummed => p \in unsummed'
    BY <1>2, <1>6
  <2>4. OrderLines(p)' = OrderLines(p)
    <3>1. \A l \in D : line[l] = Gone \/ l \in LinesOf(q)
      BY <1>2
    <3>2. QED
      BY <1>2, <1>4, <1>6, <3>1, EditedOthers
  <2>5. QED
    BY <2>1, <2>2, <2>3, <2>4, SumKept
<1>7. QED
  BY <1>5, <1>6

\* a receipt leaves the orders,
LEMMA ReceiptSum ==
    ASSUME Typed, NEW c \in Clients, CreateReceipt(c) \/ Grades(c), NEW p \in Orders, SumOK(p)
    PROVE  SumOK(p)'
<1>1. req' = [req EXCEPT ![c] = Idle] /\ UNCHANGED <<order, line, overtaken, unsummed>>
  BY DEF CreateReceipt, Grades, EditLine, SubmitForQc, RejectReceipt, WriteReceipt, End
<1>2. req[c].kind \notin {"sum", "total"}
  BY DEF CreateReceipt, Grades, EditLine, SubmitForQc, RejectReceipt, WriteReceipt
<1>3. OrderLines(p)' = OrderLines(p)
  BY <1>1, UnwrittenLines
<1>4. QED
  BY <1>1, <1>2, <1>3, OtherSum

\* The amount does not depend on what was received.
LEMMA AfterAmount ==
    ASSUME NEW rows, IsRows(rows), NEW r PROVE Amount(After(rows, r)) = Amount(rows)
<1>1. ASSUME NEW l \in DOMAIN rows
      PROVE  After(rows, r)[l].qty = rows[l].qty /\ After(rows, r)[l].price = rows[l].price
  <2>1. PICK row, n : /\ row \in LineRow /\ row = rows[l]
                      /\ n = rows[l].received + Accepted(r, l)
    BY DEF IsRows
  <2>2. After(rows, r)[l] = [row EXCEPT !.received = n]
    BY <2>1 DEF After
  <2>3. QED
    BY <2>1, <2>2 DEF LineRow
<1>2. DOMAIN After(rows, r) = DOMAIN rows
  BY DEF After
<1>3. PICK lines : lines = After(rows, r)
  OBVIOUS
<1>4. QED
  BY <1>1, <1>2, <1>3, AmountSame

\* and a receipt approved writes no quantity and no price.
LEMMA CommitSum ==
    ASSUME Typed, NEW c \in Clients, CommitReceipt(c), NEW p \in Orders, SumOK(p) PROVE SumOK(p)'
<1>1. PICK r, g, q : r = req[c].seen /\ g = req[c].receipt /\ q = r.order
  OBVIOUS
<1>2. /\ q \in Orders /\ order[q] \in OrderRow /\ order'[q].total = order[q].total
      /\ overtaken[q] => overtaken'[q]
      /\ OrderLines(q)' = After(OrderLines(q), r)
      /\ req' = [req EXCEPT ![c] = [kind |-> "announce", receipt |-> g, seen |-> r]]
      /\ UNCHANGED unsummed
  BY <1>1, CommitEffect
<1>3. req[c].kind \notin {"sum", "total"}
  BY DEF CommitReceipt
<1>4. PICK x : x = [kind |-> "announce", receipt |-> g, seen |-> r]
  OBVIOUS
<1>5. req' = [req EXCEPT ![c] = x]
  BY <1>2, <1>4
<1>6. CASE p # q
  <2>1. order'[p] = order[p] /\ overtaken'[p] = overtaken[p] /\ OrderLines(p)' = OrderLines(p)
    BY <1>1, <1>6, CommitOthers
  <2>2. QED
    BY <1>2, <1>3, <1>5, <2>1, OtherSum
<1>7. CASE p = q
  <2>1. SUFFICES ASSUME ~ Editing(p)', p \notin unsummed', ~ overtaken'[p]
                 PROVE  SumOK(p)'
    BY DEF SumOK
  <2>2. ~ Editing(p) /\ p \notin unsummed /\ ~ overtaken[p] /\ order[p] # NoOrder
    BY <1>2, <1>3, <1>5, <1>7, <2>1, EditingEnds, RowIsOrder
  <2>3. PICK rows : rows = OrderLines(p)
    OBVIOUS
  <2>4. order[p].total = Amount(rows)
    BY <2>2, <2>3 DEF SumOK
  <2>5. IsRows(rows)
    BY <2>3, OrderLinesAreRows
  <2>6. PICK lines : lines = After(rows, r)
    OBVIOUS
  <2>7. lines = OrderLines(p)' /\ Amount(lines) = Amount(rows)
    BY <1>2, <1>7, <2>3, <2>5, <2>6, AfterAmount
  <2>8. order'[p].total = Amount(lines)
    BY <1>2, <1>7, <2>4, <2>7
  <2>9. QED
    BY <2>7, <2>8, SumWritten
<1>8. QED
  BY <1>6, <1>7

\* The total of an order is the sum over its lines whenever no edit of its
\* lines is running, ended halfway or wrote over what it had not seen.
THEOREM TotalIsSumSafe == Spec => []TotalIsSum
<1>1. TotalIsSum <=> \A p \in Orders : SumOK(p)
  BY DEF TotalIsSum, SumOK
<1>2. Init => TotalIsSum
  BY DEF Init, TotalIsSum
<1>3. ASSUME Typed, TotalIsSum, [Next]_vars PROVE TotalIsSum'
  <2>1. ASSUME NEW p \in Orders PROVE SumOK(p)'
    <3>1. SumOK(p)
      BY <1>1, <1>3
    <3>2. CASE UNCHANGED vars
      <4>1. UNCHANGED <<order, line, req, overtaken, unsummed>>
        BY <3>2 DEF vars
      <4>2. OrderLines(p)' = OrderLines(p) /\ (Editing(p)' <=> Editing(p))
        BY <4>1, UnwrittenLines DEF Editing
      <4>3. QED
        BY <3>1, <4>1, <4>2, SumKept
    <3>3. CASE \E q \in Orders : CreateOrder(q)
      BY <1>3, <3>1, <3>3, CreateOrderSum
    <3>4. ASSUME NEW c \in Clients,
                 \/ Quiet(c) \/ Writes(c) \/ Edits(c) \/ WriteTotal(c) \/ ReplaceLines(c)
                 \/ CreateReceipt(c) \/ Grades(c) \/ CommitReceipt(c)
          PROVE  SumOK(p)'
      BY <1>3, <3>1, <3>4, QuietSum, WriteSum, EditSum, TotalSum, ReplaceSum, ReceiptSum, CommitSum
    <3>5. QED
      BY <1>3, <3>2, <3>3, <3>4, Steps
  <2>2. QED
    BY <2>1 DEF TotalIsSum, SumOK
<1>4. QED
  BY <1>2, <1>3, TypedAlways, PTL DEF Spec

-----------------------------------------------------------------------------
\* What a step does to an order that no request writes over.

\* Nothing happens to the order.
Untouched(p) == order'[p] = order[p] /\ OrderLines(p)' = OrderLines(p)

\* It is submitted, approved, rejected or cancelled.
Written(p) ==
    /\ order'[p].total = order[p].total /\ OrderLines(p)' = OrderLines(p)
    /\ LinesOf(p)' = LinesOf(p)
    /\ \/ /\ order[p].status = "draft" /\ order'[p].status = "pending_approval"
          /\ order'[p].role = ApproverRole(order[p].total) /\ LinesOf(p) # {}
       \/ /\ order[p].status = "pending_approval"
          /\ order'[p].status \in {"approved", "draft", "cancelled"}
          /\ order'[p].status = "approved" => order'[p].role = order[p].role
       \/ order[p].status = "draft" /\ order'[p].status = "cancelled"

\* Its lines or its total are edited.
Edited(p) ==
    /\ order[p].status = "draft" /\ order'[p].status = "draft"
    /\ \A l \in LinesOf(p)' :
          (l \in LinesOf(p) /\ line'[l] = line[l]) \/ line'[l].received = 0

\* A receipt of it is approved.
Received(p) ==
    /\ order[p].status \in Placed /\ order'[p].status \in Placed
    /\ order'[p].total = order[p].total /\ order'[p].role = order[p].role
    /\ \E r, rows : /\ IsReceipt(r) /\ Numbered(r) /\ rows = OrderLines(p)
                    /\ OrderLines(p)' = After(rows, r)
                    /\ order'[p].status = ReceivedStatus(After(rows, r))

\* What each action does to one order: a new one leaves the others,
LEMMA CreateOrderStep ==
    ASSUME Typed, NEW q \in Orders, CreateOrder(q), NEW p \in Orders, order[p] # NoOrder
    PROVE  Untouched(p)
<1>1. /\ order[q] = NoOrder /\ order' = [order EXCEPT ![q] = order'[q]]
  BY CreateEffect
<1>2. PICK S \in SUBSET LineIds : \E body \in [S -> LineSpecs] :
        (\A l \in S : line[l] = Unused) /\ line' = Rewritten({}, S, q, body)
  BY CreateEffect
<1>3. PICK body \in [S -> LineSpecs] :
        (\A l \in S : line[l] = Unused) /\ line' = Rewritten({}, S, q, body)
  BY <1>2
<1>4. PICK D \in SUBSET LineIds : D = {}
  OBVIOUS
<1>5. p # q
  BY <1>1
<1>6. OrderLines(p)' = OrderLines(p)
  BY <1>3, <1>4, <1>5, EditedOthers
<1>7. order'[p] = order[p]
  BY <1>1, <1>5 DEF Typed, TypeOK
<1>8. QED
  BY <1>6, <1>7 DEF Untouched

\* a status is written along PO_STATUS_TRANSITIONS,
LEMMA WriteStep ==
    ASSUME Typed, NEW c \in Clients, Writes(c), NEW p \in Orders, ~ overtaken'[p]
    PROVE  Untouched(p) \/ Written(p)
<1>1. PICK q : q = req[c].order
  OBVIOUS
<1>2. /\ q \in Orders /\ order' = [order EXCEPT ![q] = order'[q]]
      /\ order'[q].total = order[q].total /\ UNCHANGED line
  BY <1>1, WriteEffect DEF Writes
<1>3. OrderLines(p)' = OrderLines(p) /\ LinesOf(p)' = LinesOf(p)
  BY <1>2, UnwrittenLines
<1>4. CASE p # q
  BY <1>2, <1>3, <1>4 DEF Untouched, Typed, TypeOK
<1>5. CASE p = q
  <2>1. \/ /\ order[q].status = "draft" /\ order'[q].status = "pending_approval"
           /\ order'[q].role = ApproverRole(order[q].total) /\ LinesOf(q) # {}
        \/ /\ order[q].status = "pending_approval"
           /\ order'[q].status \in {"approved", "draft", "cancelled"}
           /\ order'[q].status = "approved" => order'[q].role = order[q].role
        \/ order[q].status = "draft" /\ order'[q].status = "cancelled"
    BY <1>1, <1>5, WriteEffect DEF Writes
  <2>2. QED
    BY <1>2, <1>3, <1>5, <2>1 DEF Written
<1>6. QED
  BY <1>4, <1>5

\* The lines of an order of which some were created and some deleted.
LEMMA EditedLinesZero ==
    ASSUME Typed, NEW D \in SUBSET LineIds, NEW S \in SUBSET LineIds, NEW q \in Orders,
           NEW body \in [S -> LineSpecs], \A l \in S : line[l] = Unused,
           \A l \in D : line[l] # Unused, line' = Rewritten(D, S, q, body),
           NEW p \in Orders
    PROVE  \A l \in LinesOf(p)' :
              (l \in LinesOf(p) /\ line'[l] = line[l]) \/ line'[l].received = 0
<1>1. LinesOf(p)' = (LinesOf(p) \ D) \cup (IF p = q THEN S ELSE {})
  BY EditedLinesOf
<1>2. \A l \in Present \ D : line'[l] = line[l]
  BY EditedLines
<1>3. ASSUME NEW l \in S PROVE line'[l].received = 0
  <2>1. line'[l] = NewLine(q, body[l])
    BY EditedLines
  <2>2. PICK s : s = body[l]
    OBVIOUS
  <2>3. NewLine(q, s).received = 0
    BY DEF NewLine
  <2>4. QED
    BY <2>1, <2>2, <2>3
<1>4. \A l \in LinesOf(p) : l \in Present
  BY DEF LinesOf
<1>5. QED
  BY <1>1, <1>2, <1>3, <1>4

\* lines change in a draft,
LEMMA EditStep ==
    ASSUME Typed, NEW c \in Clients, Edits(c), NEW p \in Orders, ~ overtaken'[p]
    PROVE  Untouched(p) \/ Edited(p)
<1>1. UNCHANGED order
  BY EditEffect DEF Edits
<1>2. PICK q \in Orders, D \in SUBSET LineIds, S \in SUBSET LineIds :
      \E body \in [S -> LineSpecs] :
        /\ \A l \in S : line[l] = Unused
        /\ \A l \in D : l \in LinesOf(q) /\ ~ Referenced(l)
        /\ line' = Rewritten(D, S, q, body)
        /\ ~ overtaken'[q] => order[q].status = "draft"
  BY EditEffect DEF Edits
<1>3. PICK body \in [S -> LineSpecs] :
        /\ \A l \in S : line[l] = Unused
        /\ \A l \in D : l \in LinesOf(q) /\ ~ Referenced(l)
        /\ line' = Rewritten(D, S, q, body)
        /\ ~ overtaken'[q] => order[q].status = "draft"
  BY <1>2
<1>4. /\ \A l \in D : line[l] # Unused
      /\ \A l \in D : line[l] = Gone \/ l \in LinesOf(q)
  BY <1>3 DEF LinesOf, Present
<1>5. CASE p = q
  <2>1. \A l \in LinesOf(p)' :
           (l \in LinesOf(p) /\ line'[l] = line[l]) \/ line'[l].received = 0
    BY <1>3, <1>4, EditedLinesZero
  <2>2. QED
    BY <1>1, <1>3, <1>5, <2>1 DEF Edited
<1>6. CASE p # q
  <2>1. OrderLines(p)' = OrderLines(p)
    <3>1. /\ Typed /\ p # q
          /\ \A l \in S : line[l] = Unused
          /\ \A l \in D : line[l] = Gone \/ l \in LinesOf(q)
          /\ line' = Rewritten(D, S, q, body)
      BY <1>3, <1>4, <1>6
    <3>2. QED
      BY ONLY <3>1, EditedOthers
  <2>2. QED
    BY <1>1, <2>1 DEF Untouched
<1>7. QED
  BY <1>5, <1>6

\* a total is written to a draft,
LEMMA TotalStep ==
    ASSUME Typed, NEW c \in Clients, WriteTotal(c), NEW p \in Orders, ~ overtaken'[p]
    PROVE  Untouched(p) \/ Edited(p)
<1>1. PICK q : q = req[c].order
  OBVIOUS
<1>2. /\ q \in Orders /\ order' = [order EXCEPT ![q] = order'[q]]
      /\ order'[q].status = order[q].status
      /\ ~ overtaken'[q] => order[q].status = "draft"
      /\ UNCHANGED line
  BY <1>1, SumEffect
<1>3. OrderLines(p)' = OrderLines(p) /\ LinesOf(p)' = LinesOf(p)
  BY <1>2, UnwrittenLines
<1>4. CASE p # q
  BY <1>2, <1>3, <1>4 DEF Untouched, Typed, TypeOK
<1>5. CASE p = q
  BY <1>2, <1>3, <1>5 DEF Edited
<1>6. QED
  BY <1>4, <1>5

\* lines are replaced in a draft,
LEMMA ReplaceStep ==
    ASSUME Typed, NEW c \in Clients, ReplaceLines(c), NEW p \in Orders, ~ overtaken'[p]
    PROVE  Untouched(p) \/ Edited(p)
<1>1. PICK q, D : q = req[c].order /\ D = req[c].doomed
  OBVIOUS
<1>2. /\ q \in Orders /\ order' = [order EXCEPT ![q] = order'[q]]
      /\ order'[q].status = order[q].status
      /\ ~ overtaken'[q] => order[q].status = "draft"
      /\ D \in SUBSET LineIds
      /\ \A l \in D : (line[l] = Gone \/ l \in LinesOf(q)) /\ line[l] # Unused
  BY <1>1, ReplaceEffect
<1>3. PICK S \in SUBSET LineIds : \E body \in [S -> LineSpecs] :
        (\A l \in S : line[l] = Unused) /\ line' = Rewritten(D, S, q, body)
  BY <1>1, ReplacedLines
<1>4. PICK body \in [S -> LineSpecs] :
        (\A l \in S : line[l] = Unused) /\ line' = Rewritten(D, S, q, body)
  BY <1>3
<1>5. (\A l \in D : line[l] = Gone \/ l \in LinesOf(q)) /\ \A l \in D : line[l] # Unused
  BY <1>2
<1>6. CASE p = q
  <2>1. \A l \in LinesOf(p)' :
           (l \in LinesOf(p) /\ line'[l] = line[l]) \/ line'[l].received = 0
    BY <1>2, <1>4, <1>5, EditedLinesZero
  <2>2. QED
    BY <1>2, <1>6, <2>1 DEF Edited
<1>7. CASE p # q
  <2>1. OrderLines(p)' = OrderLines(p)
    BY <1>2, <1>4, <1>5, <1>7, EditedOthers
  <2>2. order'[p] = order[p]
    BY <1>2, <1>7 DEF Typed, TypeOK
  <2>3. QED
    BY <2>1, <2>2 DEF Untouched
<1>8. QED
  BY <1>6, <1>7

\* and a receipt is booked on an order that was placed.
LEMMA CommitStep ==
    ASSUME Typed, NEW c \in Clients, CommitReceipt(c), NEW p \in Orders, ~ overtaken'[p]
    PROVE  Untouched(p) \/ Received(p)
<1>1. PICK r, g, q : r = req[c].seen /\ g = req[c].receipt /\ q = r.order
  OBVIOUS
<1>2. CASE p # q
  BY <1>1, <1>2, CommitOthers DEF Untouched
<1>3. CASE p = q
  <2>1. /\ g \in Receipts /\ receipt[g] # NoReceipt /\ IsReceipt(r) /\ q = receipt[g].order
        /\ order'[q].total = order[q].total /\ order'[q].role = order[q].role
        /\ order'[q].status = req[c].status /\ order'[q].status \in Placed
        /\ overtaken[q] => overtaken'[q]
        /\ ~ overtaken'[q] => OrderLines(q) = req[c].from
        /\ OrderLines(q)' = After(OrderLines(q), r)
    BY <1>1, CommitEffect
  <2>2. PICK rows : rows = OrderLines(q)
    OBVIOUS
  <2>3. req[c].kind = "book"
    BY DEF CommitReceipt
  <2>4. Numbered(r) /\ req[c].status = ReceivedStatus(After(req[c].from, req[c].seen))
    BY <1>1, <2>3, ReceiptRequest DEF ReceiptRequestOK, ReceiptKinds
  <2>5. order'[q].status = ReceivedStatus(After(rows, r))
    BY <1>1, <1>3, <2>1, <2>2, <2>4
  <2>6. order[q].status \in Placed
    BY <1>3, <2>1 DEF Typed, ReceiptOK
  <2>7. QED
    BY <1>3, <2>1, <2>2, <2>4, <2>5, <2>6 DEF Received
<1>4. QED
  BY <1>2, <1>3

\* An order that exists and is not written over.
LEMMA OrderStep ==
    ASSUME Typed, [Next]_vars, NEW p \in Orders, order[p] # NoOrder, ~ overtaken'[p]
    PROVE  /\ ~ overtaken[p]
           /\ Untouched(p) \/ Written(p) \/ Edited(p) \/ Received(p)
<1>1. ~ overtaken[p]
  <2>1. CASE UNCHANGED vars
    BY <2>1 DEF vars
  <2>2. CASE ~ UNCHANGED vars
    BY <2>2, StepGrows DEF Grows, OrdersGrow
  <2>3. QED
    BY <2>1, <2>2
<1>2. ASSUME UNCHANGED <<order, line>> PROVE Untouched(p)
  BY <1>2, UnwrittenLines DEF Untouched
<1>3. CASE UNCHANGED vars
  BY <1>1, <1>2, <1>3 DEF vars
<1>4. ASSUME NEW c \in Clients, Quiet(c) \/ CreateReceipt(c) \/ Grades(c)
      PROVE  UNCHANGED <<order, line>>
  BY <1>4, QuietEffect DEF CreateReceipt, Grades, EditLine, SubmitForQc, RejectReceipt, WriteReceipt
<1>5. QED
  BY <1>1, <1>2, <1>3, <1>4, Steps, CreateOrderStep, WriteStep, EditStep, TotalStep, ReplaceStep,
     CommitStep

\* An order that did not exist is created as a draft of which nothing was received.
LEMMA OrderNew ==
    ASSUME Typed, [Next]_vars, NEW p \in Orders, order[p] = NoOrder, order'[p] # NoOrder
    PROVE  order'[p].status = "draft" /\ \A l \in LinesOf(p)' : line'[l].received = 0
<1>1. CASE CreateOrder(p)
  <2>1. order'[p].status = "draft"
    BY <1>1, CreateEffect
  <2>2. PICK S \in SUBSET LineIds : \E body \in [S -> LineSpecs] :
          (\A l \in S : line[l] = Unused) /\ line' = Rewritten({}, S, p, body)
    BY <1>1, CreateEffect
  <2>3. PICK body \in [S -> LineSpecs] :
          (\A l \in S : line[l] = Unused) /\ line' = Rewritten({}, S, p, body)
    BY <2>2
  <2>4. PICK D \in SUBSET LineIds : D = {}
    OBVIOUS
  <2>5. LinesOf(p) = {}
    BY LineType DEF LinesOf
  <2>6. QED
    BY <2>1, <2>3, <2>4, <2>5, EditedLinesZero
<1>2. ASSUME NEW q \in Orders, CreateOrder(q), q # p PROVE order'[p] = order[p]
  BY <1>2, CreateEffect DEF Typed, TypeOK
<1>3. ASSUME NEW q \in Orders, order[q] # NoOrder, order' = [order EXCEPT ![q] = order'[q]]
      PROVE  order'[p] = order[p]
  BY <1>3 DEF Typed, TypeOK
<1>4. ASSUME NEW c \in Clients, Writes(c) \/ WriteTotal(c) \/ ReplaceLines(c)
      PROVE  order'[p] = order[p]
  <2>1. PICK q : q = req[c].order
    OBVIOUS
  <2>2. q \in Orders /\ order[q] \in OrderRow /\ order' = [order EXCEPT ![q] = order'[q]]
    BY <1>4, <2>1, WriteEffect, SumEffect, ReplaceEffect DEF Writes
  <2>3. QED
    BY <1>3, <2>2, RowIsOrder
<1>5. ASSUME NEW c \in Clients, CommitReceipt(c) PROVE order'[p] = order[p]
  <2>1. PICK r, g, q : r = req[c].seen /\ g = req[c].receipt /\ q = r.order
    OBVIOUS
  <2>2. q \in Orders /\ order[q] \in OrderRow /\ order' = [order EXCEPT ![q] = order'[q]]
    BY <1>5, <2>1, CommitEffect
  <2>3. QED
    BY <1>3, <2>2, RowIsOrder
<1>6. ASSUME NEW c \in Clients, Quiet(c) \/ Edits(c) \/ CreateReceipt(c) \/ Grades(c)
      PROVE  UNCHANGED order
  BY <1>6, QuietEffect, EditEffect DEF Edits, CreateReceipt, Grades, EditLine, SubmitForQc,
     RejectReceipt, WriteReceipt
<1>7. CASE UNCHANGED vars
  BY <1>7 DEF vars
<1>8. QED
  BY <1>1, <1>2, <1>4, <1>5, <1>6, <1>7, Steps

-----------------------------------------------------------------------------
\* The approver role.

RoleOK(p) ==
    order[p].status \in OrderStatus \ {"draft", "cancelled"} /\ ~ overtaken[p]
        => order[p].role = ApproverRole(order[p].total)

\* The statuses of an order.
LEMMA OrderStatusSplit ==
    /\ OrderStatus = {"draft", "pending_approval", "approved", "partially_received",
                      "received", "cancelled"}
    /\ NoOrder.status \notin OrderStatus
BY DEF OrderStatus, PO_STATUS_TRANSITIONS, NoOrder

\* Each of them keeps the role right.
LEMMA RoleStep ==
    ASSUME Typed, [Next]_vars, NEW p \in Orders, RoleOK(p) PROVE RoleOK(p)'
<1>1. SUFFICES ASSUME order'[p].status \in OrderStatus \ {"draft", "cancelled"}, ~ overtaken'[p]
               PROVE  order'[p].role = ApproverRole(order'[p].total)
  BY DEF RoleOK, ApproverRole
<1>2. order[p] # NoOrder
  BY <1>1, OrderNew, OrderStatusSplit
<1>3. ~ overtaken[p] /\ (Untouched(p) \/ Written(p) \/ Edited(p) \/ Received(p))
  BY <1>1, <1>2, OrderStep
<1>4. order[p].status \in OrderStatus \ {"draft", "cancelled"}
         => order[p].role = ApproverRole(order[p].total)
  BY <1>3 DEF RoleOK
<1>5. CASE Untouched(p)
  BY <1>1, <1>4, <1>5 DEF Untouched
<1>6. CASE Written(p)
  BY <1>1, <1>4, <1>6, OrderStatusSplit DEF Written
<1>7. CASE Edited(p)
  BY <1>1, <1>7 DEF Edited
<1>8. CASE Received(p)
  BY <1>1, <1>4, <1>8, OrderStatusSplit DEF Received, Placed
<1>9. QED
  BY <1>3, <1>5, <1>6, <1>7, <1>8

\* An order that has been submitted carries the approver role of the amount it
\* is for, although line edits that passed the check for a draft may still run.
THEOREM RoleMatchesTotalSafe == Spec => []RoleMatchesTotal
<1>1. RoleMatchesTotal <=> \A p \in Orders : RoleOK(p)
  BY DEF RoleMatchesTotal, RoleOK
<1>2. Init => RoleMatchesTotal
  BY OrderStatusSplit DEF Init, RoleMatchesTotal
<1>3. ASSUME Typed, RoleMatchesTotal, [Next]_vars PROVE RoleMatchesTotal'
  <2>1. \A p \in Orders : RoleOK(p)'
    BY <1>1, <1>3, RoleStep
  <2>2. QED
    BY <2>1 DEF RoleMatchesTotal, RoleOK
<1>4. QED
  BY <1>2, <1>3, TypedAlways, PTL DEF Spec

-----------------------------------------------------------------------------
\* The status of an order and what was received on its lines.

\* Nothing is received before an order is placed; it is placed with lines.
FollowsOK(p) ==
    order[p] # NoOrder /\ ~ overtaken[p] =>
        /\ order[p].status \in Placed => order[p].status = ReceivedStatus(OrderLines(p))
        /\ order[p].status \notin Placed => \A l \in LinesOf(p) : line[l].received = 0
        /\ order[p].status = "pending_approval" => LinesOf(p) # {}

Follows == \A p \in Orders : FollowsOK(p)

\* An order with lines of which nothing was received is approved.
LEMMA NothingReceived ==
    ASSUME Typed, NEW p, LinesOf(p) # {}, \A l \in LinesOf(p) : line[l].received = 0
    PROVE  ReceivedStatus(OrderLines(p)) = "approved"
<1>1. PICK rows : rows = OrderLines(p)
  OBVIOUS
<1>2. DOMAIN rows = LinesOf(p) /\ \A l \in LinesOf(p) : rows[l] = line[l]
  BY <1>1 DEF OrderLines
<1>3. \A l \in LinesOf(p) : rows[l].received = 0 /\ rows[l].qty \in Nat \ {0}
  BY <1>2, LineType DEF LinesOf, LineRow
<1>4. ~ \A l \in DOMAIN rows : rows[l].received >= rows[l].qty
  BY <1>2, <1>3
<1>5. ~ \E l \in DOMAIN rows : rows[l].received > 0
  BY <1>2, <1>3
<1>6. ReceivedStatus(rows) = "approved"
  BY <1>4, <1>5 DEF ReceivedStatus
<1>7. QED
  BY <1>1, <1>6

\* Each of the steps keeps the status what the lines say.
LEMMA FollowsStep ==
    ASSUME Typed, [Next]_vars, NEW p \in Orders, FollowsOK(p) PROVE FollowsOK(p)'
<1>1. PICK lines, rows : lines = OrderLines(p)' /\ rows = OrderLines(p)
  OBVIOUS
<1>2. ReceivedStatus(OrderLines(p))' = ReceivedStatus(lines)
  BY <1>1 DEF ReceivedStatus
<1>3. ReceivedStatus(OrderLines(p)) = ReceivedStatus(rows)
  BY <1>1
<1>4. LinesOf(p)' = DOMAIN lines /\ \A l \in DOMAIN lines : lines[l] = line'[l]
  BY <1>1 DEF OrderLines
<1>5. LinesOf(p) = DOMAIN rows /\ \A l \in DOMAIN rows : rows[l] = line[l]
  BY <1>1 DEF OrderLines
<1>6. SUFFICES ASSUME order'[p] # NoOrder, ~ overtaken'[p]
      PROVE  /\ order'[p].status \in Placed => order'[p].status = ReceivedStatus(lines)
             /\ order'[p].status \notin Placed => \A l \in LinesOf(p)' : line'[l].received = 0
             /\ order'[p].status = "pending_approval" => LinesOf(p)' # {}
  BY <1>2 DEF FollowsOK
<1>7. CASE order[p] = NoOrder
  BY <1>6, <1>7, OrderNew DEF Placed
<1>8. CASE order[p] # NoOrder
  <2>1. ~ overtaken[p] /\ (Untouched(p) \/ Written(p) \/ Edited(p) \/ Received(p))
    BY <1>6, <1>8, OrderStep
  <2>2. /\ order[p].status \in Placed => order[p].status = ReceivedStatus(rows)
        /\ order[p].status \notin Placed => \A l \in LinesOf(p) : line[l].received = 0
        /\ order[p].status = "pending_approval" => LinesOf(p) # {}
    BY <1>3, <1>8, <2>1 DEF FollowsOK
  <2>3. CASE Untouched(p)
    <3>1. lines = rows /\ order'[p] = order[p]
      BY <1>1, <2>3 DEF Untouched
    <3>2. QED
      BY <1>4, <1>5, <2>2, <3>1
  <2>4. CASE Written(p)
    <3>1. lines = rows
      BY <1>1, <2>4 DEF Written
    <3>2. order[p].status \notin Placed /\ \A l \in LinesOf(p)' : line'[l].received = 0
      <4>1. order[p].status \notin Placed
        BY <2>4 DEF Written, Placed
      <4>2. \A l \in DOMAIN rows : rows[l].received = 0
        BY <1>5, <2>2, <4>1
      <4>3. QED
        BY <1>4, <3>1, <4>1, <4>2
    <3>3. order'[p].status = "pending_approval" => LinesOf(p)' # {}
      BY <1>4, <1>5, <2>4, <3>1 DEF Written
    <3>4. ASSUME order'[p].status \in Placed PROVE order'[p].status = ReceivedStatus(lines)
      <4>1. order[p].status = "pending_approval" /\ order'[p].status = "approved"
        BY <2>4, <3>4 DEF Written, Placed
      <4>2. ReceivedStatus(rows) = "approved"
        BY <1>3, <2>2, <3>2, <4>1, NothingReceived
      <4>3. QED
        BY <3>1, <4>1, <4>2
    <3>5. QED
      BY <3>2, <3>3, <3>4
  <2>5. CASE Edited(p)
    <3>1. \A l \in LinesOf(p)' : line'[l].received = 0
      BY <2>2, <2>5 DEF Edited, Placed
    <3>2. QED
      BY <2>5, <3>1 DEF Edited, Placed
  <2>6. CASE Received(p)
    <3>1. order'[p].status \in Placed /\ order'[p].status = ReceivedStatus(lines)
      BY <1>1, <2>6 DEF Received
    <3>2. QED
      BY <3>1 DEF Placed
  <2>7. QED
    BY <2>1, <2>3, <2>4, <2>5, <2>6
<1>9. QED
  BY <1>7, <1>8

\* It holds of no order at all.
LEMMA InitFollows == Init => Follows
BY DEF Init, Follows, FollowsOK

\* The status of every placed order, until an overtaken write reaches it, is the one
\* approve of a receipt computes from its lines; the lines of any other order have
\* received nothing.
THEOREM FollowsAlways == Spec => []Follows
<1>1. ASSUME Typed, Follows, [Next]_vars PROVE Follows'
  <2>1. \A p \in Orders : FollowsOK(p)'
    BY <1>1, FollowsStep DEF Follows
  <2>2. QED
    BY <2>1 DEF Follows
<1>2. QED
  BY <1>1, InitFollows, TypedAlways, PTL DEF Spec

\* The status of an approved order follows from what was received on its lines,
\* unless two receipts of it were approved at once or a late request wrote to it.
THEOREM StatusFollowsReceiptsSafe == Spec => []StatusFollowsReceipts
<1>1. Follows => StatusFollowsReceipts
  BY DEF Follows, FollowsOK, StatusFollowsReceipts, Placed, NoOrder
<1>2. QED
  BY <1>1, FollowsAlways, PTL

\* Receiving more does not lead back: a received order stays received.
LEMMA StatusGrows ==
    ASSUME NEW rows, IsRows(rows), NEW r, IsReceipt(r), Numbered(r)
    PROVE  /\ ReceivedStatus(rows) = "received" => ReceivedStatus(After(rows, r)) = "received"
           /\ ReceivedStatus(rows) = "partially_received" =>
                 ReceivedStatus(After(rows, r)) \in {"partially_received", "received"}
<1>1. PICK lines : lines = After(rows, r)
  OBVIOUS
<1>2. DOMAIN lines = DOMAIN rows
  BY <1>1 DEF After
<1>3. ASSUME NEW l \in DOMAIN rows
      PROVE  /\ lines[l].qty = rows[l].qty /\ lines[l].received >= rows[l].received
             /\ lines[l].received \in Nat /\ rows[l].received \in Nat /\ rows[l].qty \in Nat
  <2>1. PICK row \in LineRow, n \in Nat : row = rows[l] /\ n = Accepted(r, l)
    BY AcceptedType DEF IsRows
  <2>2. lines[l] = [row EXCEPT !.received = row.received + n]
    BY <1>1, <2>1 DEF After
  <2>3. QED
    BY <2>1, <2>2 DEF LineRow
<1>4. (\A l \in DOMAIN rows : rows[l].received >= rows[l].qty)
         => \A l \in DOMAIN lines : lines[l].received >= lines[l].qty
  BY <1>2, <1>3
<1>5. (\E l \in DOMAIN rows : rows[l].received > 0) => \E l \in DOMAIN lines : lines[l].received > 0
  BY <1>2, <1>3
<1>6. /\ ReceivedStatus(rows) = "received" => ReceivedStatus(lines) = "received"
      /\ ReceivedStatus(rows) = "partially_received" =>
             ReceivedStatus(lines) \in {"partially_received", "received"}
  BY <1>4, <1>5 DEF ReceivedStatus
<1>7. QED
  BY <1>1, <1>6

\* An order that no overtaken write reached moves along its state machine.
LEMMA OrderMoves ==
    ASSUME Typed, Follows, [Next]_vars, NEW p \in Orders, order[p] # NoOrder, ~ overtaken'[p]
    PROVE  \/ order'[p].status = order[p].status
           \/ order'[p].status \in PO_STATUS_TRANSITIONS[order[p].status]
           \/ order[p].status = "pending_approval" /\ order'[p].status = "draft"
<1>1. ~ overtaken[p] /\ (Untouched(p) \/ Written(p) \/ Edited(p) \/ Received(p))
  BY OrderStep
<1>2. CASE Untouched(p)
  BY <1>2 DEF Untouched
<1>3. CASE Written(p)
  BY <1>3 DEF Written, PO_STATUS_TRANSITIONS
<1>4. CASE Edited(p)
  BY <1>4 DEF Edited
<1>5. CASE Received(p)
  <2>1. PICK r, rows : /\ IsReceipt(r) /\ Numbered(r) /\ rows = OrderLines(p)
                       /\ order'[p].status = ReceivedStatus(After(rows, r))
    BY <1>5 DEF Received
  <2>2. order[p].status = ReceivedStatus(rows) /\ order[p].status \in Placed
    BY <1>1, <1>5, <2>1 DEF Follows, FollowsOK, Received
  <2>3. IsRows(rows)
    BY <2>1, OrderLinesAreRows
  <2>4. /\ order[p].status = "received" => order'[p].status = "received"
        /\ order[p].status = "partially_received" =>
              order'[p].status \in {"partially_received", "received"}
    BY <2>1, <2>2, <2>3, StatusGrows
  <2>5. order'[p].status \in Placed
    BY <1>5 DEF Received
  <2>6. QED
    BY <2>2, <2>4, <2>5 DEF Placed, PO_STATUS_TRANSITIONS
<1>6. QED
  BY <1>1, <1>2, <1>3, <1>4, <1>5

-----------------------------------------------------------------------------
\* What a step does to a receipt.

\* It is edited, sent to quality control or rejected.
Graded(g) ==
    /\ SameRefs(receipt'[g], receipt[g])
    /\ \/ /\ receipt'[g].status = receipt[g].status
          /\ receipt[g].status \in {"draft", "qc_pending"}
       \/ receipt[g].status = "draft" /\ receipt'[g].status \in {"qc_pending", "rejected"}
       \/ receipt[g].status = "qc_pending" /\ receipt'[g].status = "rejected"

\* It is approved.
Booked(g) ==
    /\ receipt[g].status = "qc_pending" /\ receipt'[g].status = "approved"
    /\ receipt'[g].lines = receipt[g].lines /\ SameRefs(receipt'[g], receipt[g])

\* What each action does to one receipt: update, submitForQc and reject,
LEMMA GradeStep ==
    ASSUME Typed, NEW c \in Clients, Grades(c), NEW g \in Receipts, ~ outdated'[g]
    PROVE  receipt'[g] = receipt[g] \/ Graded(g)
<1>1. PICK h : h = req[c].receipt
  OBVIOUS
<1>2. /\ h \in Receipts /\ receipt' = [receipt EXCEPT ![h] = receipt'[h]]
      /\ SameRefs(receipt'[h], receipt[h])
      /\ ~ outdated'[h] =>
           \/ /\ receipt'[h].status = receipt[h].status
              /\ receipt[h].status \in {"draft", "qc_pending"}
           \/ /\ receipt[h].status = "draft"
              /\ receipt'[h].status \in {"qc_pending", "rejected"}
           \/ receipt[h].status = "qc_pending" /\ receipt'[h].status = "rejected"
  BY <1>1, ReceiptEffect DEF Grades
<1>3. CASE g = h
  BY <1>2, <1>3 DEF Graded
<1>4. CASE g # h
  BY <1>2, <1>4 DEF Typed, Tables
<1>5. QED
  BY <1>3, <1>4

\* approve,
LEMMA BookStep ==
    ASSUME Typed, NEW c \in Clients, CommitReceipt(c), NEW g \in Receipts, ~ outdated'[g]
    PROVE  receipt'[g] = receipt[g] \/ (g = req[c].receipt /\ Booked(g))
<1>1. PICK r, h, p : r = req[c].seen /\ h = req[c].receipt /\ p = r.order
  OBVIOUS
<1>2. /\ h \in Receipts /\ p = receipt[h].order
      /\ receipt' = [receipt EXCEPT ![h] = receipt'[h]]
      /\ SameRefs(receipt'[h], receipt[h]) /\ receipt'[h].status = "approved"
      /\ receipt'[h].lines = receipt[h].lines
      /\ ~ outdated'[h] => receipt[h] = r
  BY <1>1, CommitEffect
<1>3. r.status = "qc_pending"
  <2>1. req[c].kind = "book"
    BY DEF CommitReceipt
  <2>2. QED
    BY <1>1, <2>1, ReceiptRequest DEF ReceiptRequestOK, ReceiptKinds
<1>4. CASE g = h
  BY <1>1, <1>2, <1>3, <1>4 DEF Booked
<1>5. CASE g # h
  BY <1>2, <1>5 DEF Typed, Tables
<1>6. QED
  BY <1>4, <1>5

\* create,
LEMMA CreateReceiptStep ==
    ASSUME Typed, NEW c \in Clients, CreateReceipt(c), NEW g \in Receipts
    PROVE  receipt'[g] = receipt[g] \/ (receipt[g] = NoReceipt /\ receipt'[g].status = "draft")
<1>1. PICK h \in Receipts : \E row :
        receipt[h] = NoReceipt /\ receipt' = [receipt EXCEPT ![h] = row] /\ row.status = "draft"
  BY CreateReceiptEffect
<1>2. QED
  BY <1>1 DEF Typed, Tables

\* and all others leave it.
LEMMA Unread ==
    ASSUME NEW c \in Clients,
           Quiet(c) \/ Writes(c) \/ Edits(c) \/ WriteTotal(c) \/ ReplaceLines(c)
    PROVE  UNCHANGED <<receipt, outdated>>
<1>1. CASE Quiet(c)
  BY <1>1, QuietEffect
<1>2. CASE Writes(c)
  BY <1>2 DEF Writes, Submit, Approve, Reject, Cancel, WriteOrder
<1>3. CASE Edits(c) \/ WriteTotal(c) \/ ReplaceLines(c)
  BY <1>3 DEF Edits, InsertLine, DeleteLine, WriteTotal, ReplaceLines
<1>4. QED
  BY <1>1, <1>2, <1>3

\* Receipts that exist and are not written over.
LEMMA ReceiptStep ==
    ASSUME Typed, [Next]_vars, NEW g \in Receipts, receipt[g] # NoReceipt, ~ outdated'[g]
    PROVE  ~ outdated[g] /\ (receipt'[g] = receipt[g] \/ Graded(g) \/ Booked(g))
<1>1. ~ outdated[g]
  <2>1. CASE UNCHANGED vars
    BY <2>1 DEF vars
  <2>2. CASE ~ UNCHANGED vars
    BY <2>2, StepGrows DEF Grows, ReceiptsGrow
  <2>3. QED
    BY <2>1, <2>2
<1>2. CASE UNCHANGED vars
  BY <1>1, <1>2 DEF vars
<1>3. CASE \E p \in Orders : CreateOrder(p)
  BY <1>1, <1>3 DEF CreateOrder
<1>4. QED
  BY <1>1, <1>2, <1>3, Steps, Unread, GradeStep, BookStep, CreateReceiptStep

\* Orders and receipts follow their state machines.
THEOREM FollowStateMachinesSafe == Spec => FollowStateMachines
<1>1. ASSUME Typed, Follows, [Next]_vars
      PROVE  /\ \A p \in Orders : order[p] # NoOrder /\ ~ overtaken'[p] =>
                  \/ order'[p].status = order[p].status
                  \/ order'[p].status \in PO_STATUS_TRANSITIONS[order[p].status]
                  \/ order[p].status = "pending_approval" /\ order'[p].status = "draft"
             /\ \A g \in Receipts : receipt[g] # NoReceipt /\ ~ outdated'[g] =>
                  \/ receipt'[g].status = receipt[g].status
                  \/ receipt'[g].status \in GRN_STATUS_TRANSITIONS[receipt[g].status]
  <2>1. ASSUME NEW g \in Receipts, receipt[g] # NoReceipt, ~ outdated'[g]
        PROVE  \/ receipt'[g].status = receipt[g].status
               \/ receipt'[g].status \in GRN_STATUS_TRANSITIONS[receipt[g].status]
    BY <1>1, <2>1, ReceiptStep DEF Graded, Booked, GRN_STATUS_TRANSITIONS
  <2>2. QED
    BY <1>1, <2>1, OrderMoves
<1>2. QED
  BY <1>1, TypedAlways, FollowsAlways, PTL DEF Spec, FollowStateMachines

-----------------------------------------------------------------------------
\* What the stock ledger learns.

\* A receipt is announced after it was approved, with the lines it has.
LogOK(g) ==
    ~ outdated[g] =>
        \/ announced[g] = <<>>
        \/ receipt[g].status = "approved" /\ announced[g] = <<receipt[g].lines>>

\* A request that is about to announce a receipt knows what it was approved with.
AnnounceOK(r) ==
    r.kind = "announce" /\ ~ outdated[r.receipt] =>
        /\ announced[r.receipt] = <<>> /\ receipt[r.receipt].status = "approved"
        /\ receipt[r.receipt].lines = r.seen.lines

\* No two requests are about to announce a receipt.
Apart ==
    \A c, d \in Clients :
        /\ req[c].kind = "announce" /\ req[d].kind = "announce"
        /\ req[c].receipt = req[d].receipt /\ ~ outdated[req[c].receipt]
        => c = d

Logged ==
    /\ \A g \in Receipts : LogOK(g)
    /\ \A c \in Clients : AnnounceOK(req[c])
    /\ Apart

\* A step that leaves approved receipts, the log and the announcing requests.
LEMMA LogKept ==
    ASSUME Typed, Logged, UNCHANGED announced,
           NEW c \in Clients, NEW x, req' = [req EXCEPT ![c] = x], x.kind # "announce",
           \A g \in Receipts : ~ outdated'[g] =>
               /\ ~ outdated[g]
               /\ receipt'[g] = receipt[g] \/ receipt[g].status # "approved"
    PROVE  Logged'
<1>1. /\ \A d \in Clients : d # c => req'[d] = req[d]
      /\ req'[c] = x
  BY DEF Typed, Tables
<1>2. ASSUME NEW g \in Receipts PROVE LogOK(g)'
  BY DEF Logged, LogOK
<1>3. ASSUME NEW d \in Clients, req'[d].kind = "announce"
      PROVE  req'[d] = req[d] /\ req[d].kind = "announce" /\ req[d].receipt \in Receipts
  <2>1. req'[d] = req[d] /\ req[d].kind = "announce"
    BY <1>1, <1>3
  <2>2. QED
    BY <2>1, ReceiptRequest DEF ReceiptKinds
<1>4. ASSUME NEW d \in Clients PROVE AnnounceOK(req[d])'
  <2>1. SUFFICES ASSUME req'[d].kind = "announce", ~ outdated'[req'[d].receipt]
                 PROVE  /\ announced'[req'[d].receipt] = <<>>
                        /\ receipt'[req'[d].receipt].status = "approved"
                        /\ receipt'[req'[d].receipt].lines = req'[d].seen.lines
    BY DEF AnnounceOK
  <2>2. req'[d] = req[d] /\ req[d].kind = "announce" /\ req[d].receipt \in Receipts
    BY <1>3, <2>1
  <2>3. ~ outdated[req[d].receipt]
    BY <2>1, <2>2
  <2>4. /\ announced[req[d].receipt] = <<>> /\ receipt[req[d].receipt].status = "approved"
        /\ receipt[req[d].receipt].lines = req[d].seen.lines
    BY <2>2, <2>3 DEF Logged, AnnounceOK
  <2>5. receipt'[req[d].receipt] = receipt[req[d].receipt]
    BY <2>1, <2>2, <2>4
  <2>6. QED
    BY <2>2, <2>4, <2>5
<1>5. Apart'
  <2>1. SUFFICES ASSUME NEW d \in Clients, NEW e \in Clients,
                        req'[d].kind = "announce", req'[e].kind = "announce",
                        req'[d].receipt = req'[e].receipt, ~ outdated'[req'[d].receipt]
                 PROVE  d = e
    BY DEF Apart
  <2>2. /\ req'[d] = req[d] /\ req[d].kind = "announce" /\ req[d].receipt \in Receipts
        /\ req'[e] = req[e] /\ req[e].kind = "announce"
    BY <1>3, <2>1
  <2>3. ~ outdated[req[d].receipt]
    BY <2>1, <2>2
  <2>4. QED
    BY <2>1, <2>2, <2>3 DEF Logged, Apart
<1>6. QED
  BY <1>2, <1>4, <1>5 DEF Logged

\* The announcement of a receipt is the first, and carries its lines.
LEMMA AnnounceLog ==
    ASSUME Typed, Logged, NEW c \in Clients, Announce(c) PROVE Logged'
<1>1. PICK q, g : q = req[c] /\ g = q.receipt
  OBVIOUS
<1>2. q.kind = "announce" /\ g \in Receipts
  BY <1>1, ReceiptRequest DEF Announce, ReceiptKinds
<1>3. /\ announced' = [announced EXCEPT ![g] = Append(announced[g], q.seen.lines)]
      /\ req' = [req EXCEPT ![c] = Idle] /\ UNCHANGED <<receipt, outdated>>
  BY <1>1 DEF Announce, End
<1>4. /\ DOMAIN announced = Receipts /\ DOMAIN req = Clients
  BY DEF Typed, Tables
<1>5. /\ req'[c] = Idle /\ \A d \in Clients : d # c => req'[d] = req[d]
      /\ announced'[g] = Append(announced[g], q.seen.lines)
      /\ \A h \in Receipts : h # g => announced'[h] = announced[h]
  BY <1>2, <1>3, <1>4
<1>6. ASSUME NEW h \in Receipts PROVE LogOK(h)'
  <2>1. CASE h # g
    BY <1>3, <1>5, <2>1 DEF Logged, LogOK
  <2>2. CASE h = g
    <3>1. SUFFICES ASSUME ~ outdated[g]
                   PROVE  receipt[g].status = "approved" /\ announced'[g] = <<receipt[g].lines>>
      BY <1>3, <2>2 DEF LogOK
    <3>2. /\ announced[g] = <<>> /\ receipt[g].status = "approved"
          /\ receipt[g].lines = q.seen.lines
      BY <1>1, <1>2, <3>1 DEF Logged, AnnounceOK
    <3>3. Append(<<>>, q.seen.lines) = <<q.seen.lines>>
      OBVIOUS
    <3>4. QED
      BY <1>5, <3>2, <3>3
  <2>3. QED
    BY <2>1, <2>2
<1>7. ASSUME NEW d \in Clients, req'[d].kind = "announce"
      PROVE  /\ d # c /\ req'[d] = req[d] /\ req[d].kind = "announce"
             /\ req[d].receipt \in Receipts
             /\ ~ outdated[req[d].receipt] => req[d].receipt # g
  <2>1. d # c
    BY <1>5, <1>7 DEF Idle
  <2>2. req'[d] = req[d] /\ req[d].kind = "announce"
    BY <1>5, <1>7, <2>1
  <2>3. QED
    BY <1>1, <1>2, <2>1, <2>2, ReceiptRequest DEF ReceiptKinds, Logged, Apart
<1>8. ASSUME NEW d \in Clients PROVE AnnounceOK(req[d])'
  BY <1>3, <1>5, <1>7 DEF Logged, AnnounceOK
<1>9. Apart'
  BY <1>3, <1>7 DEF Logged, Apart
<1>10. QED
  BY <1>6, <1>8, <1>9 DEF Logged

\* A receipt approved has not been announced yet, and one request is to do it.
LEMMA CommitLog ==
    ASSUME Typed, Logged, NEW c \in Clients, CommitReceipt(c) PROVE Logged'
<1>1. PICK q, r, g, p : q = req[c] /\ r = q.seen /\ g = q.receipt /\ p = r.order
  OBVIOUS
<1>2. PICK x : x = [kind |-> "announce", receipt |-> g, seen |-> r]
  OBVIOUS
<1>3. /\ g \in Receipts /\ receipt' = [receipt EXCEPT ![g] = receipt'[g]]
      /\ receipt'[g].status = "approved" /\ receipt'[g].lines = receipt[g].lines
      /\ outdated' = [outdated EXCEPT ![g] = outdated'[g]]
      /\ outdated[g] => outdated'[g]
      /\ ~ outdated'[g] => receipt[g] = r
      /\ p = receipt[g].order /\ UNCHANGED announced
  BY <1>1, CommitEffect
<1>4. req' = [req EXCEPT ![c] = x]
  BY <1>1, <1>2 DEF CommitReceipt
<1>5. /\ req'[c] = x /\ \A d \in Clients : d # c => req'[d] = req[d]
      /\ \A h \in Receipts : h # g => receipt'[h] = receipt[h] /\ outdated'[h] = outdated[h]
  BY <1>3, <1>4 DEF Typed, Tables, TypeOK
<1>6. x.kind = "announce" /\ x.receipt = g /\ x.seen = r
  BY <1>2
<1>7. r.status = "qc_pending"
  <2>1. q.kind = "book"
    BY <1>1 DEF CommitReceipt
  <2>2. QED
    BY <1>1, <2>1, ReceiptRequest DEF ReceiptRequestOK, ReceiptKinds
<1>8. ASSUME ~ outdated'[g]
      PROVE  ~ outdated[g] /\ receipt[g] = r /\ receipt[g].status # "approved" /\ announced[g] = <<>>
  BY <1>3, <1>7, <1>8 DEF Logged, LogOK
<1>9. ASSUME NEW h \in Receipts PROVE LogOK(h)'
  <2>1. CASE h = g
    BY <1>3, <1>8, <2>1 DEF LogOK
  <2>2. CASE h # g
    BY <1>3, <1>5, <2>2 DEF Logged, LogOK
  <2>3. QED
    BY <2>1, <2>2
<1>10. ASSUME NEW d \in Clients, d # c, req'[d].kind = "announce", ~ outdated'[req'[d].receipt]
       PROVE  /\ req'[d] = req[d] /\ req[d].kind = "announce" /\ req[d].receipt \in Receipts
              /\ req[d].receipt # g /\ ~ outdated[req[d].receipt]
  <2>1. req'[d] = req[d] /\ req[d].kind = "announce"
    BY <1>5, <1>10
  <2>2. req[d].receipt \in Receipts
    BY <2>1, ReceiptRequest DEF ReceiptKinds
  <2>3. ~ outdated[req[d].receipt]
    BY <1>3, <1>5, <1>10, <2>1, <2>2
  <2>4. receipt[req[d].receipt].status = "approved"
    BY <2>1, <2>3 DEF Logged, AnnounceOK
  <2>5. req[d].receipt # g
    BY <1>8, <1>10, <2>1, <2>4
  <2>6. QED
    BY <2>1, <2>2, <2>3, <2>5
<1>11. ASSUME NEW d \in Clients PROVE AnnounceOK(req[d])'
  <2>1. SUFFICES ASSUME req'[d].kind = "announce", ~ outdated'[req'[d].receipt]
                 PROVE  /\ announced'[req'[d].receipt] = <<>>
                        /\ receipt'[req'[d].receipt].status = "approved"
                        /\ receipt'[req'[d].receipt].lines = req'[d].seen.lines
    BY DEF AnnounceOK
  <2>2. CASE d = c
    <3>1. req'[d] = x /\ ~ outdated'[g]
      BY <1>5, <1>6, <2>1, <2>2
    <3>2. announced[g] = <<>> /\ receipt[g] = r
      BY <1>8, <3>1
    <3>3. QED
      BY <1>3, <1>6, <3>1, <3>2
  <2>3. CASE d # c
    <3>1. /\ req'[d] = req[d] /\ req[d].kind = "announce" /\ req[d].receipt \in Receipts
          /\ req[d].receipt # g /\ ~ outdated[req[d].receipt]
      BY <1>10, <2>1, <2>3
    <3>2. /\ announced[req[d].receipt] = <<>> /\ receipt[req[d].receipt].status = "approved"
          /\ receipt[req[d].receipt].lines = req[d].seen.lines
      BY <3>1 DEF Logged, AnnounceOK
    <3>3. receipt'[req[d].receipt] = receipt[req[d].receipt]
      BY <1>5, <3>1
    <3>4. QED
      BY <1>3, <3>1, <3>2, <3>3
  <2>4. QED
    BY <2>2, <2>3
<1>12. Apart'
  <2>1. SUFFICES ASSUME NEW d \in Clients, NEW e \in Clients,
                        req'[d].kind = "announce", req'[e].kind = "announce",
                        req'[d].receipt = req'[e].receipt, ~ outdated'[req'[d].receipt]
                 PROVE  d = e
    BY DEF Apart
  <2>2. CASE d # c /\ e # c
    BY <1>10, <2>1, <2>2 DEF Logged, Apart
  <2>3. CASE d = c /\ e # c
    BY <1>5, <1>6, <1>10, <2>1, <2>3
  <2>4. CASE d # c /\ e = c
    BY <1>5, <1>6, <1>10, <2>1, <2>4
  <2>5. QED
    BY <2>2, <2>3, <2>4
<1>13. QED
  BY <1>9, <1>11, <1>12 DEF Logged

\* Quiet steps other than the announcement leave no announcing request behind.
LEMMA QuietLog ==
    ASSUME Typed, Logged, NEW c \in Clients, Quiet(c), ~ Announce(c) PROVE Logged'
<1>1. UNCHANGED <<receipt, outdated>>
  BY QuietEffect
<1>2. UNCHANGED announced
  BY DEF Quiet, ReadOrder, ReadLines, DeleteLines, ReadOrderToReceive, ReadReceipt, Increment, Fail
<1>3. \E x : req' = [req EXCEPT ![c] = x] /\ x.kind # "announce"
  <2>1. CASE ReadOrder(c)
    <3>1. PICK p \in Orders, op \in OrderOps :
            req' = [req EXCEPT ![c] = [kind |-> op, order |-> p, seen |-> Look(op, p)]]
      BY <2>1 DEF ReadOrder
    <3>2. PICK x : x = [kind |-> op, order |-> p, seen |-> Look(op, p)]
      OBVIOUS
    <3>3. x.kind = op /\ op # "announce"
      BY <3>2 DEF OrderOps
    <3>4. QED
      BY <3>1, <3>2, <3>3
  <2>2. CASE ReadReceipt(c)
    <3>1. PICK g \in Receipts, op \in ReceiptOps :
            req' = [req EXCEPT ![c] = [kind |-> op, receipt |-> g, seen |-> receipt[g]]]
      BY <2>2 DEF ReadReceipt
    <3>2. PICK x : x = [kind |-> op, receipt |-> g, seen |-> receipt[g]]
      OBVIOUS
    <3>3. x.kind = op /\ op # "announce"
      BY <3>2 DEF ReceiptOps
    <3>4. QED
      BY <3>1, <3>2, <3>3
  <2>3. CASE ReadLines(c)
    <3>1. PICK x : x = [kind |-> "total", order |-> req[c].order, seen |-> req[c].seen,
                        from |-> OrderLines(req[c].order)]
      OBVIOUS
    <3>2. x.kind = "total"
      BY <3>1
    <3>3. QED
      BY <2>3, <3>1, <3>2 DEF ReadLines
  <2>4. CASE DeleteLines(c)
    <3>1. PICK x : x = [kind |-> "replace", order |-> req[c].order, seen |-> req[c].seen,
                        doomed |-> LinesOf(req[c].order)]
      OBVIOUS
    <3>2. x.kind = "replace"
      BY <3>1
    <3>3. QED
      BY <2>4, <3>1, <3>2 DEF DeleteLines
  <2>5. CASE ReadOrderToReceive(c)
    <3>1. PICK p \in Orders :
            req' = [req EXCEPT ![c] = [kind |-> "receive", order |-> p, lines |-> LinesOf(p)]]
      BY <2>5 DEF ReadOrderToReceive
    <3>2. PICK x : x = [kind |-> "receive", order |-> p, lines |-> LinesOf(p)]
      OBVIOUS
    <3>3. x.kind = "receive"
      BY <3>2
    <3>4. QED
      BY <3>1, <3>2, <3>3
  <2>6. CASE Increment(c)
    <3>1. PICK q, x, from :
             /\ x = [kind |-> "book", receipt |-> q.receipt, seen |-> q.seen, from |-> from,
                     status |-> ReceivedStatus(After(from, q.seen))]
             /\ req' = [req EXCEPT ![c] = x]
      BY <2>6, IncrementRequest
    <3>2. x.kind = "book"
      BY <3>1
    <3>3. QED
      BY <3>1, <3>2
  <2>7. CASE Fail(c)
    <3>1. Idle.kind # "announce"
      BY DEF Idle
    <3>2. QED
      BY <2>7, <3>1 DEF Fail, End
  <2>8. QED
    BY <2>1, <2>2, <2>3, <2>4, <2>5, <2>6, <2>7 DEF Quiet
<1>4. QED
  BY <1>1, <1>2, <1>3, LogKept

\* Requests about orders, and edits of receipts, announce nothing.
LEMMA OtherLog ==
    ASSUME Typed, Logged, NEW c \in Clients,
           \/ Writes(c) \/ Edits(c) \/ WriteTotal(c) \/ ReplaceLines(c)
           \/ CreateReceipt(c) \/ Grades(c)
    PROVE  Logged'
<1>1. UNCHANGED announced
  <2>1. CASE Writes(c)
    BY <2>1 DEF Writes, Submit, Approve, Reject, Cancel, WriteOrder
  <2>2. CASE Edits(c) \/ WriteTotal(c) \/ ReplaceLines(c)
    BY <2>2 DEF Edits, InsertLine, DeleteLine, WriteTotal, ReplaceLines
  <2>3. CASE CreateReceipt(c) \/ Grades(c)
    BY <2>3 DEF CreateReceipt, Grades, EditLine, SubmitForQc, RejectReceipt, WriteReceipt
  <2>4. QED
    BY <2>1, <2>2, <2>3
<1>2. \E x : req' = [req EXCEPT ![c] = x] /\ x.kind # "announce"
  <2>1. Idle.kind # "announce"
    BY DEF Idle
  <2>2. CASE Writes(c)
    BY <2>1, <2>2 DEF Writes, Submit, Approve, Reject, Cancel, WriteOrder, End
  <2>3. CASE Edits(c)
    <3>1. PICK x : x = [kind |-> "sum", order |-> req[c].order, seen |-> req[c].seen]
      OBVIOUS
    <3>2. x.kind = "sum"
      BY <3>1
    <3>3. QED
      BY <2>3, <3>1, <3>2 DEF Edits, InsertLine, DeleteLine, Summing
  <2>4. CASE WriteTotal(c) \/ ReplaceLines(c)
    BY <2>1, <2>4 DEF WriteTotal, ReplaceLines, End
  <2>5. CASE CreateReceipt(c) \/ Grades(c)
    BY <2>1, <2>5 DEF CreateReceipt, Grades, EditLine, SubmitForQc, RejectReceipt, WriteReceipt, End
  <2>6. QED
    BY <2>2, <2>3, <2>4, <2>5
<1>3. ASSUME NEW g \in Receipts, ~ outdated'[g]
      PROVE  ~ outdated[g] /\ (receipt'[g] = receipt[g] \/ receipt[g].status # "approved")
  <2>1. CASE Writes(c) \/ Edits(c) \/ WriteTotal(c) \/ ReplaceLines(c)
    BY <1>3, <2>1, Unread
  <2>2. CASE CreateReceipt(c)
    <3>1. UNCHANGED outdated
      BY <2>2 DEF CreateReceipt
    <3>2. receipt'[g] = receipt[g] \/ receipt[g] = NoReceipt
      BY <2>2, CreateReceiptStep
    <3>3. QED
      BY <1>3, <3>1, <3>2 DEF NoReceipt
  <2>3. CASE Grades(c)
    <3>1. receipt'[g] = receipt[g] \/ Graded(g)
      BY <1>3, <2>3, GradeStep
    <3>2. ~ outdated[g]
      BY <1>3, <2>3, GradeGrows DEF Grows, ReceiptsGrow
    <3>3. QED
      BY <3>1, <3>2 DEF Graded
  <2>4. QED
    BY <2>1, <2>2, <2>3
<1>4. QED
  BY <1>1, <1>2, <1>3, LogKept

\* Nothing is announced, and nothing is to be.
LEMMA InitLogged == Init => Logged
BY DEF Init, Logged, LogOK, AnnounceOK, Apart, Idle

\* Every step keeps the log right.
LEMMA LoggedStep == ASSUME Typed, Logged, [Next]_vars PROVE Logged'
<1>1. CASE UNCHANGED vars
  BY <1>1 DEF vars, Logged, LogOK, AnnounceOK, Apart
<1>2. ASSUME NEW p \in Orders, CreateOrder(p) PROVE Logged'
  BY <1>2 DEF CreateOrder, Logged, LogOK, AnnounceOK, Apart
<1>3. QED
  BY <1>1, <1>2, Steps, AnnounceLog, QuietLog, OtherLog, CommitLog

\* The log of grn.approved holds at most one entry per receipt, that entry is the lines
\* of the approved row unless an overtaken write reached it, and at most one request is
\* still to announce a receipt that is approved and not announced.
THEOREM LoggedAlways == Spec => []Logged
BY InitLogged, LoggedStep, TypedAlways, PTL DEF Spec

\* The stock ledger learns of a receipt at most once, after it was approved, and
\* of the quantities it was approved with.
THEOREM AnnouncedAsApprovedSafe == Spec => []AnnouncedAsApproved
<1>1. ASSUME Logged PROVE AnnouncedAsApproved
  <2>1. SUFFICES ASSUME NEW g \in Receipts, ~ outdated[g]
                 PROVE  /\ Len(announced[g]) <= 1
                        /\ Len(announced[g]) = 1 => /\ receipt[g].status = "approved"
                                                    /\ announced[g][1] = receipt[g].lines
    BY DEF AnnouncedAsApproved
  <2>2. PICK rows : rows = receipt[g].lines
    OBVIOUS
  <2>3. \/ announced[g] = <<>>
        \/ receipt[g].status = "approved" /\ announced[g] = <<rows>>
    BY <1>1, <2>1, <2>2 DEF Logged, LogOK
  <2>4. CASE announced[g] = <<>>
    <3>1. Len(announced[g]) = 0
      BY <2>4
    <3>2. QED
      BY <3>1
  <2>5. CASE receipt[g].status = "approved" /\ announced[g] = <<rows>>
    <3>1. Len(announced[g]) = 1 /\ announced[g][1] = rows
      BY <2>5
    <3>2. QED
      BY <2>2, <2>5, <3>1
  <2>6. QED
    BY <2>3, <2>4, <2>5
<1>2. QED
  BY <1>1, LoggedAlways, PTL

-----------------------------------------------------------------------------
\* What was received on a line.

\* The receipts on line l, and those of them that were approved.
On(l) == {g \in Receipts : receipt[g] # NoReceipt /\ l \in PoLines(receipt[g])}
ApprovedOn(l) == {g \in On(l) : receipt[g].status = "approved"}

\* What receipt g accepts of line l.
AcceptedOf(l) == [g \in Receipts |-> Accepted(receipt[g], l)]

ReceivedOK(l) ==
    (\A g \in On(l) : ~ outdated[g])
        => line[l].received = SumFunctionOnSet(AcceptedOf(l), ApprovedOn(l))

\* The sums run over finite sets of receipts.
LEMMA OnFinite == ASSUME NEW l PROVE IsFiniteSet(ApprovedOn(l)) /\ ApprovedOn(l) \subseteq Receipts
<1>1. ApprovedOn(l) \subseteq Receipts
  BY DEF ApprovedOn, On
<1>2. QED
  BY <1>1, TableAssumption, FS_Subset

\* What a receipt accepts is a quantity.
LEMMA AcceptedOfType ==
    ASSUME Typed, NEW l, NEW g \in On(l) PROVE AcceptedOf(l)[g] \in Nat
<1>1. PICK r : r = receipt[g]
  OBVIOUS
<1>2. g \in Receipts /\ IsReceipt(r) /\ Numbered(r)
  BY <1>1, ReceiptType DEF On
<1>3. AcceptedOf(l)[g] = Accepted(r, l)
  BY <1>1, <1>2 DEF AcceptedOf
<1>4. QED
  BY <1>2, <1>3, AcceptedType

\* The property in these words.
LEMMA ReceivedByLine ==
    ASSUME Typed PROVE ReceivedIsAccepted <=> \A l \in Present : ReceivedOK(l)
<1>1. ASSUME NEW l
      PROVE  SumFunction([g \in ApprovedOn(l) |-> Accepted(receipt[g], l)])
               = SumFunctionOnSet(AcceptedOf(l), ApprovedOn(l))
  <2>1. PICK w, S : w = [g \in S |-> Accepted(receipt[g], l)] /\ S = ApprovedOn(l)
    OBVIOUS
  <2>2. PICK v : v = AcceptedOf(l)
    OBVIOUS
  <2>3. IsFiniteSet(S) /\ S \subseteq Receipts /\ S \subseteq On(l)
    BY <2>1, OnFinite DEF ApprovedOn
  <2>4. \A g \in S : w[g] \in Int /\ v[g] = w[g]
    <3>1. ASSUME NEW g \in S PROVE w[g] \in Int /\ v[g] = w[g]
      <4>1. v[g] \in Nat
        BY <2>2, <2>3, AcceptedOfType
      <4>2. v[g] = Accepted(receipt[g], l) /\ w[g] = Accepted(receipt[g], l)
        BY <2>1, <2>2, <2>3 DEF AcceptedOf
      <4>3. QED
        BY <4>1, <4>2
    <3>2. QED
      BY <3>1
  <2>5. SumFunctionOnSet(w, S) = SumFunctionOnSet(v, S)
    BY <2>3, <2>4, SumSame
  <2>6. DOMAIN w = S
    BY <2>1
  <2>7. SumFunction(w) = SumFunctionOnSet(w, S)
    BY <2>6 DEF SumFunction
  <2>8. QED
    BY <2>1, <2>2, <2>5, <2>7
<1>2. QED
  BY <1>1 DEF ReceivedIsAccepted, ReceivedOK, On, ApprovedOn

\* A receipt stays on the lines it is on.
LEMMA OnStays ==
    ASSUME Grows, NEW l, NEW g \in Receipts, receipt[g] # NoReceipt
    PROVE  g \in On(l)' <=> g \in On(l)
<1>1. receipt'[g] # NoReceipt /\ SameRefs(receipt'[g], receipt[g])
  BY DEF Grows, ReceiptsGrow
<1>2. PICK r, s : r = receipt[g] /\ s = receipt'[g]
  OBVIOUS
<1>3. PoLines(s) = PoLines(r)
  BY <1>1, <1>2 DEF SameRefs, PoLines
<1>4. PoLines(receipt[g])' = PoLines(s)
  BY <1>2 DEF PoLines
<1>5. QED
  BY <1>1, <1>2, <1>3, <1>4 DEF On

\* A line stays, and the receipts on it accept what they accepted.
LEMMA ReceivedKept ==
    ASSUME Typed, Typed', Grows, NEW l \in Present, l \in Present', ReceivedOK(l),
           line'[l].received = line[l].received,
           \A g \in On(l) : ~ outdated'[g] => receipt'[g] = receipt[g] \/ Graded(g),
           \A g \in Receipts : receipt[g] = NoReceipt => receipt'[g].status # "approved"
    PROVE  ReceivedOK(l)'
<1>1. SUFFICES ASSUME \A g \in On(l)' : ~ outdated'[g]
               PROVE  line'[l].received = SumFunctionOnSet(AcceptedOf(l), ApprovedOn(l))'
  BY DEF ReceivedOK
<1>2. ASSUME NEW g \in On(l)
      PROVE  g \in On(l)' /\ ~ outdated'[g] /\ ~ outdated[g]
  <2>1. g \in Receipts /\ receipt[g] # NoReceipt
    BY DEF On
  <2>2. outdated[g] => outdated'[g]
    BY <2>1 DEF Grows, ReceiptsGrow
  <2>3. QED
    BY <1>1, <2>1, <2>2, OnStays
<1>3. ASSUME NEW g \in On(l) PROVE receipt'[g] = receipt[g] \/ Graded(g)
  BY <1>2
<1>4. ASSUME NEW g \in ApprovedOn(l) PROVE receipt'[g] = receipt[g] /\ g \in ApprovedOn(l)'
  <2>1. g \in On(l) /\ receipt[g].status = "approved"
    BY DEF ApprovedOn
  <2>2. receipt'[g] = receipt[g]
    BY <1>3, <2>1 DEF Graded
  <2>3. QED
    BY <1>2, <2>1, <2>2 DEF ApprovedOn
<1>5. ASSUME NEW g \in ApprovedOn(l)' PROVE g \in ApprovedOn(l)
  <2>1. g \in Receipts /\ receipt'[g].status = "approved" /\ g \in On(l)'
    BY DEF ApprovedOn, On
  <2>2. g \in On(l)
    BY <2>1, OnStays
  <2>3. receipt'[g] = receipt[g]
    BY <1>3, <2>1, <2>2 DEF Graded
  <2>4. QED
    BY <2>1, <2>2, <2>3 DEF ApprovedOn
<1>6. ApprovedOn(l)' = ApprovedOn(l)
  BY <1>4, <1>5
<1>7. PICK S, w, v : S = ApprovedOn(l) /\ w = AcceptedOf(l) /\ v = AcceptedOf(l)'
  OBVIOUS
<1>8. \A g \in S : w[g] \in Int /\ v[g] = w[g]
  <2>1. ASSUME NEW g \in S PROVE w[g] \in Int /\ v[g] = w[g]
    <3>1. g \in Receipts /\ g \in On(l) /\ receipt'[g] = receipt[g]
      BY <1>4, <1>7 DEF ApprovedOn, On
    <3>2. w[g] \in Nat
      BY <1>7, <3>1, AcceptedOfType
    <3>3. w[g] = Accepted(receipt[g], l) /\ v[g] = Accepted(receipt[g], l)'
      BY <1>7, <3>1 DEF AcceptedOf
    <3>4. Accepted(receipt[g], l)' = Accepted(receipt[g], l)
      BY <3>1 DEF Accepted
    <3>5. QED
      BY <3>2, <3>3, <3>4
  <2>2. QED
    BY <2>1
<1>9. SumFunctionOnSet(w, S) = SumFunctionOnSet(v, S)
  BY <1>7, <1>8, OnFinite, SumSame
<1>10. line[l].received = SumFunctionOnSet(w, S)
  BY <1>2, <1>7 DEF ReceivedOK
<1>11. SumFunctionOnSet(AcceptedOf(l), ApprovedOn(l))' = SumFunctionOnSet(v, S)
  BY <1>6, <1>7
<1>12. QED
  BY <1>9, <1>10, <1>11
\* A line that is new is on no receipt.
LEMMA NewLineOn ==
    ASSUME Typed, NEW l \in LineIds, l \notin Present, UNCHANGED receipt,
           line'[l].received = 0
    PROVE  ReceivedOK(l)'
<1>1. ASSUME NEW g \in Receipts, receipt[g] # NoReceipt PROVE l \notin PoLines(receipt[g])
  BY <1>1, ReceiptType DEF LinesOf
<1>2. On(l) = {}
  BY <1>1 DEF On
<1>3. On(l)' = On(l)
  BY DEF On, PoLines
<1>4. ApprovedOn(l)' = {}
  BY <1>2, <1>3 DEF ApprovedOn
<1>5. PICK v, S : v = AcceptedOf(l)' /\ S = {}
  OBVIOUS
<1>6. IsFiniteSet(S) /\ \A g \in S : v[g] \in Int
  BY <1>5, FS_EmptySet
<1>7. SumFunctionOnSet(v, {}) = 0
  BY <1>5, <1>6, SumType
<1>8. SumFunctionOnSet(AcceptedOf(l), ApprovedOn(l))' = 0
  BY <1>4, <1>5, <1>7
<1>9. QED
  BY <1>8 DEF ReceivedOK

\* An edit of the lines of an order.
LEMMA EditedReceived ==
    ASSUME Typed, Typed', Grows, UNCHANGED <<receipt>>,
           NEW D \in SUBSET LineIds, NEW S \in SUBSET LineIds, NEW q \in Orders,
           NEW body \in [S -> LineSpecs], \A l \in S : line[l] = Unused,
           \A l \in D : line[l] # Unused, line' = Rewritten(D, S, q, body),
           \A l \in Present : ReceivedOK(l)
    PROVE  \A l \in Present' : ReceivedOK(l)'
<1>1. /\ Present' = (Present \ D) \cup S
      /\ \A l \in Present \ D : line'[l] = line[l]
  BY EditedLines
<1>2. ASSUME NEW l \in S PROVE line'[l].received = 0
  <2>1. line'[l] = NewLine(q, body[l])
    BY EditedLines
  <2>2. PICK s : s = body[l]
    OBVIOUS
  <2>3. NewLine(q, s).received = 0
    BY DEF NewLine
  <2>4. QED
    BY <2>1, <2>2, <2>3
<1>3. NoReceipt.status # "approved"
  BY DEF NoReceipt
<1>4. ASSUME NEW l \in Present \ D PROVE ReceivedOK(l)'
  <2>1. l \in Present' /\ line'[l].received = line[l].received
    BY <1>1
  <2>2. \A g \in Receipts : receipt[g] = NoReceipt => receipt'[g].status # "approved"
    BY <1>3
  <2>3. \A g \in On(l) : ~ outdated'[g] => receipt'[g] = receipt[g] \/ Graded(g)
    OBVIOUS
  <2>4. QED
    BY <2>1, <2>2, <2>3, ReceivedKept
<1>5. ASSUME NEW l \in S PROVE ReceivedOK(l)'
  <2>1. l \notin Present
    BY DEF Present
  <2>2. QED
    BY <1>2, <2>1, NewLineOn
<1>6. QED
  BY <1>1, <1>4, <1>5

\* A step that writes no line, and approves no receipt.
LEMMA UnapprovedReceived ==
    ASSUME Typed, Typed', Grows, UNCHANGED line,
           \A g \in Receipts : receipt[g] # NoReceipt /\ ~ outdated'[g]
               => receipt'[g] = receipt[g] \/ Graded(g),
           \A g \in Receipts : receipt[g] = NoReceipt => receipt'[g].status # "approved",
           \A l \in Present : ReceivedOK(l)
    PROVE  \A l \in Present' : ReceivedOK(l)'
<1>1. Present' = Present
  BY DEF Present
<1>2. ASSUME NEW l \in Present PROVE ReceivedOK(l)'
  <2>1. l \in Present' /\ line'[l].received = line[l].received
    BY <1>1
  <2>2. \A g \in On(l) : ~ outdated'[g] => receipt'[g] = receipt[g] \/ Graded(g)
    BY DEF On
  <2>3. QED
    BY <2>1, <2>2, ReceivedKept
<1>3. QED
  BY <1>1, <1>2

\* Approving a receipt adds what it accepts, once.
LEMMA CommitReceived ==
    ASSUME Typed, Typed', NEW c \in Clients, CommitReceipt(c), NEW l \in Present', l \in Present,
           ReceivedOK(l)
    PROVE  ReceivedOK(l)'
<1>1. PICK q, r, g, p : q = req[c] /\ r = q.seen /\ g = q.receipt /\ p = r.order
  OBVIOUS
<1>2. /\ g \in Receipts /\ receipt[g] # NoReceipt /\ IsReceipt(r) /\ p = receipt[g].order
      /\ receipt' = [receipt EXCEPT ![g] = receipt'[g]]
      /\ receipt'[g].status = "approved" /\ receipt'[g].lines = receipt[g].lines
      /\ SameRefs(receipt'[g], receipt[g])
      /\ ~ outdated'[g] => receipt[g] = r
  BY <1>1, CommitEffect
<1>3. /\ \A m \in LineIds \ LinesOf(p) : line'[m] = line[m]
      /\ \A m \in LinesOf(p) : line'[m].received = line[m].received + Accepted(r, m)
  BY <1>1, CommitEffect
<1>4. /\ Numbered(r) /\ PoLines(r) = PoLines(receipt[g]) /\ PoLines(r) \subseteq LinesOf(p)
      /\ r.status = "qc_pending"
  <2>1. q.kind = "book"
    BY <1>1 DEF CommitReceipt
  <2>2. QED
    BY <1>1, <2>1, ReceiptRequest DEF ReceiptRequestOK, ReceiptKinds
<1>5. Grows
  BY CommitGrows
<1>6. \A h \in Receipts : h # g => receipt'[h] = receipt[h]
  BY <1>2 DEF Typed, Tables
<1>7. l \in LineIds /\ line[l].received \in Nat
  BY LineType DEF LineRow
<1>8. \A h \in Receipts : receipt[h] = NoReceipt => receipt'[h].status # "approved"
  BY <1>2, <1>6 DEF NoReceipt
<1>9. CASE l \notin PoLines(r)
  <2>1. line'[l].received = line[l].received
    <3>1. CASE l \in LinesOf(p)
      <4>1. Accepted(r, l) = 0
        BY <1>2, <1>4, <1>9, AcceptedType
      <4>2. QED
        BY <1>3, <1>7, <3>1, <4>1
    <3>2. CASE l \notin LinesOf(p)
      BY <1>3, <1>7, <3>2
    <3>3. QED
      BY <3>1, <3>2
  <2>2. g \notin On(l)
    BY <1>4, <1>9 DEF On
  <2>3. \A h \in On(l) : ~ outdated'[h] => receipt'[h] = receipt[h] \/ Graded(h)
    BY <1>6, <2>2 DEF On
  <2>4. QED
    BY <1>5, <1>8, <2>1, <2>3, ReceivedKept
<1>10. CASE l \in PoLines(r)
  <2>1. SUFFICES ASSUME \A h \in On(l)' : ~ outdated'[h]
                 PROVE  line'[l].received = SumFunctionOnSet(AcceptedOf(l), ApprovedOn(l))'
    BY DEF ReceivedOK
  <2>2. g \in On(l) /\ g \in On(l)'
    <3>1. g \in On(l)
      BY <1>2, <1>4, <1>10 DEF On
    <3>2. QED
      BY <1>2, <1>5, <3>1, OnStays
  <2>3. receipt[g] = r /\ g \notin ApprovedOn(l)
    BY <1>2, <1>4, <2>1, <2>2 DEF ApprovedOn
  <2>4. On(l)' = On(l)
    <3>1. ASSUME NEW h \in Receipts PROVE h \in On(l)' <=> h \in On(l)
      <4>1. CASE receipt[h] # NoReceipt
        BY <1>5, <4>1, OnStays
      <4>2. CASE receipt[h] = NoReceipt
        <5>1. receipt'[h] = NoReceipt
          BY <1>2, <1>6, <4>2
        <5>2. QED
          BY <4>2, <5>1 DEF On
      <4>3. QED
        BY <4>1, <4>2
    <3>2. On(l) \subseteq Receipts /\ On(l)' \subseteq Receipts
      BY DEF On
    <3>3. QED
      BY <3>1, <3>2
  <2>5. \A h \in On(l) : ~ outdated[h]
    BY <1>5, <2>1, <2>4 DEF Grows, ReceiptsGrow, On
  <2>6. PICK S, w, v : S = ApprovedOn(l) /\ w = AcceptedOf(l) /\ v = AcceptedOf(l)'
    OBVIOUS
  <2>7. ApprovedOn(l)' = S \cup {g}
    <3>1. ApprovedOn(l)' = {h \in On(l) : receipt'[h].status = "approved"}
      BY <2>4 DEF ApprovedOn
    <3>2. \A h \in On(l) : h # g => receipt'[h] = receipt[h]
      BY <1>6 DEF On
    <3>3. S = {h \in On(l) : receipt[h].status = "approved"}
      BY <2>6 DEF ApprovedOn
    <3>4. QED
      BY <1>2, <2>2, <3>1, <3>2, <3>3
  <2>8. IsFiniteSet(S) /\ S \subseteq Receipts /\ S \subseteq On(l) /\ g \notin S
    BY <2>3, <2>6, OnFinite DEF ApprovedOn
  <2>9. \A h \in S : w[h] \in Int /\ v[h] = w[h]
    <3>1. ASSUME NEW h \in S PROVE w[h] \in Int /\ v[h] = w[h]
      <4>1. h \in Receipts /\ h \in On(l) /\ receipt'[h] = receipt[h]
        BY <1>6, <2>8
      <4>2. w[h] \in Nat
        BY <2>6, <4>1, AcceptedOfType
      <4>3. w[h] = Accepted(receipt[h], l) /\ v[h] = Accepted(receipt[h], l)'
        BY <2>6, <4>1 DEF AcceptedOf
      <4>4. Accepted(receipt[h], l)' = Accepted(receipt[h], l)
        BY <4>1 DEF Accepted
      <4>5. QED
        BY <4>2, <4>3, <4>4
    <3>2. QED
      BY <3>1
  <2>10. v[g] = Accepted(r, l) /\ v[g] \in Nat
    <3>1. v[g] = Accepted(receipt[g], l)'
      BY <1>2, <2>6 DEF AcceptedOf
    <3>2. Accepted(receipt[g], l)' = Accepted(receipt[g], l)
      BY <1>2 DEF Accepted
    <3>3. Accepted(r, l) \in Nat
      BY <1>2, <1>4, AcceptedType
    <3>4. QED
      BY <2>3, <3>1, <3>2, <3>3
  <2>11. SumFunctionOnSet(w, S) = SumFunctionOnSet(v, S)
    BY <2>8, <2>9, SumSame
  <2>12. SumFunctionOnSet(v, S \cup {g}) = SumFunctionOnSet(v, S) + v[g]
    <3>1. \A h \in S \cup {g} : v[h] \in Int
      BY <2>9, <2>10
    <3>2. QED
      BY <2>8, <3>1, SumAdd
  <2>13. line[l].received = SumFunctionOnSet(w, S)
    BY <2>5, <2>6 DEF ReceivedOK
  <2>14. line'[l].received = line[l].received + Accepted(r, l)
    BY <1>3, <1>4, <1>10
  <2>15. SumFunctionOnSet(AcceptedOf(l), ApprovedOn(l))' = SumFunctionOnSet(v, S \cup {g})
    BY <2>6, <2>7
  <2>16. QED
    BY <2>10, <2>11, <2>12, <2>13, <2>14, <2>15
<1>11. QED
  BY <1>9, <1>10

\* Approving a receipt leaves the lines that are there.
LEMMA CommitPresent == ASSUME Typed, NEW c \in Clients, CommitReceipt(c) PROVE Present' \subseteq Present
<1>1. PICK r, p : r = req[c].seen /\ p = r.order
  OBVIOUS
<1>2. \A m \in LineIds \ LinesOf(p) : line'[m] = line[m]
  <2>1. PICK g : g = req[c].receipt
    OBVIOUS
  <2>2. p \in Orders /\ g \in Receipts /\ \A m \in LineIds \ LinesOf(p) : line'[m] = line[m]
    BY <1>1, <2>1, CommitEffect
  <2>3. QED
    BY <2>2
<1>3. Present' = {l \in LineIds : line'[l] \notin {Unused, Gone}}
  BY DEF Present
<1>4. QED
  BY <1>2, <1>3 DEF LinesOf, Present

\* Every step keeps the received quantities right.
LEMMA ReceivedStep ==
    ASSUME Typed, \A l \in Present : ReceivedOK(l), [Next]_vars
    PROVE  \A l \in Present' : ReceivedOK(l)'
<1>1. Typed'
  BY StepGrows
<1>2. NoReceipt.status # "approved"
  BY DEF NoReceipt
<1>3. CASE UNCHANGED vars
  <2>1. Present' = Present
    BY <1>3 DEF vars, Present
  <2>2. ASSUME NEW l \in Present PROVE ReceivedOK(l)'
    <3>1. On(l)' = On(l) /\ ApprovedOn(l)' = ApprovedOn(l) /\ AcceptedOf(l)' = AcceptedOf(l)
      BY <1>3 DEF vars, On, ApprovedOn, AcceptedOf, PoLines, Accepted
    <3>2. line' = line /\ outdated' = outdated
      BY <1>3 DEF vars
    <3>3. QED
      BY <3>1, <3>2 DEF ReceivedOK
  <2>3. QED
    BY <2>1, <2>2
<1>4. ASSUME NEW p \in Orders, CreateOrder(p) PROVE \A l \in Present' : ReceivedOK(l)'
  <2>1. UNCHANGED receipt
    BY <1>4 DEF CreateOrder
  <2>2. PICK S \in SUBSET LineIds : \E body \in [S -> LineSpecs] :
          (\A l \in S : line[l] = Unused) /\ line' = Rewritten({}, S, p, body)
    BY <1>4, CreateEffect
  <2>3. PICK body \in [S -> LineSpecs] :
          (\A l \in S : line[l] = Unused) /\ line' = Rewritten({}, S, p, body)
    BY <2>2
  <2>4. PICK D \in SUBSET LineIds : D = {}
    OBVIOUS
  <2>5. line' = Rewritten(D, S, p, body) /\ \A l \in D : line[l] # Unused
    BY <2>3, <2>4
  <2>6. Grows
    BY <1>4, CreateOrderGrows
  <2>7. QED
    BY <1>1, <2>1, <2>3, <2>5, <2>6, EditedReceived
<1>5. ASSUME NEW c \in Clients, Edits(c) PROVE \A l \in Present' : ReceivedOK(l)'
  <2>1. UNCHANGED receipt
    BY <1>5, Unread
  <2>2. PICK q \in Orders, D \in SUBSET LineIds, S \in SUBSET LineIds :
        \E body \in [S -> LineSpecs] :
          /\ \A l \in S : line[l] = Unused
          /\ \A l \in D : l \in LinesOf(q) /\ ~ Referenced(l)
          /\ line' = Rewritten(D, S, q, body)
    BY <1>5, EditEffect DEF Edits
  <2>3. PICK body \in [S -> LineSpecs] :
          /\ \A l \in S : line[l] = Unused
          /\ \A l \in D : l \in LinesOf(q) /\ ~ Referenced(l)
          /\ line' = Rewritten(D, S, q, body)
    BY <2>2
  <2>4. \A l \in D : line[l] # Unused
    BY <2>3 DEF LinesOf, Present
  <2>5. Grows
    BY <1>5, EditGrows
  <2>6. QED
    BY <1>1, <2>1, <2>3, <2>4, <2>5, EditedReceived
<1>6. ASSUME NEW c \in Clients, ReplaceLines(c) PROVE \A l \in Present' : ReceivedOK(l)'
  <2>1. PICK q, D : q = req[c].order /\ D = req[c].doomed
    OBVIOUS
  <2>2. /\ q \in Orders /\ UNCHANGED receipt
        /\ D \in SUBSET LineIds
        /\ \A l \in D : (line[l] = Gone \/ l \in LinesOf(q)) /\ line[l] # Unused
    BY <1>6, <2>1, ReplaceEffect
  <2>3. PICK S \in SUBSET LineIds : \E body \in [S -> LineSpecs] :
          (\A l \in S : line[l] = Unused) /\ line' = Rewritten(D, S, q, body)
    BY <1>6, <2>1, ReplacedLines
  <2>4. PICK body \in [S -> LineSpecs] :
          (\A l \in S : line[l] = Unused) /\ line' = Rewritten(D, S, q, body)
    BY <2>3
  <2>5. \A l \in D : line[l] # Unused
    BY <2>2
  <2>6. Grows
    BY <1>6, ReplaceGrows
  <2>7. QED
    BY <1>1, <2>2, <2>4, <2>5, <2>6, EditedReceived
<1>7. ASSUME NEW c \in Clients, Quiet(c) \/ Writes(c) \/ WriteTotal(c)
      PROVE  \A l \in Present' : ReceivedOK(l)'
  <2>1. UNCHANGED receipt
    BY <1>7, Unread
  <2>2. UNCHANGED line
    BY <1>7, QuietEffect DEF Writes, Submit, Approve, Reject, Cancel, WriteOrder, WriteTotal
  <2>3. Grows
    BY <1>7, QuietGrows, WriteGrows, TotalGrows
  <2>4. QED
    BY <1>1, <1>2, <2>1, <2>2, <2>3, UnapprovedReceived
<1>8. ASSUME NEW c \in Clients, CreateReceipt(c) PROVE \A l \in Present' : ReceivedOK(l)'
  <2>1. UNCHANGED line
    BY <1>8 DEF CreateReceipt
  <2>2. Grows
    BY <1>8, CreateReceiptGrows
  <2>3. \A g \in Receipts : \/ receipt'[g] = receipt[g]
                            \/ receipt[g] = NoReceipt /\ receipt'[g].status = "draft"
    BY <1>8, CreateReceiptStep
  <2>4. QED
    BY <1>1, <1>2, <2>1, <2>2, <2>3, UnapprovedReceived
<1>9. ASSUME NEW c \in Clients, Grades(c) PROVE \A l \in Present' : ReceivedOK(l)'
  <2>1. UNCHANGED line
    BY <1>9 DEF Grades, EditLine, SubmitForQc, RejectReceipt, WriteReceipt
  <2>2. Grows
    BY <1>9, GradeGrows
  <2>3. \A g \in Receipts : receipt[g] # NoReceipt /\ ~ outdated'[g]
           => receipt'[g] = receipt[g] \/ Graded(g)
    BY <1>9, GradeStep
  <2>4. \A g \in Receipts : receipt[g] = NoReceipt => receipt'[g].status # "approved"
    <3>1. PICK h : h = req[c].receipt
      OBVIOUS
    <3>2. /\ h \in Receipts /\ receipt[h] # NoReceipt
          /\ receipt' = [receipt EXCEPT ![h] = receipt'[h]]
      BY <1>9, <3>1, ReceiptEffect DEF Grades
    <3>3. QED
      BY <1>2, <3>2 DEF Typed, Tables
  <2>5. QED
    BY <1>1, <2>1, <2>2, <2>3, <2>4, UnapprovedReceived
<1>10. ASSUME NEW c \in Clients, CommitReceipt(c) PROVE \A l \in Present' : ReceivedOK(l)'
  BY <1>1, <1>10, CommitReceived, CommitPresent
<1>11. QED
  BY <1>3, <1>4, <1>5, <1>6, <1>7, <1>8, <1>9, <1>10, Steps

\* What has been received on a line is what the approved receipts accepted of
\* it: no approval is lost, none counts twice.
THEOREM ReceivedIsAcceptedSafe == Spec => []ReceivedIsAccepted
<1> DEFINE I == Typed /\ \A l \in Present : ReceivedOK(l)
<1>1. Init => I
  BY InitTyped DEF Init, Present
<1>2. I /\ [Next]_vars => I'
  BY StepGrows, ReceivedStep
<1>3. I => ReceivedIsAccepted
  BY ReceivedByLine
<1>4. QED
  BY <1>1, <1>2, <1>3, PTL DEF Spec
==============================================================================
