---- MODULE Receivables ----
(***************************************************************************)
(* Delivery challans and the invoices sent to buyers:                      *)
(* DeliveryChallansService and BuyerInvoicesService.  The confirmation of  *)
(* a delivery marks the challan, posts the revenue and inserts the invoice *)
(* in three commits of its own.  Ledger has the details of the posting.    *)
(***************************************************************************)
EXTENDS Requests

CONSTANTS
  Challans,       \* rows of fin.delivery_challans
  ChallanGross,   \* the amount of each
  BuyerInvoices,  \* rows of fin.buyer_invoices
  Collections,    \* amounts collected
  NoChallan       \* the challan of an invoice that does not exist

ASSUME ReceivablesAssumption ==
  /\ ChallanGross \in [Challans -> Nat]
  /\ Collections \subseteq Nat \ {0}
  /\ NoChallan \notin Challans

VARIABLES
  challan,        \* status of each challan, and whether its delivery is proved
  buyerInvoice,   \* each invoice
  arReq,          \* the request of each client
  collectedSum,   \* what was collected on each invoice, in all
  inDispute,      \* invoices whose dispute was not cleared
  revenue,        \* the revenue posted for each challan
  interrupted,    \* challans of confirmations that failed after the delivery was marked
  arOvertaken     \* challans invoiced, and invoices changed, by a request that had seen
                  \* something old

arVars == <<challan, buyerInvoice, arReq, collectedSum, inDispute, revenue, interrupted, arOvertaken>>

NoBuyerInvoice == [dc |-> NoChallan, gross |-> 0, collected |-> 0, status |-> "none"]

ReceivablesInit ==
  /\ challan = [k \in Challans |-> [status |-> "none", pod |-> FALSE]]
  /\ buyerInvoice = [i \in BuyerInvoices |-> NoBuyerInvoice]
  /\ arReq = [c \in Clients |-> Idle]
  /\ collectedSum = [i \in BuyerInvoices |-> 0]
  /\ inDispute = {}
  /\ revenue = [k \in Challans |-> 0]
  /\ interrupted = {}
  /\ arOvertaken = {}

StartArRequest(c, op, row, amount, collected) ==
  /\ arReq[c] = Idle
  /\ arReq' = [arReq EXCEPT ![c] =
       [op |-> op, row |-> row, amount |-> amount, collected |-> collected, stale |-> FALSE]]

\* createFromOrder, for an order that is neither a draft nor cancelled.
CreateChallan(k) ==
  /\ challan[k].status = "none"
  /\ challan' = [challan EXCEPT ![k].status = "draft"]
  /\ UNCHANGED <<buyerInvoice, arReq, collectedSum, inDispute, revenue, interrupted, arOvertaken>>

\* The first read of dispatch, recordPod and confirmDelivery.
ReadChallan(c) ==
  /\ \E k \in Challans :
       \/ challan[k].status = "draft" /\ StartArRequest(c, "dispatch", k, 0, 0)
       \/ challan[k].status \in {"dispatched", "delivered"} /\ StartArRequest(c, "pod", k, 0, 0)
       \/ /\ challan[k].status = "dispatched"
          /\ challan[k].pod
          /\ StartArRequest(c, "confirm", k, 0, 0)
  /\ UNCHANGED <<challan, buyerInvoice, collectedSum, inDispute, revenue, interrupted, arOvertaken>>

\* deliveryChallan.update where id.
WriteChallan(c, next, new) ==
  LET k == arReq[c].row
  IN /\ challan' = [challan EXCEPT ![k] = new]
     /\ arReq' = Overtake(arReq, c, next,
          LAMBDA d : arReq[d].row = k /\ arReq[d].op \in {"dispatch", "pod", "confirm"})
     /\ UNCHANGED <<buyerInvoice, collectedSum, inDispute, revenue, interrupted, arOvertaken>>

Dispatch(c) ==
  /\ arReq[c].op = "dispatch"
  /\ WriteChallan(c, Idle, [challan[arReq[c].row] EXCEPT !.status = "dispatched"])

RecordPod(c) ==
  /\ arReq[c].op = "pod"
  /\ WriteChallan(c, Idle, [challan[arReq[c].row] EXCEPT !.pod = TRUE])

ConfirmDelivery(c) ==
  /\ arReq[c].op = "confirm"
  /\ WriteChallan(c, [arReq[c] EXCEPT !.op = "delivered"],
                  [challan[arReq[c].row] EXCEPT !.status = "delivered"])

InvoicesOf(k) == {i \in BuyerInvoices : buyerInvoice[i].dc = k}

\* Mutant: nothing looks for an invoice of the challan.
MayInvoiceAgain(k) == challan[k].status = "delivered" /\ ChallanGross[k] > 0

\* createFromChallan: no invoice yet, the challan is delivered, its amount is not zero.
MayInvoice(k) ==
  /\ InvoicesOf(k) = {}
  /\ challan[k].status = "delivered"
  /\ ChallanGross[k] > 0

CheckChallan(c) ==
  /\ arReq[c].op = "delivered"
  /\ MayInvoice(arReq[c].row)
  /\ arReq' = [arReq EXCEPT ![c] = [@ EXCEPT !.op = "checked", !.stale = FALSE]]
  /\ UNCHANGED <<challan, buyerInvoice, collectedSum, inDispute, revenue, interrupted, arOvertaken>>

\* postJournal commits.
PostRevenue(c) ==
  /\ arReq[c].op = "checked"
  /\ revenue' = [revenue EXCEPT ![arReq[c].row] = @ + ChallanGross[arReq[c].row]]
  /\ arReq' = [arReq EXCEPT ![c].op = "posted"]
  /\ UNCHANGED <<challan, buyerInvoice, collectedSum, inDispute, interrupted, arOvertaken>>

\* The transaction that numbers and inserts the invoice: other requests that have
\* looked for an invoice of the challan have now seen something old.
InsertBuyerInvoice(c) ==
  /\ arReq[c].op = "posted"
  /\ LET k == arReq[c].row
     IN /\ \E i \in BuyerInvoices :
             /\ buyerInvoice[i] = NoBuyerInvoice
             /\ buyerInvoice' = [buyerInvoice EXCEPT ![i] =
                  [dc |-> k, gross |-> ChallanGross[k], collected |-> 0, status |-> "unpaid"]]
        /\ arReq' = Overtake(arReq, c, Idle,
             LAMBDA d : arReq[d].row = k /\ arReq[d].op \in {"checked", "posted"})
        /\ arOvertaken' = IF arReq[c].stale THEN arOvertaken \cup {k} ELSE arOvertaken
  /\ UNCHANGED <<challan, collectedSum, inDispute, revenue, interrupted>>

\* recordCollection, dispute and clearDispute read the invoice.
ReadBuyerInvoice(c) ==
  /\ \E i \in BuyerInvoices :
       LET inv == buyerInvoice[i]
       IN \/ /\ inv.status \in {"unpaid", "partial"}
             /\ \E a \in Collections :
                  inv.collected + a <= inv.gross /\ StartArRequest(c, "collect", i, a, inv.collected)
          \/ /\ inv.status \in {"unpaid", "partial", "disputed"}
             /\ StartArRequest(c, "dispute", i, 0, inv.collected)
          \/ /\ inv.status = "disputed"
             /\ StartArRequest(c, "clear", i, 0, inv.collected)
  /\ UNCHANGED <<challan, buyerInvoice, collectedSum, inDispute, revenue, interrupted, arOvertaken>>

\* buyerInvoice.update where id.
WriteBuyerInvoice(c, new) ==
  LET i == arReq[c].row
  IN /\ buyerInvoice' = [buyerInvoice EXCEPT ![i] = new]
     /\ arReq' = Overtake(arReq, c, Idle, LAMBDA d : arReq[d].row = i)
     /\ arOvertaken' = IF arReq[c].stale THEN arOvertaken \cup {i} ELSE arOvertaken
     /\ UNCHANGED <<challan, revenue, interrupted>>

StatusFor(collected, gross) ==
  IF collected <= 0 THEN "unpaid" ELSE IF collected >= gross THEN "paid" ELSE "partial"

RecordCollection(c) ==
  /\ arReq[c].op = "collect"
  /\ LET r == arReq[c]
         collected == r.collected + r.amount
     IN /\ collectedSum' = [collectedSum EXCEPT ![r.row] = @ + r.amount]
        /\ WriteBuyerInvoice(c, [buyerInvoice[r.row] EXCEPT !.collected = collected,
                                 !.status = StatusFor(collected, buyerInvoice[r.row].gross)])
  /\ UNCHANGED inDispute

Dispute(c) ==
  /\ arReq[c].op = "dispute"
  /\ inDispute' = inDispute \cup {arReq[c].row}
  /\ WriteBuyerInvoice(c, [buyerInvoice[arReq[c].row] EXCEPT !.status = "disputed"])
  /\ UNCHANGED collectedSum

\* Mutant: a cleared dispute leaves an unpaid invoice, whatever was collected.
ClearedStatusUnpaid(r, inv) == "unpaid"

\* The status after a dispute, by the collected amount that was read.
ClearedStatus(r, inv) == StatusFor(r.collected, inv.gross)

ClearDispute(c) ==
  /\ arReq[c].op = "clear"
  /\ LET r == arReq[c]
         inv == buyerInvoice[r.row]
     IN /\ inDispute' = inDispute \ {r.row}
        /\ WriteBuyerInvoice(c, [inv EXCEPT !.status = ClearedStatus(r, inv)])
  /\ UNCHANGED collectedSum

\* A check or the ledger refuses the request, or its process dies.
DropArRequest(c) ==
  /\ arReq[c] # Idle
  /\ arReq' = [arReq EXCEPT ![c] = Idle]
  /\ interrupted' = IF arReq[c].op \in {"delivered", "checked", "posted"}
                    THEN interrupted \cup {arReq[c].row} ELSE interrupted
  /\ UNCHANGED <<challan, buyerInvoice, collectedSum, inDispute, revenue, arOvertaken>>

ReceivablesNext ==
  \/ \E k \in Challans : CreateChallan(k)
  \/ \E c \in Clients :
       \/ ReadChallan(c)
       \/ Dispatch(c)
       \/ RecordPod(c)
       \/ ConfirmDelivery(c)
       \/ CheckChallan(c)
       \/ PostRevenue(c)
       \/ InsertBuyerInvoice(c)
       \/ ReadBuyerInvoice(c)
       \/ RecordCollection(c)
       \/ Dispute(c)
       \/ ClearDispute(c)
       \/ DropArRequest(c)

ReceivablesSpec == ReceivablesInit /\ [][ReceivablesNext]_arVars

InvoiceStatus == {"none", "unpaid", "partial", "paid", "disputed"}

ReceivablesTypeOK ==
  /\ challan \in [Challans -> [status : {"none", "draft", "dispatched", "delivered"}, pod : BOOLEAN]]
  /\ buyerInvoice \in [BuyerInvoices -> [dc : Challans \cup {NoChallan}, gross : Nat,
                                         collected : Nat, status : InvoiceStatus]]
  /\ arReq \in [Clients -> {Idle} \cup
       [op : {"dispatch", "pod", "confirm", "delivered", "checked", "posted",
              "collect", "dispute", "clear"},
        row : Challans \cup BuyerInvoices, amount : Nat, collected : Nat, stale : BOOLEAN]]
  /\ collectedSum \in [BuyerInvoices -> Nat]
  /\ inDispute \subseteq BuyerInvoices
  /\ revenue \in [Challans -> Nat]
  /\ interrupted \subseteq Challans
  /\ arOvertaken \subseteq Challans \cup BuyerInvoices

\* A delivered challan has one invoice and the revenue of one invoice, unless a
\* confirmation is under way or failed after it had marked the delivery, or two
\* confirmations looked for the invoice before either inserted one, which no unique
\* index forbids (delivery-challans.service.ts, confirmDelivery, and createFromChallan).
DeliveredIsInvoiced ==
  \A k \in Challans :
    challan[k].status = "delivered" =>
      \/ Cardinality(InvoicesOf(k)) = 1 /\ revenue[k] = ChallanGross[k]
      \/ \E c \in Clients : arReq[c].row = k
      \/ k \in interrupted \cup arOvertaken

\* The collected amount of an invoice is the sum of its collections and its status
\* follows from it and from its dispute, unless a request wrote over a change it had
\* not seen (recordCollection, dispute, clearDispute).
CollectedIsSum ==
  \A i \in BuyerInvoices :
    buyerInvoice[i] # NoBuyerInvoice =>
      \/ /\ buyerInvoice[i].collected = collectedSum[i]
         /\ buyerInvoice[i].status = IF i \in inDispute THEN "disputed"
                                     ELSE StatusFor(collectedSum[i], buyerInvoice[i].gross)
      \/ i \in arOvertaken
====
