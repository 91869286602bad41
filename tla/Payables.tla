---- MODULE Payables ----
(***************************************************************************)
(* What is owed to vendors: VendorInvoicesService, and the rating that an  *)
(* approved goods receipt gives its vendor (VendorsService).  An invoice   *)
(* is matched against an approved receipt and its purchase order, and is   *)
(* paid in parts.  Amounts are in hundredths of the currency.              *)
(***************************************************************************)
EXTENDS Requests, Functions

CONSTANTS
  Vendors,           \* rows of prc.vendors
  GoodsReceipts,     \* rows of prc.goods_receipts: vendor, accepted percentage,
                     \* accepted value and total of the purchase order
  ReceiptFacts,
  VendorInvoices,    \* vendor and number of each invoice
  InvoiceVendor,
  Amounts,           \* amounts invoiced and paid
  MatchTolerancePct, \* PRC_INVOICE_MATCH_TOLERANCE_PCT
  TdsRatePct         \* PRC_TDS_RATE_PCT

\* Invoices and vendors are rows of two tables.
ASSUME PayablesAssumption ==
  /\ IsFiniteSet(GoodsReceipts)
  /\ VendorInvoices \cap Vendors = {}
  /\ ReceiptFacts \in [GoodsReceipts -> [vendor : Vendors, ratio : 0..100,
                                         acceptedValue : Nat, poTotal : Nat]]
  /\ InvoiceVendor \in [VendorInvoices -> Vendors]
  /\ Amounts \subseteq Nat \ {0}
  /\ MatchTolerancePct \in 0..100
  /\ TdsRatePct \in 0..100

VARIABLES
  approvedReceipts,  \* receipts that are approved
  rating,            \* the rating of each vendor, in tenths
  vendorInvoice,     \* each invoice
  payableReq,        \* the request of each client
  paidOut,           \* what each invoice was paid, in all
  payableOvertaken   \* rows written by a request that had seen something old

payableVars ==
  <<approvedReceipts, rating, vendorInvoice, payableReq, paidOut, payableOvertaken>>

NoInvoice == [status |-> "none", net |-> 0, paid |-> 0]

PayablesInit ==
  /\ approvedReceipts = {}
  /\ rating = [v \in Vendors |-> 0]
  /\ vendorInvoice = [i \in VendorInvoices |-> NoInvoice]
  /\ payableReq = [c \in Clients |-> Idle]
  /\ paidOut = [i \in VendorInvoices |-> 0]
  /\ payableOvertaken = {}

\* A percentage of an amount, rounded to hundredths as Math.round does.
RoundPct(amount, pct) == (amount * pct + 50) \div 100

\* The gross amount may exceed the order and what was accepted by the tolerance.
ThreeWayMatch(gross, facts) ==
  /\ gross * 100 <= facts.poTotal * (100 + MatchTolerancePct)
  /\ gross * 100 <= facts.acceptedValue * (100 + MatchTolerancePct)

\* create reads the receipt and matches the invoice; the net amount is what is left
\* after tax deducted at source.
MatchVendorInvoice(c) ==
  /\ payableReq[c] = Idle
  /\ \E i \in VendorInvoices, g \in approvedReceipts, gross \in Amounts :
       /\ ReceiptFacts[g].vendor = InvoiceVendor[i]
       /\ ThreeWayMatch(gross, ReceiptFacts[g])
       /\ payableReq' = [payableReq EXCEPT ![c] =
            [op |-> "invoice", row |-> i, amount |-> gross - RoundPct(gross, TdsRatePct),
             paid |-> 0, stale |-> FALSE]]
  /\ UNCHANGED <<approvedReceipts, rating, vendorInvoice, paidOut, payableOvertaken>>

\* The insert; a second invoice of the vendor with the same number violates the
\* unique index, and the request is dropped.
CreateVendorInvoice(c) ==
  /\ payableReq[c].op = "invoice"
  /\ vendorInvoice[payableReq[c].row] = NoInvoice
  /\ vendorInvoice' = [vendorInvoice EXCEPT ![payableReq[c].row] =
       [status |-> "pending", net |-> payableReq[c].amount, paid |-> 0]]
  /\ payableReq' = [payableReq EXCEPT ![c] = Idle]
  /\ UNCHANGED <<approvedReceipts, rating, paidOut, payableOvertaken>>

\* recordPayment reads the invoice and adds to what it has read.
ReadVendorInvoice(c) ==
  /\ payableReq[c] = Idle
  /\ \E i \in VendorInvoices, amount \in Amounts :
       LET inv == vendorInvoice[i]
       IN /\ inv.status \in {"pending", "partial"}
          /\ inv.paid + amount <= inv.net
          /\ payableReq' = [payableReq EXCEPT ![c] =
               [op |-> "pay", row |-> i, amount |-> amount, paid |-> inv.paid, stale |-> FALSE]]
  /\ UNCHANGED <<approvedReceipts, rating, vendorInvoice, paidOut, payableOvertaken>>

\* Mutant: the payment replaces what was paid before.
PaidAfterReplaced(r) == r.amount

\* What recordPayment stores: what it has read and the payment.
PaidAfter(r) == r.paid + r.amount

RecordVendorPayment(c) ==
  /\ payableReq[c].op = "pay"
  /\ LET r == payableReq[c]
         paid == PaidAfter(r)
         full == paid >= vendorInvoice[r.row].net
     IN /\ vendorInvoice' = [vendorInvoice EXCEPT ![r.row] =
             [@ EXCEPT !.paid = paid, !.status = IF full THEN "paid" ELSE "partial"]]
        /\ paidOut' = [paidOut EXCEPT ![r.row] = @ + r.amount]
        /\ payableReq' = Overtake(payableReq, c, Idle, LAMBDA d : payableReq[d].row = r.row)
        /\ payableOvertaken' = IF r.stale THEN payableOvertaken \cup {r.row} ELSE payableOvertaken
  /\ UNCHANGED <<approvedReceipts, rating>>

ReceiptsOf(v, receipts) == {g \in receipts : ReceiptFacts[g].vendor = v}

\* recomputeRating: five times the average accepted share, rounded to tenths.
RatingOf(receipts) ==
  LET n == Cardinality(receipts)
      total == SumFunctionOnSet([g \in GoodsReceipts |-> ReceiptFacts[g].ratio], receipts)
  IN (total * 50 + n * 50) \div (100 * n)

\* The transaction that approves a receipt reads the approved receipts of its
\* vendor, its own among them, and stores the rating when it commits.
ComputeRating(c) ==
  /\ payableReq[c] = Idle
  /\ \E g \in GoodsReceipts \ approvedReceipts :
       /\ \A d \in Clients : payableReq[d].row # g
       /\ LET seen == ReceiptsOf(ReceiptFacts[g].vendor, approvedReceipts \cup {g})
          IN payableReq' = [payableReq EXCEPT ![c] =
               [op |-> "approve", row |-> g, amount |-> RatingOf(seen), paid |-> 0, stale |-> FALSE]]
  /\ UNCHANGED <<approvedReceipts, rating, vendorInvoice, paidOut, payableOvertaken>>

CommitRating(c) ==
  /\ payableReq[c].op = "approve"
  /\ LET r == payableReq[c]
         v == ReceiptFacts[r.row].vendor
         sees(d) == payableReq[d].op = "approve" /\ ReceiptFacts[payableReq[d].row].vendor = v
     IN /\ approvedReceipts' = approvedReceipts \cup {r.row}
        /\ rating' = [rating EXCEPT ![v] = r.amount]
        /\ payableReq' = Overtake(payableReq, c, Idle, sees)
        \* A commit that has seen everything makes the rating right again.
        /\ payableOvertaken' = IF r.stale THEN payableOvertaken \cup {v} ELSE payableOvertaken \ {v}
  /\ UNCHANGED <<vendorInvoice, paidOut>>

\* A request is refused or rolled back, or its process dies.
DropPayableRequest(c) ==
  /\ payableReq[c] # Idle
  /\ payableReq' = [payableReq EXCEPT ![c] = Idle]
  /\ UNCHANGED <<approvedReceipts, rating, vendorInvoice, paidOut, payableOvertaken>>

PayablesNext ==
  \E c \in Clients :
    \/ MatchVendorInvoice(c)
    \/ CreateVendorInvoice(c)
    \/ ReadVendorInvoice(c)
    \/ RecordVendorPayment(c)
    \/ ComputeRating(c)
    \/ CommitRating(c)
    \/ DropPayableRequest(c)

PayablesSpec == PayablesInit /\ [][PayablesNext]_payableVars

PayableRequests ==
  {Idle} \cup [op : {"invoice", "pay", "approve"}, row : VendorInvoices \cup GoodsReceipts,
               amount : Nat, paid : Nat, stale : BOOLEAN]

PayablesTypeOK ==
  /\ approvedReceipts \subseteq GoodsReceipts
  /\ rating \in [Vendors -> 0..50]
  /\ vendorInvoice \in [VendorInvoices -> [status : {"none", "pending", "partial", "paid"},
                                           net : Nat, paid : Nat]]
  /\ payableReq \in [Clients -> PayableRequests]
  /\ paidOut \in [VendorInvoices -> Nat]
  /\ payableOvertaken \subseteq VendorInvoices \cup Vendors

\* The paid amount of an invoice is the sum of its payments, and it is paid when
\* that is the net amount, unless two payments read one paid amount
\* (vendor-invoices.service.ts, recordPayment).
PaidIsSum ==
  \A i \in VendorInvoices :
    \/ /\ vendorInvoice[i].paid = paidOut[i]
       /\ vendorInvoice[i].status = "paid" <=> paidOut[i] > 0 /\ paidOut[i] = vendorInvoice[i].net
    \/ i \in payableOvertaken

\* A vendor's rating is the average over all of its approved receipts, unless two
\* receipts were approved at once and neither saw the other (recomputeRating).
RatingIsAverage ==
  \A v \in Vendors :
    LET receipts == ReceiptsOf(v, approvedReceipts)
    IN receipts # {} => rating[v] = RatingOf(receipts) \/ v \in payableOvertaken
====
