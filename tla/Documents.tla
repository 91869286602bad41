---- MODULE Documents ----
(***************************************************************************)
(* The documents of sales, purchasing, production and finance.  Their      *)
(* modules share no rows, so that a product of all of them would only      *)
(* multiply states: here one of them is used (desk), chosen at the start,  *)
(* and each is checked with all the overlaps of its own requests.          *)
(***************************************************************************)
EXTENDS
  Quotations, Complaints, Payables, MasterData, Receivables, Accounts, Ledger,
  Production, Boms, Workshop

VARIABLE desk  \* the part of the system that is used

Desks ==
  {"quotations", "complaints", "payables", "masterData", "receivables", "accounts",
   "bankAccounts", "ledger", "production", "boms", "workshop"}

DocumentsInit ==
  /\ desk \in Desks
  /\ QuotationsInit
  /\ ComplaintsInit
  /\ PayablesInit
  /\ MasterDataInit
  /\ ReceivablesInit
  /\ AccountsInit
  /\ BankInit
  /\ LedgerInit
  /\ ProductionInit
  /\ BomsInit
  /\ WorkshopInit

documentsVars ==
  <<desk, quotationVars, complaintVars, payableVars, masterVars, arVars, accountsVars, bankVars,
    ledgerVars, productionVars, bomVars, workshopVars>>

\* A step of one part leaves the others alone.
Only(part) ==
  /\ desk = part
  /\ UNCHANGED desk
  /\ part # "quotations" => UNCHANGED quotationVars
  /\ part # "complaints" => UNCHANGED complaintVars
  /\ part # "payables" => UNCHANGED payableVars
  /\ part # "masterData" => UNCHANGED masterVars
  /\ part # "receivables" => UNCHANGED arVars
  /\ part # "accounts" => UNCHANGED accountsVars
  /\ part # "bankAccounts" => UNCHANGED bankVars
  /\ part # "ledger" => UNCHANGED ledgerVars
  /\ part # "production" => UNCHANGED productionVars
  /\ part # "boms" => UNCHANGED bomVars
  /\ part # "workshop" => UNCHANGED workshopVars

DocumentsNext ==
  \/ Only("quotations") /\ QuotationsNext
  \/ Only("complaints") /\ ComplaintsNext
  \/ Only("payables") /\ PayablesNext
  \/ Only("masterData") /\ MasterDataNext
  \/ Only("receivables") /\ ReceivablesNext
  \/ Only("accounts") /\ AccountsNext
  \/ Only("bankAccounts") /\ BankNext
  \/ Only("ledger") /\ LedgerNext
  \/ Only("production") /\ ProductionNext
  \/ Only("boms") /\ BomsNext
  \/ Only("workshop") /\ WorkshopNext

DocumentsSpec == DocumentsInit /\ [][DocumentsNext]_documentsVars

DocumentsTypeOK ==
  /\ desk \in Desks
  /\ QuotationsTypeOK
  /\ ComplaintsTypeOK
  /\ PayablesTypeOK
  /\ MasterDataTypeOK
  /\ ReceivablesTypeOK
  /\ AccountsTypeOK
  /\ BankTypeOK
  /\ LedgerTypeOK
  /\ ProductionTypeOK
  /\ BomsTypeOK
  /\ WorkshopTypeOK

\* An order has one winning quotation and a complaint whose actions are all done is
\* resolved, although each is decided by a count that another request can overtake; and
\* what was announced to other modules, the won quotation with its price and the resolved
\* complaint, is what the tables say (QuotationsService.close,
\* CapaActionsService.updateStatus, ComplaintsService.updateStatus).
DecidedOnce ==
  /\ OneWinner
  /\ AllDoneResolves
  /\ WonAsAnnounced
  /\ ResolvedAsAnnounced

\* Stored sums are what their parts add up to: payments of an invoice, ratings of a
\* vendor, collections, lines of a bank's file, daily production, the price of a cost
\* sheet.  Each is a read, a computation in the service and a write by id.
MoneyAddsUp ==
  /\ PaidIsSum
  /\ RatingIsAverage
  /\ CollectedIsSum
  /\ DebitsStayDebits
  /\ ProducedIsDaily
  /\ PriceFollowsCost

\* Master data stays whole: documents keep the rows they refer to, removed rows stay
\* removed and the chart of accounts has no cycle (deleteCategory, remove, assertNoCycle).
MasterRowsHold == ReferencesKept /\ RemovedStaysRemoved /\ ChartIsForest

\* The factory goes on only from what was released: it completes its orders and brings the
\* sales order to quality control after a final inspection that passed (a user may bring it
\* there without one), produces from an approved BOM, and runs a machine after its
\* maintenance (QcResultsService, ProductionOrdersService, MachinesService).
ReleasedBeforeUse == QcFollowsFinalPass /\ BuiltFromApproved /\ MaintainedIsMarked

\* What was locked, approved or authorised stays as it was: daily entries, BOMs and the
\* disposal of scrap (DailyProductionService, BomService, ScrapService).
ApprovedRecordsStand == LockedEntriesStand /\ ApprovedBomsStand /\ DisposalStands
====
