---- MODULE Ledger ----
(***************************************************************************)
(* Journals of the general ledger and its periods: FinanceService,         *)
(* GlService, the handler of payroll.disbursed and the trigger             *)
(* fin.check_period_open.  A method checks the period and opens a          *)
(* transaction; the trigger checks the period again for every line that is *)
(* inserted; nothing locks the period until the transaction commits.       *)
(***************************************************************************)
EXTENDS Requests, Sequences, Functions

CONSTANTS
  Periods,        \* rows of fin.gl_periods
  Journals,       \* rows of fin.gl_entries
  LineLists,      \* lists of lines: debit and credit of each
  PayrollEvents,  \* payroll.disbursed: period, net amount, and whether it is complete
  NoPeriod        \* the period of a journal that does not exist

ASSUME LedgerAssumption ==
  /\ LineLists \subseteq Seq([debit : Nat, credit : Nat])
  /\ PayrollEvents \subseteq [period : Periods, net : Nat, complete : BOOLEAN]
  /\ NoPeriod \notin Periods

VARIABLES
  period,          \* status of each period
  journal,         \* period and lines of each journal
  invoiced,        \* journals a buyer invoice refers to
  ledgerReq,       \* the request of each client
  sealed,          \* the journals of each period when it was closed
  ledgerOvertaken  \* periods changed by a transaction that checked them before the close

ledgerVars == <<period, journal, invoiced, ledgerReq, sealed, ledgerOvertaken>>

NoJournal == [period |-> NoPeriod, lines |-> <<>>]

\* The journals of a period, with their lines.
Books(p) == {<<j, journal[j].lines>> : j \in {x \in Journals : journal[x].period = p}}

LedgerInit ==
  /\ period = [p \in Periods |-> "none"]
  /\ journal = [j \in Journals |-> NoJournal]
  /\ invoiced = {}
  /\ ledgerReq = [c \in Clients |-> Idle]
  /\ sealed = [p \in Periods |-> {}]
  /\ ledgerOvertaken = {}

TotalOf(lines, side) == SumFunction([i \in DOMAIN lines |-> lines[i][side]])

\* assertBalanced
Balanced(lines) ==
  /\ Len(lines) >= 2
  /\ \A i \in DOMAIN lines : (lines[i].debit = 0) # (lines[i].credit = 0)
  /\ TotalOf(lines, "debit") = TotalOf(lines, "credit")

\* The journal the handler posts for a run, if it does not skip the event.
PayrollLines(event) ==
  <<[debit |-> event.net, credit |-> 0], [debit |-> 0, credit |-> event.net]>>

Posted(e) == e.complete /\ e.net > 0

\* A request starts; closedSince collects the periods closed after its last check.
StartLedgerRequest(c, op, row, to, lines) ==
  /\ ledgerReq[c] = Idle
  /\ ledgerReq' = [ledgerReq EXCEPT ![c] =
       [op |-> op, row |-> row, to |-> to, lines |-> lines, inTx |-> FALSE, closedSince |-> {}]]

EndLedgerRequest(c) == ledgerReq' = [ledgerReq EXCEPT ![c] = Idle]

\* createPeriod; year and month are unique.
CreatePeriod(p) ==
  /\ period[p] = "none"
  /\ period' = [period EXCEPT ![p] = "open"]
  /\ UNCHANGED <<journal, invoiced, ledgerReq, sealed, ledgerOvertaken>>

\* closePeriod, lockPeriod and unlockPeriod read the status, and write by id.
ReadPeriod(c) ==
  /\ \E p \in Periods :
       \/ period[p] = "open" /\ StartLedgerRequest(c, "period", p, "closed", <<>>)
       \/ period[p] = "closed" /\ StartLedgerRequest(c, "period", p, "locked", <<>>)
       \/ period[p] = "locked" /\ StartLedgerRequest(c, "period", p, "closed", <<>>)
  /\ UNCHANGED <<period, journal, invoiced, sealed, ledgerOvertaken>>

WritePeriod(c) ==
  /\ ledgerReq[c].op = "period"
  /\ LET p == ledgerReq[c].row
         closes == period[p] = "open"
     IN /\ period' = [period EXCEPT ![p] = ledgerReq[c].to]
        /\ sealed' = IF closes THEN [sealed EXCEPT ![p] = Books(p)] ELSE sealed
        /\ ledgerReq' = [d \in Clients |->
             IF d = c THEN Idle
             ELSE IF closes /\ ledgerReq[d] # Idle
                  THEN [ledgerReq[d] EXCEPT !.closedSince = @ \cup {p}]
             ELSE ledgerReq[d]]
  /\ UNCHANGED <<journal, invoiced, ledgerOvertaken>>

\* postJournal checks the lines and the period; the accounts may refuse it too.
CheckPost(c) ==
  /\ \E j \in Journals, p \in Periods, lines \in LineLists :
       /\ journal[j] = NoJournal
       /\ \A d \in Clients : ledgerReq[d].row # j
       /\ Balanced(lines)
       /\ period[p] = "open"
       /\ StartLedgerRequest(c, "post", j, p, lines)
  /\ UNCHANGED <<period, journal, invoiced, sealed, ledgerOvertaken>>

\* The handler of payroll.disbursed posts a journal, every time the event comes.
CheckPayroll(c) ==
  /\ \E j \in Journals, e \in PayrollEvents :
       /\ journal[j] = NoJournal
       /\ \A d \in Clients : ledgerReq[d].row # j
       /\ Posted(e)
       /\ period[e.period] = "open"
       /\ StartLedgerRequest(c, "post", j, e.period, PayrollLines(e))
  /\ UNCHANGED <<period, journal, invoiced, sealed, ledgerOvertaken>>

\* updateJournal reads the journal and its period, and the new period if there is one.
\* Without lines and date it replaces no lines: <<>>.
CheckPatch(c) ==
  /\ \E j \in Journals, to \in Periods, lines \in LineLists \cup {<<>>} :
       /\ journal[j] # NoJournal
       /\ period[journal[j].period] = "open"
       /\ period[to] = "open"
       /\ lines # <<>> => Balanced(lines)
       /\ StartLedgerRequest(c, "patch", j, to, lines)
  /\ UNCHANGED <<period, journal, invoiced, sealed, ledgerOvertaken>>

CheckDelete(c) ==
  /\ \E j \in Journals \ invoiced :
       /\ journal[j] # NoJournal
       /\ period[journal[j].period] = "open"
       /\ StartLedgerRequest(c, "delete", j, journal[j].period, <<>>)
  /\ UNCHANGED <<period, journal, invoiced, sealed, ledgerOvertaken>>

\* Mutant: the trigger rejects lines of a locked period only.
PeriodAcceptsClosed(p) == period[p] # "locked"

\* fin.check_period_open accepts a line of a journal of this period.
PeriodAccepts(p) == period[p] \notin {"closed", "locked"}

\* The transaction writes.  An update or delete waits for the row; the trigger sees
\* the period the journal has in this transaction.
BeginJournalTx(c) ==
  /\ ledgerReq[c] # Idle
  /\ LET r == ledgerReq[c]
         inserts == r.op = "post" \/ (r.op = "patch" /\ r.lines # <<>>)
     IN /\ r.op \in {"post", "patch", "delete"}
        /\ ~r.inTx
        /\ r.op # "post" => journal[r.row] # NoJournal
        /\ \A d \in Clients : ~(ledgerReq[d].row = r.row /\ d # c /\ ledgerReq[d].inTx)
        /\ inserts => PeriodAccepts(r.to)
        /\ ledgerReq' = [ledgerReq EXCEPT ![c] =
             [r EXCEPT !.inTx = TRUE, !.closedSince = IF inserts THEN @ \ {r.to} ELSE @]]
  /\ UNCHANGED <<period, journal, invoiced, sealed, ledgerOvertaken>>

\* The transaction of request c commits with journal new in row j.
CommitJournal(c, new) ==
  LET r == ledgerReq[c]
      touched == {journal[r.row].period, new.period} \cap Periods
  IN /\ r.inTx
     /\ journal' = [journal EXCEPT ![r.row] = new]
     /\ ledgerOvertaken' = ledgerOvertaken \cup (touched \cap r.closedSince)
     /\ EndLedgerRequest(c)
     /\ UNCHANGED <<period, invoiced, sealed>>

PostJournal(c) ==
  /\ ledgerReq[c].op = "post"
  /\ CommitJournal(c, [period |-> ledgerReq[c].to, lines |-> ledgerReq[c].lines])

UpdateJournal(c) ==
  /\ ledgerReq[c].op = "patch"
  /\ LET r == ledgerReq[c]
     IN CommitJournal(c, [period |-> r.to,
                          lines |-> IF r.lines = <<>> THEN journal[r.row].lines ELSE r.lines])

\* The foreign key of buyer_invoices refuses the delete of an invoiced journal.
DeleteJournal(c) ==
  /\ ledgerReq[c].op = "delete"
  /\ ledgerReq[c].row \notin invoiced
  /\ CommitJournal(c, NoJournal)

\* A buyer invoice is inserted that refers to the journal.
InvoiceJournal(j) ==
  /\ journal[j] # NoJournal
  /\ j \notin invoiced
  /\ \A d \in Clients : ~(ledgerReq[d].row = j /\ ledgerReq[d].inTx)
  /\ invoiced' = invoiced \cup {j}
  /\ UNCHANGED <<period, journal, ledgerReq, sealed, ledgerOvertaken>>

\* A transaction is rolled back, a request refused, or its process dies.
DropLedgerRequest(c) ==
  /\ ledgerReq[c] # Idle
  /\ EndLedgerRequest(c)
  /\ UNCHANGED <<period, journal, invoiced, sealed, ledgerOvertaken>>

LedgerNext ==
  \/ \E p \in Periods : CreatePeriod(p)
  \/ \E j \in Journals : InvoiceJournal(j)
  \/ \E c \in Clients :
       \/ ReadPeriod(c)
       \/ WritePeriod(c)
       \/ CheckPost(c)
       \/ CheckPayroll(c)
       \/ CheckPatch(c)
       \/ CheckDelete(c)
       \/ BeginJournalTx(c)
       \/ PostJournal(c)
       \/ UpdateJournal(c)
       \/ DeleteJournal(c)
       \/ DropLedgerRequest(c)

LedgerSpec == LedgerInit /\ [][LedgerNext]_ledgerVars

LedgerTypeOK ==
  /\ period \in [Periods -> {"none", "open", "closed", "locked"}]
  /\ \A j \in Journals :
       journal[j] = NoJournal \/ (journal[j].period \in Periods /\ Balanced(journal[j].lines))
  /\ invoiced \subseteq {j \in Journals : journal[j] # NoJournal}
  /\ \A c \in Clients :
       \/ ledgerReq[c] = Idle
       \/ /\ ledgerReq[c].op \in {"period", "post", "patch", "delete"}
          /\ ledgerReq[c].row \in Periods \cup Journals
          /\ ledgerReq[c].closedSince \subseteq Periods
  /\ ledgerOvertaken \subseteq Periods

\* The books of a closed or locked period stay as they were when it was closed, unless
\* a transaction changed them that passed its last check of the period (the trigger
\* for the period of inserted lines, the read of the method otherwise) before the close
\* (finance.service.ts; the trigger takes no lock on the period).
ClosedBooksStand ==
  \A p \in Periods :
    period[p] \in {"closed", "locked"} => Books(p) = sealed[p] \/ p \in ledgerOvertaken
====
