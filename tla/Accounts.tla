---- MODULE Accounts ----
(***************************************************************************)
(* The chart of accounts, which is a forest: ChartOfAccountsService.       *)
(* Bank accounts and their statements: BankAccountsService and the parsers *)
(* of CSV and OFX files.  A bank account is linked to an active asset      *)
(* account of the chart, which may later stop being one.                   *)
(***************************************************************************)
EXTENDS Requests, Integers

CONSTANTS
  Accounts,  \* rows of fin.chart_of_accounts
  PostedTo,  \* those with lines in the ledger
  Root       \* the parent of an account at the top

ASSUME AccountsAssumption == PostedTo \subseteq Accounts /\ Root \notin Accounts

VARIABLES
  account,       \* parent of each account, and whether it is active
  chartReq,      \* the request of each client
  chartOvertaken \* accounts moved by a request whose walk another had overtaken

accountsVars == <<account, chartReq, chartOvertaken>>

NoAccount == [row |-> FALSE, parent |-> Root, active |-> FALSE]

AccountsInit ==
  /\ account = [a \in Accounts |-> NoAccount]
  /\ chartReq = [c \in Clients |-> Idle]
  /\ chartOvertaken = {}

Exists(a) == account[a].row

\* create: the parent must exist, active or not.
CreateAccount(a) ==
  /\ ~Exists(a)
  /\ \E p \in {Root} \cup {b \in Accounts : Exists(b)} :
       account' = [account EXCEPT ![a] = [row |-> TRUE, parent |-> p, active |-> TRUE]]
  /\ UNCHANGED <<chartReq, chartOvertaken>>

StartChartRequest(c, op, row, to) ==
  /\ chartReq[c] = Idle
  /\ chartReq' = [chartReq EXCEPT ![c] =
       [op |-> op, row |-> row, to |-> to, cursor |-> to,
        seen |-> IF op = "move" THEN {row} ELSE {}, stale |-> FALSE]]

\* update with a new parent, which is not the account itself: assertNoCycle starts.
StartMove(c) ==
  /\ \E a, p \in Accounts :
       /\ Exists(a)
       /\ Exists(p)
       /\ a # p
       /\ StartChartRequest(c, "move", a, p)
  /\ UNCHANGED <<account, chartOvertaken>>

\* Mutant: the walk starts with an empty set of accounts seen.
RefusedLate(r) == r.cursor \in r.seen \ {r.row}

\* The walk has come to an account it has seen.
Refused(r) == r.cursor \in r.seen

\* One await of assertNoCycle reads the parent of one account.
WalkUp(c) ==
  /\ chartReq[c].op = "move"
  /\ LET r == chartReq[c]
     IN /\ r.cursor # Root
        /\ ~Refused(r)
        /\ chartReq' = [chartReq EXCEPT ![c] =
             [r EXCEPT !.cursor = account[r.cursor].parent, !.seen = @ \cup {r.cursor}]]
  /\ UNCHANGED <<account, chartOvertaken>>

\* chartOfAccount.update: whoever has seen the account on its way up has seen an old
\* parent.
WriteAccount(c, a, new) ==
  /\ account' = [account EXCEPT ![a] = new]
  /\ chartReq' = Overtake(chartReq, c, Idle,
       LAMBDA d : account[a].parent # new.parent /\ a \in chartReq[d].seen)
  /\ chartOvertaken' = IF Stale(chartReq[c]) THEN chartOvertaken \cup {a} ELSE chartOvertaken

MoveAccount(c) ==
  /\ chartReq[c].op = "move"
  /\ chartReq[c].cursor = Root
  /\ WriteAccount(c, chartReq[c].row, [account[chartReq[c].row] EXCEPT !.parent = chartReq[c].to])

\* update without a parent, or with none: active, or the top of the chart.
EditAccount(c) ==
  /\ chartReq[c] = Idle
  /\ \E a \in Accounts, top \in BOOLEAN, on \in BOOLEAN :
       /\ Exists(a)
       /\ WriteAccount(c, a, [row |-> TRUE, active |-> on,
                             parent |-> IF top THEN Root ELSE account[a].parent])

\* remove deactivates an account that has neither ledger lines nor children.
CheckRemovable(c) ==
  /\ \E a \in Accounts :
       /\ Exists(a)
       /\ a \notin PostedTo
       /\ \A b \in Accounts : account[b].parent # a
       /\ StartChartRequest(c, "remove", a, Root)
  /\ UNCHANGED <<account, chartOvertaken>>

RemoveAccount(c) ==
  /\ chartReq[c].op = "remove"
  /\ WriteAccount(c, chartReq[c].row, [account[chartReq[c].row] EXCEPT !.active = FALSE])

DropChartRequest(c) ==
  /\ chartReq[c] # Idle
  /\ chartReq' = [chartReq EXCEPT ![c] = Idle]
  /\ UNCHANGED <<account, chartOvertaken>>

AccountsNext ==
  \/ \E a \in Accounts : CreateAccount(a)
  \/ \E c \in Clients :
       \/ StartMove(c)
       \/ WalkUp(c)
       \/ MoveAccount(c)
       \/ EditAccount(c)
       \/ CheckRemovable(c)
       \/ RemoveAccount(c)
       \/ DropChartRequest(c)

AccountsSpec == AccountsInit /\ [][AccountsNext]_accountsVars

AccountsTypeOK ==
  /\ account \in [Accounts -> [row : BOOLEAN, parent : Accounts \cup {Root}, active : BOOLEAN]]
  /\ chartReq \in [Clients -> {Idle} \cup
       [op : {"move", "remove"}, row : Accounts, to : Accounts \cup {Root},
        cursor : Accounts \cup {Root}, seen : SUBSET Accounts, stale : BOOLEAN]]
  /\ chartOvertaken \subseteq Accounts

\* The chart has no cycle, unless an account on it was moved by a request whose walk
\* another move had overtaken (chart-of-accounts.service.ts, assertNoCycle).
ChartIsForest ==
  \A S \in (SUBSET Accounts) \ {{}} :
    (\A a \in S : account[a].parent \in S) => S \cap chartOvertaken # {}

-----------------------------------------------------------------------------
\* Bank accounts and their statements.

CONSTANTS
  BankRows,        \* rows of fin.bank_accounts
  GlAccounts,      \* accounts of the chart
  StatementLines,  \* lines of a file: number, format, declared type and amount
  NoGl             \* the link of an account that does not exist

\* The lines of a file, each with a number of its own.  Of the declared types, "payment"
\* stands for PAYMENT and CHECK, "deposit" for those that start with d but for DEBIT, and
\* "credit" for all others.
ASSUME BankAssumption ==
  /\ StatementLines \subseteq [no : Nat, format : {"csv", "ofx"},
                               declared : {"none", "debit", "payment", "deposit", "credit"},
                               amount : Int]
  /\ \A l, m \in StatementLines : l.no = m.no => l = m

VARIABLES
  assets,   \* chart accounts that are active and of type ASSET
  bank,     \* the chart account of each bank account, and whether it is active
  bankTxn,  \* the imported lines of each bank account
  bankReq   \* the request of each client

bankVars == <<assets, bank, bankTxn, bankReq>>

BankInit ==
  /\ assets = GlAccounts
  /\ bank = [b \in BankRows |-> [gl |-> NoGl, active |-> FALSE]]
  /\ bankTxn = [b \in BankRows |-> {}]
  /\ bankReq = [c \in Clients |-> Idle]

\* update of the chart changes an account's type, or whether it is active.
ChangeAsset(a) ==
  /\ assets' = IF a \in assets THEN assets \ {a} ELSE assets \cup {a}
  /\ UNCHANGED <<bank, bankTxn, bankReq>>

\* create and update read the chart account.
RequireGlAccount(c) ==
  /\ bankReq[c] = Idle
  /\ \E b \in BankRows, a \in assets :
       bankReq' = [bankReq EXCEPT ![c] = [op |-> "link", row |-> b, gl |-> a]]
  /\ UNCHANGED <<assets, bank, bankTxn>>

LinkBankAccount(c) ==
  /\ bankReq[c].op = "link"
  /\ bank' = [bank EXCEPT ![bankReq[c].row] = [gl |-> bankReq[c].gl, active |-> TRUE]]
  /\ bankReq' = [bankReq EXCEPT ![c] = Idle]
  /\ UNCHANGED <<assets, bankTxn>>

DropBankRequest(c) ==
  /\ bankReq[c] # Idle
  /\ bankReq' = [bankReq EXCEPT ![c] = Idle]
  /\ UNCHANGED <<assets, bank, bankTxn>>

\* An account that was created, removed or not, is found by every operation.
BankFound(b) == bank[b].gl # NoGl

RemoveBankAccount(b) ==
  /\ BankFound(b)
  /\ bank' = [bank EXCEPT ![b].active = FALSE]
  /\ UNCHANGED <<assets, bankTxn, bankReq>>

\* parseBankCsv: a declared type that starts with d makes the line a debit and any other a
\* credit, whatever the sign of the amount.
CsvDebit(l) ==
  IF l.declared = "none" THEN l.amount < 0 ELSE l.declared \in {"debit", "deposit"}

\* Mutant: the declared type wins in an OFX file as well.
OfxDebitDeclared(l) ==
  IF l.declared = "none" THEN l.amount < 0 ELSE l.declared \in {"debit", "payment"}

\* parseBankOfx: a negative amount, or a declared debit, payment or check.
OfxDebit(l) == l.amount < 0 \/ l.declared \in {"debit", "payment"}

\* Mutant: the amount keeps its sign.
StoredAmountSigned(l) == l.amount

\* Math.abs
StoredAmount(l) == IF l.amount < 0 THEN -l.amount ELSE l.amount

\* A line as it is stored.
StoredLine(l) ==
  [no |-> l.no,
   type |-> IF (IF l.format = "csv" THEN CsvDebit(l) ELSE OfxDebit(l)) THEN "debit" ELSE "credit",
   amount |-> StoredAmount(l),
   reconciled |-> FALSE]

\* importStatement skips lines without an amount and inserts the others in one
\* transaction.  Nothing keeps a file from being imported twice.
ImportStatement(b) ==
  /\ BankFound(b)
  /\ \E lines \in SUBSET StatementLines :
       LET stored == {StoredLine(l) : l \in {x \in lines : x.amount # 0}}
       IN /\ stored # {}
          /\ bankTxn' = [bankTxn EXCEPT ![b] = @ \cup stored]
  /\ UNCHANGED <<assets, bank, bankReq>>

Reconcile(b) ==
  /\ \E t \in bankTxn[b] :
       bankTxn' = [bankTxn EXCEPT ![b] = (@ \ {t}) \cup {[t EXCEPT !.reconciled = TRUE]}]
  /\ UNCHANGED <<assets, bank, bankReq>>

BankNext ==
  \/ \E a \in GlAccounts : ChangeAsset(a)
  \/ \E b \in BankRows : RemoveBankAccount(b) \/ ImportStatement(b) \/ Reconcile(b)
  \/ \E c \in Clients : RequireGlAccount(c) \/ LinkBankAccount(c) \/ DropBankRequest(c)

BankSpec == BankInit /\ [][BankNext]_bankVars

BankTypeOK ==
  /\ assets \subseteq GlAccounts
  /\ bank \in [BankRows -> [gl : GlAccounts \cup {NoGl}, active : BOOLEAN]]
  /\ \A b \in BankRows : \A t \in bankTxn[b] :
       t.type \in {"debit", "credit"} /\ t.amount > 0 /\ t.reconciled \in BOOLEAN
  /\ bankReq \in [Clients -> {Idle} \cup [op : {"link"}, row : BankRows, gl : GlAccounts]]

\* Money that leaves the account according to a bank's file, which is a line with a
\* negative amount, is a debit: always in an OFX file, in a CSV file if the line declares
\* no type or one that starts with d.  Of a line of a CSV file that declares another type
\* (PAYMENT, CHECK) the code makes a credit (csv-ofx-parser.ts).
DebitsStayDebits ==
  \A b \in BankRows : \A t \in bankTxn[b] : \A l \in StatementLines :
    /\ t.no = l.no
    /\ l.amount < 0
    /\ l.format = "ofx" \/ l.declared \in {"none", "debit", "deposit"}
    => t.type = "debit"
====
