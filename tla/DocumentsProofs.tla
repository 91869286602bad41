-------------------------- MODULE DocumentsProofs ---------------------------
(***************************************************************************)
(* What is proved of the documents of production and finance, in the way of *)
(* TradeProofs, and of the composition of all documents: a step of one part *)
(* leaves the others alone, so that the invariants of the parts together are *)
(* inductive for the whole.                                                *)
(***************************************************************************)
EXTENDS Documents, TradeProofs

(*************************************************************************)
(* The chart of accounts.                                                *)
(* A walk to the root has not met the account that moves, whichever way the *)
(* accounts that were passed are moved meanwhile, or it is stale.        *)
(*************************************************************************)

AccountRows == [row : BOOLEAN, parent : Accounts \cup {Root}, active : BOOLEAN]

ChartRequests ==
  [op : {"move", "remove"}, row : Accounts, to : Accounts \cup {Root},
   cursor : Accounts \cup {Root}, seen : SUBSET Accounts, stale : BOOLEAN]

\* Whatever holds the new parent, and the parent of every account the walk has passed,
\* holds the account the walk has come to.
Walked(r, accounts) ==
  \A S \in SUBSET Accounts :
    r.to \in S /\ (\A x \in S : x \in r.seen /\ x # r.row => accounts[x].parent \in S) => r.cursor \in S

ChartRead(r, accounts) ==
  r.op \in {"move", "remove"} =>
    /\ r.row \in Accounts /\ accounts[r.row].row
    /\ r.op = "move" =>
         /\ r.to \in Accounts /\ accounts[r.to].row
         /\ r.cursor = Root \/ accounts[r.cursor].row
         /\ r.row \in r.seen /\ \A x \in r.seen : accounts[x].row
         /\ ~ r.stale => Walked(r, accounts)

\* The parent of an account exists.
ParentsExist(accounts) ==
  \A a \in Accounts : accounts[a].parent = Root \/ accounts[accounts[a].parent].row

AccountsInv ==
  /\ AccountsTypeOK
  /\ ParentsExist(account)
  /\ \A c \in Clients : ChartRead(chartReq[c], account)
  /\ ChartIsForest

\* The types, with the sets they are about named.
LEMMA ChartTyped ==
  AccountsTypeOK <=>
    /\ account \in [Accounts -> AccountRows]
    /\ chartReq \in [Clients -> {Idle} \cup ChartRequests]
    /\ chartOvertaken \subseteq Accounts
BY DEF AccountsTypeOK, AccountRows, ChartRequests

\* A running request is not idle, and has walked over accounts only.
LEMMA ChartKinds ==
  /\ Idle.op = "idle" /\ \A r \in ChartRequests : r # Idle /\ r.op # "idle" /\ r.stale \in BOOLEAN
  /\ \A r \in ChartRequests : r.seen \subseteq Accounts
BY DEF Idle, ChartRequests

\* A request that is not running has read nothing.
LEMMA ChartIdle == ASSUME NEW accounts PROVE ChartRead(Idle, accounts)
BY DEF ChartRead, Idle

\* A request begins, goes on or ends.
LEMMA ChartRequestStep ==
  ASSUME AccountsInv, NEW c \in Clients, NEW r \in {Idle} \cup ChartRequests,
         chartReq' = [chartReq EXCEPT ![c] = r], ChartRead(r, account),
         UNCHANGED <<account, chartOvertaken>>
  PROVE  AccountsInv'
<1>1. /\ chartReq' \in [Clients -> {Idle} \cup ChartRequests]
      /\ chartReq'[c] = r /\ \A d \in Clients : d # c => chartReq'[d] = chartReq[d]
  BY ChartTyped DEF AccountsInv
<1>2. AccountsTypeOK'
  BY <1>1 DEF AccountsInv, AccountsTypeOK, ChartRequests
<1>3. \A d \in Clients : ChartRead(chartReq'[d], account')
  BY <1>1 DEF AccountsInv
<1>4. ChartIsForest'
  BY DEF AccountsInv, ChartIsForest
<1>5. QED
  BY <1>2, <1>3, <1>4 DEF AccountsInv

\* The walk to the root and the checks write no account.
LEMMA ChartRequestSteps ==
  ASSUME AccountsInv, NEW c \in Clients,
         StartMove(c) \/ WalkUp(c) \/ CheckRemovable(c) \/ DropChartRequest(c)
  PROVE  AccountsInv'
<1>1. UNCHANGED <<account, chartOvertaken>>
  BY DEF StartMove, WalkUp, CheckRemovable, DropChartRequest
<1>2. account \in [Accounts -> AccountRows] /\ chartReq \in [Clients -> {Idle} \cup ChartRequests]
  BY ChartTyped DEF AccountsInv
<1>3. CASE DropChartRequest(c)
  BY <1>1, <1>3, ChartIdle, ChartRequestStep DEF DropChartRequest
<1>4. CASE CheckRemovable(c)
  <2>1. PICK a \in Accounts :
          /\ account[a].row
          /\ chartReq' = [chartReq EXCEPT ![c] =
               [op |-> "remove", row |-> a, to |-> Root, cursor |-> Root, seen |-> {}, stale |-> FALSE]]
    BY <1>4 DEF CheckRemovable, StartChartRequest, Exists
  <2>2. PICK r : r = [op |-> "remove", row |-> a, to |-> Root, cursor |-> Root, seen |-> {}, stale |-> FALSE]
    OBVIOUS
  <2>3. r \in ChartRequests /\ ChartRead(r, account)
    BY <2>1, <2>2 DEF ChartRequests, ChartRead
  <2>4. QED
    BY <1>1, <2>1, <2>2, <2>3, ChartRequestStep
<1>5. CASE StartMove(c)
  <2>1. PICK a \in Accounts, p \in Accounts :
          /\ account[a].row /\ account[p].row
          /\ chartReq' = [chartReq EXCEPT ![c] =
               [op |-> "move", row |-> a, to |-> p, cursor |-> p, seen |-> {a}, stale |-> FALSE]]
    BY <1>5 DEF StartMove, StartChartRequest, Exists
  <2>2. PICK r : r = [op |-> "move", row |-> a, to |-> p, cursor |-> p, seen |-> {a}, stale |-> FALSE]
    OBVIOUS
  <2>3. r \in ChartRequests
    BY <2>2 DEF ChartRequests
  <2>4. Walked(r, account)
    BY <2>2 DEF Walked
  <2>5. ChartRead(r, account)
    BY <2>1, <2>2, <2>4 DEF ChartRead
  <2>6. QED
    BY <1>1, <2>1, <2>2, <2>3, <2>5, ChartRequestStep
<1>6. CASE WalkUp(c)
  <2>1. PICK q : q = chartReq[c]
    OBVIOUS
  <2>2. PICK r : r = [q EXCEPT !.cursor = account[q.cursor].parent, !.seen = q.seen \cup {q.cursor}]
    OBVIOUS
  <2>3. q \in {Idle} \cup ChartRequests /\ ChartRead(q, account) /\ q.op = "move"
    BY <1>2, <1>6, <2>1 DEF AccountsInv, WalkUp
  <2>4. q \in ChartRequests
    BY <2>3, ChartKinds
  <2>5. q.cursor \in Accounts /\ q.cursor \notin q.seen
    BY <1>6, <2>1, <2>4 DEF WalkUp, Refused, ChartRequests
  <2>6. chartReq' = [chartReq EXCEPT ![c] = r]
    BY <1>6, <2>1, <2>2, <2>4 DEF WalkUp, ChartRequests
  <2>7. /\ r \in ChartRequests /\ r.op = "move" /\ r.row = q.row /\ r.to = q.to /\ r.stale = q.stale
        /\ r.cursor = account[q.cursor].parent /\ r.seen = q.seen \cup {q.cursor}
    BY <1>2, <2>2, <2>3, <2>4, <2>5 DEF ChartRequests, AccountRows
  <2>8. ASSUME ~ r.stale PROVE Walked(r, account)
    <3>1. Walked(q, account) /\ q.row \in q.seen
      BY <2>3, <2>7, <2>8 DEF ChartRead
    <3>2. SUFFICES ASSUME NEW S \in SUBSET Accounts, r.to \in S,
                          \A x \in S : x \in r.seen /\ x # r.row => account[x].parent \in S
                   PROVE  r.cursor \in S
      BY DEF Walked
    <3>3. q.cursor \in S
      BY <2>7, <3>1, <3>2 DEF Walked
    <3>4. q.cursor # q.row
      BY <2>5, <3>1
    <3>5. QED
      BY <2>7, <3>2, <3>3, <3>4
  <2>9. r.cursor = Root \/ account[r.cursor].row
    BY <2>5, <2>7 DEF AccountsInv, ParentsExist
  <2>10. account[q.cursor].row
    BY <2>3, <2>5, AccountsAssumption DEF ChartRead
  <2>11. ChartRead(r, account)
    BY <2>3, <2>7, <2>8, <2>9, <2>10 DEF ChartRead
  <2>12. QED
    BY <1>1, <2>6, <2>7, <2>11, ChartRequestStep
<1>7. QED
  BY <1>3, <1>4, <1>5, <1>6

\* A new account is a leaf below an account that exists.
LEMMA CreateAccountStep ==
  ASSUME AccountsInv, NEW a \in Accounts, CreateAccount(a) PROVE AccountsInv'
<1>1. PICK p \in {Root} \cup {b \in Accounts : account[b].row} :
        account' = [account EXCEPT ![a] = [row |-> TRUE, parent |-> p, active |-> TRUE]]
  BY DEF CreateAccount, Exists
<1>2. ~ account[a].row /\ UNCHANGED <<chartReq, chartOvertaken>>
  BY DEF CreateAccount, Exists
<1>3. account \in [Accounts -> AccountRows] /\ chartReq \in [Clients -> {Idle} \cup ChartRequests]
  BY ChartTyped DEF AccountsInv
<1>4. /\ account' \in [Accounts -> AccountRows] /\ account'[a].row /\ account'[a].parent = p
      /\ \A x \in Accounts : x # a => account'[x] = account[x]
  BY <1>1, <1>3 DEF AccountRows
<1>5. AccountsTypeOK'
  BY <1>2, <1>4 DEF AccountsInv, AccountsTypeOK, AccountRows
<1>6. p # a /\ \A x \in Accounts : account[x].parent \in Accounts => account[x].parent # a
  BY <1>1, <1>2, AccountsAssumption DEF AccountsInv, ParentsExist
<1>7. ParentsExist(account')
  BY <1>1, <1>3, <1>4 DEF AccountsInv, ParentsExist, AccountRows
<1>8. ASSUME NEW d \in Clients PROVE ChartRead(chartReq[d], account')
  <2>1. PICK r : r = chartReq[d]
    OBVIOUS
  <2>2. r \in {Idle} \cup ChartRequests /\ ChartRead(r, account)
    BY <1>3, <2>1 DEF AccountsInv
  <2>3. CASE r = Idle
    BY <2>1, <2>3, ChartIdle
  <2>4. CASE r \in ChartRequests
    <3>1. r.seen \subseteq Accounts /\ (r.op = "move" => a \notin r.seen)
      BY <1>2, <2>2, <2>4 DEF ChartRead, ChartRequests
    <3>2. ASSUME r.op = "move", ~ r.stale PROVE Walked(r, account')
      BY <1>4, <2>2, <3>1, <3>2 DEF ChartRead, Walked
    <3>3. \A x \in Accounts : account[x].row => account'[x].row
      BY <1>4
    <3>4. r.cursor = Root \/ r.cursor \in Accounts
      BY <2>4 DEF ChartRequests
    <3>5. QED
      BY <2>1, <2>2, <3>1, <3>2, <3>3, <3>4 DEF ChartRead
  <2>5. QED
    BY <2>2, <2>3, <2>4
<1>9. ChartIsForest'
  <2>1. ASSUME NEW S \in SUBSET Accounts, S # {}, \A x \in S : account'[x].parent \in S
        PROVE  S \cap chartOvertaken # {}
    <3>1. PICK T \in SUBSET Accounts : T = S \ {a}
      OBVIOUS
    <3>2. \A x \in T : account[x].parent \in T
      BY <1>4, <1>6, <2>1, <3>1
    <3>3. T # {}
      BY <1>4, <1>6, <2>1, <3>1
    <3>4. T \cap chartOvertaken # {}
      BY <3>2, <3>3 DEF AccountsInv, ChartIsForest
    <3>5. QED
      BY <3>1, <3>4
  <2>2. QED
    BY <1>2, <2>1 DEF ChartIsForest
<1>10. QED
  BY <1>2, <1>5, <1>7, <1>8, <1>9 DEF AccountsInv

\* An account is written: its parent stays, becomes the top, or is the end of a walk.
LEMMA WriteAccountStep ==
  ASSUME AccountsInv, NEW c \in Clients, NEW a \in Accounts, NEW new \in AccountRows,
         account[a].row, new.row, WriteAccount(c, a, new),
         \/ new.parent \in {account[a].parent, Root}
         \/ /\ chartReq[c].op = "move" /\ chartReq[c].row = a
            /\ chartReq[c].cursor = Root /\ chartReq[c].to = new.parent
  PROVE  AccountsInv'
<1>1. PICK q : q = chartReq[c]
  OBVIOUS
<1>2. PICK marks : marks = {d \in Clients : account[a].parent # new.parent /\ a \in chartReq[d].seen}
  OBVIOUS
<1>3. /\ account' = [account EXCEPT ![a] = new]
      /\ chartReq' = Marked(chartReq, c, Idle, marks)
      /\ chartOvertaken' = IF Stale(q) THEN chartOvertaken \cup {a} ELSE chartOvertaken
  BY <1>1, <1>2 DEF WriteAccount, Overtake, Marked
<1>4. /\ account \in [Accounts -> AccountRows] /\ chartReq \in [Clients -> {Idle} \cup ChartRequests]
      /\ chartOvertaken \subseteq Accounts /\ ChartRead(q, account) /\ q \in {Idle} \cup ChartRequests
  BY <1>1, ChartTyped DEF AccountsInv
<1>5. /\ account' \in [Accounts -> AccountRows] /\ account'[a] = new
      /\ \A x \in Accounts : x # a => account'[x] = account[x]
      /\ chartOvertaken' \subseteq Accounts /\ chartOvertaken \subseteq chartOvertaken'
  BY <1>3, <1>4
<1>6. \A x \in Accounts : account[x].row => account'[x].row
  BY <1>5
<1>7. ASSUME NEW d \in Clients, d # c
      PROVE  chartReq'[d] \in {Idle} \cup ChartRequests /\ ChartRead(chartReq'[d], account')
  <2>1. PICK x, y : x = chartReq'[d] /\ y = chartReq[d]
    OBVIOUS
  <2>2. /\ y \in {Idle} \cup ChartRequests /\ ChartRead(y, account)
        /\ x = IF y # Idle /\ d \in marks THEN [y EXCEPT !.stale = TRUE] ELSE y
    BY <1>3, <1>4, <1>7, <2>1 DEF AccountsInv, Marked
  <2>3. CASE y = Idle
    BY <2>1, <2>2, <2>3, ChartIdle
  <2>4. CASE y \in ChartRequests
    <3>1. y # Idle /\ y.seen \subseteq Accounts /\ y.cursor \in Accounts \cup {Root}
      BY <2>4, ChartKinds DEF ChartRequests
    <3>2. /\ x \in ChartRequests /\ x.op = y.op /\ x.row = y.row /\ x.to = y.to /\ x.cursor = y.cursor
          /\ x.seen = y.seen /\ (d \in marks => x.stale) /\ (d \notin marks => x = y)
      BY <2>2, <2>4, <3>1 DEF ChartRequests
    <3>3. ASSUME x.op = "move", ~ x.stale PROVE Walked(x, account')
      <4>1. x = y /\ Walked(y, account)
        BY <2>2, <3>2, <3>3 DEF ChartRead
      <4>2. a \in y.seen => account[a].parent = new.parent
        BY <1>2, <2>1, <3>2, <3>3
      <4>3. \A z \in Accounts : z \in y.seen => account'[z].parent = account[z].parent
        BY <1>5, <4>2
      <4>4. QED
        BY <4>1, <4>3 DEF Walked
    <3>4. ChartRead(x, account')
      BY <1>6, <2>2, <3>1, <3>2, <3>3 DEF ChartRead
    <3>5. QED
      BY <2>1, <3>2, <3>4
  <2>5. QED
    BY <2>2, <2>3, <2>4
<1>8. chartReq'[c] = Idle
  BY <1>3 DEF Marked
<1>9. chartReq' \in [Clients -> {Idle} \cup ChartRequests]
  <2>1. \A d \in Clients : chartReq'[d] \in {Idle} \cup ChartRequests
    BY <1>7, <1>8
  <2>2. chartReq' = [d \in Clients |-> chartReq'[d]]
    BY <1>3 DEF Marked
  <2>3. QED
    BY ONLY <2>1, <2>2
<1>10. AccountsTypeOK'
  BY <1>5, <1>9 DEF AccountsTypeOK, AccountRows, ChartRequests
<1>11. \A d \in Clients : ChartRead(chartReq'[d], account')
  BY <1>7, <1>8, ChartIdle
<1>12. new.parent = Root \/ account[new.parent].row
  BY <1>1, <1>4 DEF AccountsInv, ParentsExist, ChartRead
<1>13. ParentsExist(account')
  <2>1. ASSUME NEW x \in Accounts PROVE account'[x].parent = Root \/ account'[account'[x].parent].row
    <3>1. account'[x].parent = Root \/ (account'[x].parent \in Accounts /\ account[account'[x].parent].row)
      BY <1>4, <1>5, <1>12 DEF AccountsInv, ParentsExist, AccountRows
    <3>2. QED
      BY <1>6, <3>1
  <2>2. QED
    BY <2>1 DEF ParentsExist
<1>14. ChartIsForest'
  <2>1. ASSUME NEW S \in SUBSET Accounts, S # {}, \A x \in S : account'[x].parent \in S
        PROVE  S \cap chartOvertaken' # {}
    <3>1. CASE a \notin S \/ new.parent = account[a].parent
      <4>1. \A x \in S : account[x].parent \in S
        BY <1>5, <2>1, <3>1
      <4>2. QED
        BY <1>5, <2>1, <4>1 DEF AccountsInv, ChartIsForest
    <3>2. CASE a \in S /\ new.parent # account[a].parent
      <4>1. new.parent \in S /\ new.parent # Root
        BY <1>5, <2>1, <3>2, AccountsAssumption
      <4>2. q.op = "move" /\ q.row = a /\ q.cursor = Root /\ q.to = new.parent
        BY <1>1, <3>2, <4>1
      <4>3. q \in ChartRequests /\ q # Idle
        BY <1>4, <4>2, ChartKinds
      <4>4. CASE q.stale
        BY <1>3, <3>2, <4>3, <4>4 DEF Stale
      <4>5. CASE ~ q.stale
        <5>1. Walked(q, account)
          BY <1>4, <4>2, <4>5 DEF ChartRead
        <5>2. \A x \in S : x \in q.seen /\ x # q.row => account[x].parent \in S
          BY <1>5, <2>1, <4>2
        <5>3. Root \in S
          BY <4>1, <4>2, <5>1, <5>2 DEF Walked
        <5>4. QED
          BY <5>3, AccountsAssumption
      <4>6. QED
        BY <4>4, <4>5
    <3>3. QED
      BY <3>1, <3>2
  <2>2. QED
    BY <2>1 DEF ChartIsForest
<1>15. QED
  BY <1>10, <1>11, <1>13, <1>14 DEF AccountsInv

\* A move, an edit and a removal write the account that was checked.
LEMMA AccountWrites ==
  ASSUME AccountsInv, NEW c \in Clients, MoveAccount(c) \/ EditAccount(c) \/ RemoveAccount(c)
  PROVE  AccountsInv'
<1>1. account \in [Accounts -> AccountRows] /\ ParentsExist(account)
  BY ChartTyped DEF AccountsInv
<1>2. CASE EditAccount(c)
  <2>1. PICK a \in Accounts, top \in BOOLEAN, on \in BOOLEAN :
          /\ account[a].row
          /\ WriteAccount(c, a, [row |-> TRUE, active |-> on, parent |-> IF top THEN Root ELSE account[a].parent])
    BY <1>2 DEF EditAccount, Exists
  <2>2. PICK new : new = [row |-> TRUE, active |-> on, parent |-> IF top THEN Root ELSE account[a].parent]
    OBVIOUS
  <2>3. new \in AccountRows /\ new.row /\ new.parent \in {account[a].parent, Root}
    BY <1>1, <2>1, <2>2 DEF AccountRows
  <2>4. QED
    BY <2>1, <2>2, <2>3, WriteAccountStep
<1>3. CASE MoveAccount(c) \/ RemoveAccount(c)
  <2>1. PICK q : q = chartReq[c]
    OBVIOUS
  <2>2. PICK a : a = q.row
    OBVIOUS
  <2>3. q.op \in {"move", "remove"} /\ ChartRead(q, account)
    BY <1>3, <2>1 DEF MoveAccount, RemoveAccount, AccountsInv
  <2>4. a \in Accounts /\ account[a].row /\ account[a] \in AccountRows
    BY <1>1, <2>2, <2>3 DEF ChartRead
  <2>5. CASE MoveAccount(c)
    <3>1. PICK new : new = [account[a] EXCEPT !.parent = q.to]
      OBVIOUS
    <3>2. q.op = "move" /\ q.cursor = Root /\ WriteAccount(c, a, new) /\ q.to \in Accounts
      BY <2>1, <2>2, <2>3, <2>5, <3>1 DEF MoveAccount, ChartRead
    <3>3. new \in AccountRows /\ new.row /\ new.parent = q.to
      BY <2>4, <3>1, <3>2 DEF AccountRows
    <3>4. QED
      BY <2>1, <2>2, <2>4, <3>2, <3>3, WriteAccountStep
  <2>6. CASE RemoveAccount(c)
    <3>1. PICK new : new = [account[a] EXCEPT !.active = FALSE]
      OBVIOUS
    <3>2. WriteAccount(c, a, new)
      BY <2>1, <2>2, <2>6, <3>1 DEF RemoveAccount
    <3>3. new \in AccountRows /\ new.row /\ new.parent = account[a].parent
      BY <2>4, <3>1 DEF AccountRows
    <3>4. QED
      BY <2>4, <3>2, <3>3, WriteAccountStep
  <2>7. QED
    BY <1>3, <2>5, <2>6
<1>4. QED
  BY <1>2, <1>3

\* The chart is empty at the start.
LEMMA AccountsStart == AccountsInit => AccountsInv
<1> SUFFICES ASSUME AccountsInit PROVE AccountsInv
  OBVIOUS
<1>1. AccountsTypeOK /\ ParentsExist(account)
  BY DEF AccountsInit, AccountsTypeOK, NoAccount, ParentsExist
<1>2. \A c \in Clients : ChartRead(chartReq[c], account)
  BY ChartIdle DEF AccountsInit
<1>3. ChartIsForest
  BY AccountsAssumption DEF AccountsInit, ChartIsForest, NoAccount
<1>4. QED
  BY <1>1, <1>2, <1>3 DEF AccountsInv

\* Every step of the chart of accounts keeps the invariant.
LEMMA AccountsStep == ASSUME AccountsInv, [AccountsNext]_accountsVars PROVE AccountsInv'
<1>1. CASE \E a \in Accounts : CreateAccount(a)
  BY <1>1, CreateAccountStep
<1>2. ASSUME NEW c \in Clients,
             \/ StartMove(c) \/ WalkUp(c) \/ MoveAccount(c) \/ EditAccount(c) \/ CheckRemovable(c)
             \/ RemoveAccount(c) \/ DropChartRequest(c)
      PROVE  AccountsInv'
  BY <1>2, ChartRequestSteps, AccountWrites
<1>3. CASE UNCHANGED accountsVars
  BY <1>3 DEF accountsVars, AccountsInv, AccountsTypeOK, ParentsExist, ChartIsForest
<1>4. QED
  BY <1>1, <1>2, <1>3 DEF AccountsNext

(*************************************************************************)
(* Bank accounts.                                                        *)
(* Every imported row is a line of a file, with the type of that line.   *)
(*************************************************************************)

\* The rows of fin.bank_transactions.
BankTxns ==
  [no : Nat, type : {"debit", "credit"}, amount : Nat \ {0}, reconciled : BOOLEAN]

\* Every imported row is a line of a file with an amount, reconciled or not.
ImportedFrom(t) ==
  \E l \in StatementLines : l.amount # 0 /\ t = [StoredLine(l) EXCEPT !.reconciled = t.reconciled]

BankInv ==
  /\ assets \subseteq GlAccounts
  /\ bank \in [BankRows -> [gl : GlAccounts \cup {NoGl}, active : BOOLEAN]]
  /\ bankTxn \in [BankRows -> SUBSET BankTxns]
  /\ \A b \in BankRows : \A t \in bankTxn[b] : ImportedFrom(t)
  /\ bankReq \in [Clients -> {Idle} \cup [op : {"link"}, row : BankRows, gl : GlAccounts]]

\* A line with an amount is stored as a row with a positive one.
LEMMA StoredLineType ==
  ASSUME NEW l \in StatementLines, l.amount # 0
  PROVE  /\ StoredLine(l) \in BankTxns
         /\ ImportedFrom(StoredLine(l))
<1>1. l.no \in Nat /\ l.amount \in Int
  BY BankAssumption
<1>2. StoredAmount(l) \in Nat \ {0}
  BY <1>1 DEF StoredAmount
<1>3. StoredLine(l) \in BankTxns
  BY <1>1, <1>2 DEF StoredLine, BankTxns
<1>4. StoredLine(l) = [StoredLine(l) EXCEPT !.reconciled = StoredLine(l).reconciled]
  BY <1>3 DEF BankTxns
<1>5. QED
  BY <1>3, <1>4 DEF ImportedFrom

\* A row that is reconciled is still the row of its line.
LEMMA ReconciledLine ==
  ASSUME NEW t \in BankTxns, ImportedFrom(t)
  PROVE  /\ [t EXCEPT !.reconciled = TRUE] \in BankTxns
         /\ ImportedFrom([t EXCEPT !.reconciled = TRUE])
<1>1. PICK l \in StatementLines : l.amount # 0 /\ t = [StoredLine(l) EXCEPT !.reconciled = t.reconciled]
  BY DEF ImportedFrom
<1>2. StoredLine(l) \in BankTxns
  BY <1>1, StoredLineType
<1>3. [t EXCEPT !.reconciled = TRUE] \in BankTxns
  BY DEF BankTxns
<1>4. [t EXCEPT !.reconciled = TRUE] = [StoredLine(l) EXCEPT !.reconciled = TRUE]
  BY <1>1, <1>2 DEF BankTxns
<1>5. [t EXCEPT !.reconciled = TRUE].reconciled = TRUE
  BY DEF BankTxns
<1>6. QED
  BY <1>1, <1>3, <1>4, <1>5 DEF ImportedFrom

\* A row of a line with a negative amount is a debit, unless a CSV file declared another type.
LEMMA BankInvDebits == ASSUME BankInv PROVE BankTypeOK /\ DebitsStayDebits
<1>1. BankTypeOK
  BY DEF BankInv, BankTypeOK, BankTxns
<1>2. ASSUME NEW b \in BankRows, NEW t \in bankTxn[b], NEW l \in StatementLines,
             t.no = l.no, l.amount < 0,
             l.format = "ofx" \/ l.declared \in {"none", "debit", "deposit"}
      PROVE  t.type = "debit"
  <2>1. PICK m \in StatementLines :
          m.amount # 0 /\ t = [StoredLine(m) EXCEPT !.reconciled = t.reconciled]
    BY DEF BankInv, ImportedFrom
  <2>2. StoredLine(m).no = m.no /\ StoredLine(m) \in BankTxns
    BY <2>1, StoredLineType DEF StoredLine
  <2>3. t.no = m.no /\ t.type = StoredLine(m).type
    BY <2>1, <2>2 DEF BankTxns
  <2>4. m = l
    BY <1>2, <2>3, BankAssumption
  <2>5. l.format \in {"csv", "ofx"} /\ l.declared \in {"none", "debit", "payment", "deposit", "credit"}
    BY BankAssumption
  <2>6. IF l.format = "csv" THEN CsvDebit(l) ELSE OfxDebit(l)
    BY <1>2, <2>5 DEF CsvDebit, OfxDebit
  <2>7. StoredLine(l).type = "debit"
    BY <2>6 DEF StoredLine
  <2>8. QED
    BY <2>3, <2>4, <2>7
<1>3. DebitsStayDebits
  BY <1>2 DEF DebitsStayDebits
<1>4. QED
  BY <1>1, <1>3

\* At the start nothing is imported.
LEMMA BankStart == ASSUME BankInit PROVE BankInv
BY DEF BankInit, BankInv

\* Each operation imports lines, or reconciles what was imported.
LEMMA BankStep == ASSUME BankInv, [BankNext]_bankVars PROVE BankInv'
<1>1. CASE UNCHANGED bankVars
  BY <1>1 DEF bankVars, BankInv
<1>2. ASSUME NEW a \in GlAccounts, ChangeAsset(a) PROVE BankInv'
  BY <1>2 DEF ChangeAsset, BankInv
<1>3. ASSUME NEW b \in BankRows, RemoveBankAccount(b) PROVE BankInv'
  BY <1>3 DEF RemoveBankAccount, BankInv
<1>4. ASSUME NEW b \in BankRows, ImportStatement(b) PROVE BankInv'
  <2>1. PICK lines \in SUBSET StatementLines :
          bankTxn' = [bankTxn EXCEPT ![b] = @ \cup {StoredLine(l) : l \in {x \in lines : x.amount # 0}}]
    BY <1>4 DEF ImportStatement
  <2>2. PICK stored : stored = {StoredLine(l) : l \in {x \in lines : x.amount # 0}}
    OBVIOUS
  <2>3. \A t \in stored : t \in BankTxns /\ ImportedFrom(t)
    BY <2>2, StoredLineType
  <2>4. bankTxn' = [bankTxn EXCEPT ![b] = bankTxn[b] \cup stored]
    BY <2>1, <2>2
  <2>5. bankTxn' \in [BankRows -> SUBSET BankTxns]
    BY <2>3, <2>4 DEF BankInv
  <2>6. \A o \in BankRows : \A t \in bankTxn'[o] : t \in bankTxn[o] \/ t \in stored
    BY <2>4 DEF BankInv
  <2>7. \A o \in BankRows : \A t \in bankTxn'[o] : ImportedFrom(t)
    BY <2>3, <2>6 DEF BankInv
  <2>8. UNCHANGED <<assets, bank, bankReq>>
    BY <1>4 DEF ImportStatement
  <2>9. QED
    BY <2>5, <2>7, <2>8 DEF BankInv
<1>5. ASSUME NEW b \in BankRows, Reconcile(b) PROVE BankInv'
  <2>1. PICK t \in bankTxn[b] :
          bankTxn' = [bankTxn EXCEPT ![b] = (@ \ {t}) \cup {[t EXCEPT !.reconciled = TRUE]}]
    BY <1>5 DEF Reconcile
  <2>2. PICK u : u = [t EXCEPT !.reconciled = TRUE]
    OBVIOUS
  <2>3. t \in BankTxns /\ ImportedFrom(t)
    BY DEF BankInv
  <2>4. u \in BankTxns /\ ImportedFrom(u)
    BY <2>2, <2>3, ReconciledLine
  <2>5. bankTxn' = [bankTxn EXCEPT ![b] = (bankTxn[b] \ {t}) \cup {u}]
    BY <2>1, <2>2
  <2>6. bankTxn' \in [BankRows -> SUBSET BankTxns]
    BY <2>4, <2>5 DEF BankInv
  <2>7. \A o \in BankRows : \A x \in bankTxn'[o] : x \in bankTxn[o] \/ x = u
    BY <2>5 DEF BankInv
  <2>8. \A o \in BankRows : \A x \in bankTxn'[o] : ImportedFrom(x)
    BY <2>4, <2>7 DEF BankInv
  <2>9. UNCHANGED <<assets, bank, bankReq>>
    BY <1>5 DEF Reconcile
  <2>10. QED
    BY <2>6, <2>8, <2>9 DEF BankInv
<1>6. ASSUME NEW c \in Clients, RequireGlAccount(c) PROVE BankInv'
  BY <1>6 DEF RequireGlAccount, BankInv
<1>7. ASSUME NEW c \in Clients, LinkBankAccount(c) PROVE BankInv'
  BY <1>7 DEF LinkBankAccount, BankInv, Idle
<1>8. ASSUME NEW c \in Clients, DropBankRequest(c) PROVE BankInv'
  BY <1>8 DEF DropBankRequest, BankInv
<1>9. QED
  BY <1>1, <1>2, <1>3, <1>4, <1>5, <1>6, <1>7, <1>8 DEF BankNext

(*************************************************************************)
(* The general ledger.                                                   *)
(* A period in which a request will write was open when the request looked, *)
(* and what closed it since is recorded.                                 *)
(*************************************************************************)

\* The lines of a journal.
GlLines == Seq([debit : Nat, credit : Nat])

PeriodStatus == {"none", "open", "closed", "locked"}
JournalOps == {"post", "patch", "delete"}

LedgerRequests ==
  [op : {"period"} \cup JournalOps, row : Periods \cup Journals,
   to : Periods \cup {"closed", "locked"}, lines : GlLines, inTx : BOOLEAN,
   closedSince : SUBSET Periods]

LedgerTables ==
  /\ period \in [Periods -> PeriodStatus]
  /\ journal \in [Journals -> [period : Periods \cup {NoPeriod}, lines : GlLines]]
  /\ invoiced \subseteq {j \in Journals : journal[j] # NoJournal}
  /\ ledgerReq \in [Clients -> {Idle} \cup LedgerRequests]
  /\ sealed \in [Periods -> SUBSET (Journals \X GlLines)]
  /\ ledgerOvertaken \subseteq Periods

JournalOK(new) == new = NoJournal \/ (new.period \in Periods /\ Balanced(new.lines))

\* Period p was open when request r checked it last, and has been closed at most since.
CheckedOpen(r, p, prd, over) ==
  prd[p] = "open" \/ (prd[p] # "none" /\ p \in r.closedSince \cup over)

LedgerRequestOK(r, prd, jrn, over) ==
  /\ r.op = "period" => /\ r.row \in Periods /\ prd[r.row] # "none"
                        /\ r.to \in {"closed", "locked"} /\ ~ r.inTx
  /\ r.op \in JournalOps =>
        /\ r.row \in Journals /\ r.to \in Periods /\ CheckedOpen(r, r.to, prd, over)
        /\ jrn[r.row] # NoJournal => CheckedOpen(r, jrn[r.row].period, prd, over)
  /\ r.op = "post" => jrn[r.row] = NoJournal /\ Balanced(r.lines)
  /\ r.op = "patch" => r.lines = <<>> \/ Balanced(r.lines)
  /\ r.op \in {"patch", "delete"} /\ r.inTx => jrn[r.row] # NoJournal

\* Two requests on a journal: it exists, and one of them waits.
LedgerApart(reqs) ==
  \A c, d \in Clients :
    c # d /\ reqs[c].op \in JournalOps /\ reqs[d].op \in JournalOps /\ reqs[c].row = reqs[d].row
      => reqs[c].op # "post" /\ ~ (reqs[c].inTx /\ reqs[d].inTx)

LedgerInv ==
  /\ LedgerTables
  /\ \A j \in Journals : JournalOK(journal[j])
  /\ \A c \in Clients : LedgerRequestOK(ledgerReq[c], period, journal, ledgerOvertaken)
  /\ LedgerApart(ledgerReq)
  /\ ClosedBooksStand

\* Requests end, and one begins or continues.
LEMMA LedgerRequestStep ==
  ASSUME LedgerInv, NEW c \in Clients, NEW r \in {Idle} \cup LedgerRequests,
         ledgerReq' = [ledgerReq EXCEPT ![c] = r],
         UNCHANGED <<period, journal, invoiced, sealed, ledgerOvertaken>>,
         LedgerRequestOK(r, period, journal, ledgerOvertaken),
         \A d \in Clients \ {c} :
           r.op \in JournalOps /\ ledgerReq[d].op \in JournalOps /\ ledgerReq[d].row = r.row
             => r.op # "post" /\ ledgerReq[d].op # "post" /\ ~ (r.inTx /\ ledgerReq[d].inTx)
  PROVE  LedgerInv'
<1>1. /\ ledgerReq'[c] = r /\ ledgerReq' \in [Clients -> {Idle} \cup LedgerRequests]
      /\ \A d \in Clients : d # c => ledgerReq'[d] = ledgerReq[d]
  BY DEF LedgerInv, LedgerTables
<1>2. LedgerTables'
  BY <1>1 DEF LedgerInv, LedgerTables
<1>3. \A j \in Journals : JournalOK(journal[j])'
  BY DEF LedgerInv, JournalOK
<1>4. ASSUME NEW d \in Clients
      PROVE  LedgerRequestOK(ledgerReq'[d], period, journal, ledgerOvertaken)
  BY <1>1 DEF LedgerInv
<1>5. LedgerApart(ledgerReq')
  BY <1>1 DEF LedgerInv, LedgerApart
<1>6. ClosedBooksStand'
  BY DEF LedgerInv, ClosedBooksStand, Books
<1>7. QED
  BY <1>2, <1>3, <1>4, <1>5, <1>6 DEF LedgerInv

\* A client without a request.
LEMMA LedgerIdle ==
  /\ Idle.op = "idle" /\ \A r \in LedgerRequests : r.op # "idle" /\ r # Idle
  /\ LedgerRequestOK(Idle, period, journal, ledgerOvertaken)
BY DEF Idle, LedgerRequests, JournalOps, LedgerRequestOK

\* The request of a client, by its kind.
LEMMA LedgerRequestOf ==
  ASSUME LedgerInv, NEW c \in Clients, NEW r, r = ledgerReq[c], r # Idle
  PROVE  /\ r \in LedgerRequests
         /\ LedgerRequestOK(r, period, journal, ledgerOvertaken)
BY DEF LedgerInv, LedgerTables

\* A request that ends has written nothing by its end.
LEMMA LedgerEnds ==
  ASSUME LedgerInv, NEW c \in Clients, EndLedgerRequest(c),
         UNCHANGED <<period, journal, invoiced, sealed, ledgerOvertaken>>
  PROVE  LedgerInv'
BY LedgerRequestStep, LedgerIdle DEF EndLedgerRequest, JournalOps

\* A debit and a credit of the net amount balance.
LEMMA PayrollBalances ==
  ASSUME NEW e \in PayrollEvents, Posted(e)
  PROVE  PayrollLines(e) \in GlLines /\ Balanced(PayrollLines(e))
<1>1. PICK net : net = e.net
  OBVIOUS
<1>2. net \in Nat /\ net > 0
  BY <1>1, LedgerAssumption DEF Posted
<1>3. PICK lines : lines = PayrollLines(e)
  OBVIOUS
<1>4. /\ lines \in GlLines /\ Len(lines) = 2 /\ DOMAIN lines = {1, 2}
      /\ lines[1].debit = net /\ lines[1].credit = 0
      /\ lines[2].debit = 0 /\ lines[2].credit = net
  BY <1>1, <1>2, <1>3 DEF PayrollLines, GlLines
<1>5. ASSUME NEW w, DOMAIN w = {1, 2}, w[1] \in Nat, w[2] \in Nat
      PROVE  SumFunction(w) = w[1] + w[2]
  <2>0. IsFiniteSet({1})
    BY FS_Singleton
  <2>1. SumFunction(w) = SumFunctionOnSet(w, {1} \cup {2})
    <3>1. DOMAIN w = {1} \cup {2}
      BY <1>5
    <3>2. QED
      BY <3>1 DEF SumFunction
  <2>2. SumFunctionOnSet(w, {1} \cup {2}) = SumFunctionOnSet(w, {1}) + w[2]
    <3>1. 2 \notin {1} /\ \A y \in {1} \cup {2} : w[y] \in Int
      BY <1>5
    <3>2. QED
      BY <2>0, <3>1, SumAdd
  <2>3. SumFunctionOnSet(w, {1}) = w[1]
    <3>1. \A y \in {1} : w[y] \in Int
      BY <1>5
    <3>2. SumFunctionOnSet(w, {1}) = w[1] + SumFunctionOnSet(w, {1} \ {1})
      BY <2>0, <3>1, SumElement
    <3>3. SumFunctionOnSet(w, {}) = 0 /\ {1} \ {1} = {}
      BY <2>0, <3>1, SumType
    <3>4. QED
      BY <1>5, <3>2, <3>3
  <2>4. QED
    BY <2>1, <2>2, <2>3
<1>6. ASSUME NEW side \in {"debit", "credit"} PROVE TotalOf(lines, side) = net
  <2>1. PICK w : w = [i \in DOMAIN lines |-> lines[i][side]]
    OBVIOUS
  <2>2. DOMAIN w = {1, 2} /\ w[1] = lines[1][side] /\ w[2] = lines[2][side]
    BY <1>4, <2>1
  <2>3. w[1] \in Nat /\ w[2] \in Nat /\ w[1] + w[2] = net
    BY <1>2, <1>4, <2>2
  <2>4. QED
    BY <1>5, <2>1, <2>2, <2>3 DEF TotalOf
<1>7. QED
  BY <1>2, <1>3, <1>4, <1>6 DEF Balanced

\* The requests begin.
LEMMA LedgerBegins ==
  ASSUME LedgerInv, NEW c \in Clients, NEW op, NEW row, NEW to, NEW lines \in GlLines,
         StartLedgerRequest(c, op, row, to, lines),
         UNCHANGED <<period, journal, invoiced, sealed, ledgerOvertaken>>,
         \/ /\ op = "period" /\ row \in Periods /\ period[row] # "none"
            /\ to \in {"closed", "locked"}
         \/ /\ op \in JournalOps /\ row \in Journals /\ to \in Periods /\ period[to] = "open"
            /\ journal[row] # NoJournal => period[journal[row].period] = "open"
            /\ op = "post" => /\ journal[row] = NoJournal /\ Balanced(lines)
                              /\ \A d \in Clients : ledgerReq[d].row # row
            /\ op # "post" => journal[row] # NoJournal
            /\ op = "patch" => lines = <<>> \/ Balanced(lines)
  PROVE  LedgerInv'
<1>1. PICK r : r = [op |-> op, row |-> row, to |-> to, lines |-> lines, inTx |-> FALSE,
                    closedSince |-> {}]
  OBVIOUS
<1>2. r \in LedgerRequests /\ ledgerReq' = [ledgerReq EXCEPT ![c] = r]
  BY <1>1 DEF LedgerRequests, StartLedgerRequest, JournalOps
<1>3. LedgerRequestOK(r, period, journal, ledgerOvertaken)
  BY <1>1 DEF LedgerRequestOK, CheckedOpen, JournalOps
<1>4. ASSUME NEW d \in Clients \ {c}, r.op \in JournalOps, ledgerReq[d].op \in JournalOps,
             ledgerReq[d].row = r.row
      PROVE  r.op # "post" /\ ledgerReq[d].op # "post" /\ ~ (r.inTx /\ ledgerReq[d].inTx)
  <2>1. r.op # "post"
    BY <1>1, <1>4
  <2>2. journal[row] # NoJournal
    BY <1>1, <1>4, <2>1 DEF JournalOps
  <2>3. LedgerRequestOK(ledgerReq[d], period, journal, ledgerOvertaken)
    BY DEF LedgerInv
  <2>4. QED
    BY <1>1, <1>4, <2>1, <2>2, <2>3 DEF LedgerRequestOK
<1>5. QED
  BY <1>2, <1>3, <1>4, LedgerRequestStep

\* The checks before a transaction write nothing.
LEMMA LedgerReads ==
  ASSUME LedgerInv, NEW c \in Clients,
         ReadPeriod(c) \/ CheckPost(c) \/ CheckPayroll(c) \/ CheckPatch(c) \/ CheckDelete(c)
  PROVE  LedgerInv'
<1>1. <<>> \in GlLines /\ LineLists \subseteq GlLines
  BY LedgerAssumption DEF GlLines
<1>2. CASE ReadPeriod(c)
  <2>1. PICK p \in Periods, to \in {"closed", "locked"} :
          period[p] \in {"open", "closed", "locked"} /\ StartLedgerRequest(c, "period", p, to, <<>>)
    BY <1>2 DEF ReadPeriod
  <2>2. QED
    BY <1>1, <1>2, <2>1, LedgerBegins DEF ReadPeriod
<1>3. CASE CheckPost(c)
  <2>1. PICK j \in Journals, p \in Periods, lines \in LineLists :
          /\ journal[j] = NoJournal /\ \A d \in Clients : ledgerReq[d].row # j
          /\ Balanced(lines) /\ period[p] = "open" /\ StartLedgerRequest(c, "post", j, p, lines)
    BY <1>3 DEF CheckPost
  <2>2. QED
    BY <1>1, <1>3, <2>1, LedgerBegins DEF CheckPost, JournalOps
<1>4. CASE CheckPayroll(c)
  <2>1. PICK j \in Journals, e \in PayrollEvents :
          /\ journal[j] = NoJournal /\ \A d \in Clients : ledgerReq[d].row # j
          /\ Posted(e) /\ period[e.period] = "open"
          /\ StartLedgerRequest(c, "post", j, e.period, PayrollLines(e))
    BY <1>4 DEF CheckPayroll
  <2>2. e.period \in Periods
    BY LedgerAssumption
  <2>3. QED
    BY <1>4, <2>1, <2>2, PayrollBalances, LedgerBegins DEF CheckPayroll, JournalOps
<1>5. CASE CheckPatch(c)
  <2>1. PICK j \in Journals, to \in Periods, lines \in LineLists \cup {<<>>} :
          /\ journal[j] # NoJournal /\ period[journal[j].period] = "open" /\ period[to] = "open"
          /\ StartLedgerRequest(c, "patch", j, to, lines) /\ (lines # <<>> => Balanced(lines))
    BY <1>5 DEF CheckPatch
  <2>2. QED
    BY <1>1, <1>5, <2>1, LedgerBegins DEF CheckPatch, JournalOps
<1>6. CASE CheckDelete(c)
  <2>1. PICK j \in Journals :
          /\ journal[j] # NoJournal /\ period[journal[j].period] = "open"
          /\ StartLedgerRequest(c, "delete", j, journal[j].period, <<>>)
    BY <1>6 DEF CheckDelete
  <2>2. journal[j].period \in Periods
    BY <2>1 DEF LedgerInv, JournalOK
  <2>3. QED
    BY <1>1, <1>6, <2>1, <2>2, LedgerBegins DEF CheckDelete, JournalOps
<1>7. QED
  BY <1>2, <1>3, <1>4, <1>5, <1>6

\* A new period is open and has no journals.
LEMMA CreatePeriodStep ==
  ASSUME LedgerInv, NEW p \in Periods, CreatePeriod(p) PROVE LedgerInv'
<1>1. /\ period[p] = "none" /\ period' = [period EXCEPT ![p] = "open"]
      /\ UNCHANGED <<journal, invoiced, ledgerReq, sealed, ledgerOvertaken>>
  BY DEF CreatePeriod
<1>2. /\ period'[p] = "open" /\ \A x : x # p => period'[x] = period[x]
      /\ period' \in [Periods -> PeriodStatus]
  BY <1>1 DEF LedgerInv, LedgerTables, PeriodStatus
<1>3. LedgerTables'
  BY <1>1, <1>2 DEF LedgerInv, LedgerTables
<1>4. \A j \in Journals : JournalOK(journal[j])'
  BY <1>1 DEF LedgerInv, JournalOK
<1>5. ASSUME NEW c \in Clients
      PROVE  LedgerRequestOK(ledgerReq[c], period', journal, ledgerOvertaken)
  BY <1>1, <1>2 DEF LedgerInv, LedgerRequestOK, CheckedOpen
<1>6. ClosedBooksStand'
  BY <1>1, <1>2 DEF LedgerInv, ClosedBooksStand, Books
<1>7. QED
  BY <1>1, <1>3, <1>4, <1>5, <1>6 DEF LedgerInv

\* A period is closed or locked, and the requests that checked it before know.
LEMMA WritePeriodStep ==
  ASSUME LedgerInv, NEW c \in Clients, WritePeriod(c) PROVE LedgerInv'
<1>1. PICK r, p, closes : r = ledgerReq[c] /\ p = r.row /\ closes = (period[p] = "open")
  OBVIOUS
<1>2. /\ r.op = "period" /\ p \in Periods /\ period[p] # "none" /\ r.to \in {"closed", "locked"}
  BY <1>1 DEF LedgerInv, LedgerRequestOK, WritePeriod
<1>3. /\ period' = [period EXCEPT ![p] = r.to]
      /\ sealed' = IF closes THEN [sealed EXCEPT ![p] = Books(p)] ELSE sealed
      /\ ledgerReq' = [d \in Clients |->
             IF d = c THEN Idle
             ELSE IF closes /\ ledgerReq[d] # Idle
                  THEN [ledgerReq[d] EXCEPT !.closedSince = ledgerReq[d].closedSince \cup {p}]
             ELSE ledgerReq[d]]
      /\ UNCHANGED <<journal, invoiced, ledgerOvertaken>>
  BY <1>1 DEF WritePeriod
<1>4. /\ period'[p] = r.to /\ \A x : x # p => period'[x] = period[x]
      /\ period' \in [Periods -> PeriodStatus]
  BY <1>2, <1>3 DEF LedgerInv, LedgerTables, PeriodStatus
<1>5. ASSUME NEW d \in Clients
      PROVE  \E x : /\ x = ledgerReq'[d] /\ x \in {Idle} \cup LedgerRequests
                    /\ LedgerRequestOK(x, period', journal, ledgerOvertaken)
                    /\ x.op \in JournalOps =>
                          /\ d # c /\ x.op = ledgerReq[d].op /\ x.row = ledgerReq[d].row
                          /\ x.inTx = ledgerReq[d].inTx
  <2>1. PICK q : q = ledgerReq[d]
    OBVIOUS
  <2>2. CASE d = c \/ q = Idle
    <3>1. ledgerReq'[d] = Idle
      BY <1>3, <2>1, <2>2
    <3>2. QED
      BY <3>1, LedgerIdle DEF LedgerRequestOK, JournalOps, Idle
  <2>3. CASE d # c /\ q # Idle
    <3>1. q \in LedgerRequests /\ LedgerRequestOK(q, period, journal, ledgerOvertaken)
      BY <2>1, <2>3, LedgerRequestOf
    <3>2. PICK x : x = ledgerReq'[d]
      OBVIOUS
    <3>3. x = IF closes THEN [q EXCEPT !.closedSince = q.closedSince \cup {p}] ELSE q
      BY <1>3, <2>1, <2>3, <3>2
    <3>4. /\ x \in LedgerRequests /\ x.op = q.op /\ x.row = q.row /\ x.to = q.to
          /\ x.lines = q.lines /\ x.inTx = q.inTx
          /\ q.closedSince \subseteq x.closedSince /\ (closes => p \in x.closedSince)
      BY <1>2, <3>1, <3>3 DEF LedgerRequests
    <3>5. \A y : CheckedOpen(q, y, period, ledgerOvertaken)
                   => CheckedOpen(x, y, period', ledgerOvertaken)
      BY <1>1, <1>2, <1>4, <3>4 DEF CheckedOpen
    <3>6. LedgerRequestOK(x, period', journal, ledgerOvertaken)
      BY <1>2, <1>4, <3>1, <3>4, <3>5 DEF LedgerRequestOK
    <3>7. QED
      BY <2>1, <2>3, <3>2, <3>4, <3>6
  <2>4. QED
    BY <2>2, <2>3
<1>6. \A x \in Periods : Books(x) \in SUBSET (Journals \X GlLines)
  BY DEF Books, LedgerInv, LedgerTables
<1>7. LedgerTables'
  <2>1. sealed' \in [Periods -> SUBSET (Journals \X GlLines)]
    BY <1>3, <1>6 DEF LedgerInv, LedgerTables
  <2>2. ledgerReq' \in [Clients -> {Idle} \cup LedgerRequests]
    BY <1>3, <1>5
  <2>3. QED
    BY <1>3, <1>4, <2>1, <2>2 DEF LedgerInv, LedgerTables
<1>8. \A j \in Journals : JournalOK(journal[j])'
  BY <1>3 DEF LedgerInv, JournalOK
<1>9. \A d \in Clients : LedgerRequestOK(ledgerReq[d], period, journal, ledgerOvertaken)'
  BY <1>3, <1>5
<1>10. LedgerApart(ledgerReq')
  BY <1>5 DEF LedgerInv, LedgerApart
<1>11. ClosedBooksStand'
  <2>1. \A x \in Periods : Books(x)' = Books(x)
    BY <1>3 DEF Books
  <2>2. p \in Periods => (closes => sealed'[p] = Books(p)) /\ (~ closes => sealed'[p] = sealed[p])
    BY <1>2, <1>3 DEF LedgerInv, LedgerTables
  <2>3. \A x \in Periods : x # p => sealed'[x] = sealed[x]
    BY <1>2, <1>3 DEF LedgerInv, LedgerTables
  <2>4. ~ closes => period[p] \in {"closed", "locked"}
    BY <1>1, <1>2 DEF LedgerInv, LedgerTables, PeriodStatus
  <2>5. QED
    BY <1>2, <1>3, <1>4, <2>1, <2>2, <2>3, <2>4 DEF LedgerInv, ClosedBooksStand
<1>12. QED
  BY <1>7, <1>8, <1>9, <1>10, <1>11 DEF LedgerInv

\* The transaction of a request begins: its rows are checked again.
LEMMA BeginJournalTxStep ==
  ASSUME LedgerInv, NEW c \in Clients, BeginJournalTx(c) PROVE LedgerInv'
<1>1. PICK q, inserts : /\ q = ledgerReq[c]
                        /\ inserts = (q.op = "post" \/ (q.op = "patch" /\ q.lines # <<>>))
  OBVIOUS
<1>2. PICK since : since = IF inserts THEN q.closedSince \ {q.to} ELSE q.closedSince
  OBVIOUS
<1>3. PICK r : r = [q EXCEPT !.inTx = TRUE, !.closedSince = since]
  OBVIOUS
<1>4. /\ q # Idle /\ q.op \in JournalOps /\ ~ q.inTx /\ (q.op # "post" => journal[q.row] # NoJournal)
      /\ \A d \in Clients : ~ (ledgerReq[d].row = q.row /\ d # c /\ ledgerReq[d].inTx)
      /\ inserts => PeriodAccepts(q.to)
      /\ ledgerReq' = [ledgerReq EXCEPT ![c] = r]
      /\ UNCHANGED <<period, journal, invoiced, sealed, ledgerOvertaken>>
  BY <1>1, <1>2, <1>3 DEF BeginJournalTx, JournalOps
<1>5. q \in LedgerRequests /\ LedgerRequestOK(q, period, journal, ledgerOvertaken)
  BY <1>1, <1>4, LedgerRequestOf
<1>6. /\ r \in LedgerRequests /\ r.op = q.op /\ r.row = q.row /\ r.to = q.to /\ r.lines = q.lines
      /\ r.inTx /\ r.closedSince = since
  BY <1>2, <1>3, <1>5 DEF LedgerRequests
<1>7. inserts => period[q.to] = "open"
  <2>1. q.to \in Periods /\ period[q.to] # "none"
    BY <1>4, <1>5 DEF LedgerRequestOK, CheckedOpen
  <2>2. QED
    BY <1>4, <2>1 DEF PeriodAccepts, LedgerInv, LedgerTables, PeriodStatus
<1>8. \A x : CheckedOpen(q, x, period, ledgerOvertaken) => CheckedOpen(r, x, period, ledgerOvertaken)
  BY <1>2, <1>6, <1>7 DEF CheckedOpen
<1>9. LedgerRequestOK(r, period, journal, ledgerOvertaken)
  BY <1>4, <1>5, <1>6, <1>8 DEF LedgerRequestOK, JournalOps
<1>10. ASSUME NEW d \in Clients \ {c}, ledgerReq[d].op \in JournalOps, ledgerReq[d].row = r.row
       PROVE  r.op # "post" /\ ledgerReq[d].op # "post" /\ ~ (r.inTx /\ ledgerReq[d].inTx)
  BY <1>1, <1>4, <1>6, <1>10 DEF LedgerInv, LedgerApart
<1>11. QED
  BY <1>4, <1>6, <1>9, <1>10, LedgerRequestStep

\* A transaction commits: the journal of request c is new, and what it moves it from and
\* to are periods the request has checked.
LEMMA CommitJournalStep ==
  ASSUME LedgerInv, NEW c \in Clients, NEW new, CommitJournal(c, new),
         new \in [period : Periods \cup {NoPeriod}, lines : GlLines], JournalOK(new),
         new # NoJournal => new.period = ledgerReq[c].to,
         new = NoJournal => ledgerReq[c].row \notin invoiced,
         ledgerReq[c].op \in JournalOps
  PROVE  LedgerInv'
<1>1. PICK r, j, old, touched :
        /\ r = ledgerReq[c] /\ j = r.row /\ old = journal[j]
        /\ touched = {old.period, new.period} \cap Periods
  OBVIOUS
<1>2. /\ r.inTx /\ journal' = [journal EXCEPT ![j] = new]
      /\ ledgerOvertaken' = ledgerOvertaken \cup (touched \cap r.closedSince)
      /\ ledgerReq' = [ledgerReq EXCEPT ![c] = Idle]
      /\ UNCHANGED <<period, invoiced, sealed>>
  BY <1>1 DEF CommitJournal, EndLedgerRequest
<1>3. /\ r \in LedgerRequests /\ LedgerRequestOK(r, period, journal, ledgerOvertaken)
      /\ j \in Journals /\ r.op \in JournalOps
  BY <1>1, LedgerIdle, LedgerRequestOf DEF LedgerRequestOK, JournalOps
<1>4. /\ journal'[j] = new /\ \A x : x # j => journal'[x] = journal[x]
      /\ journal' \in [Journals -> [period : Periods \cup {NoPeriod}, lines : GlLines]]
  BY <1>2, <1>3 DEF LedgerInv, LedgerTables
<1>5. touched \subseteq Periods /\ NoJournal.period \notin Periods
  BY <1>1, LedgerAssumption DEF NoJournal
<1>6. \A x \in touched : CheckedOpen(r, x, period, ledgerOvertaken)
  BY <1>1, <1>3, <1>5 DEF LedgerRequestOK
<1>7. \A x \in touched :
        period[x] = "open" \/ (period[x] # "none" /\ x \in ledgerOvertaken')
  BY <1>2, <1>6 DEF CheckedOpen
<1>8. ASSUME NEW d \in Clients, d # c
      PROVE  LedgerRequestOK(ledgerReq[d], period, journal', ledgerOvertaken')
  <2>1. PICK q : q = ledgerReq[d]
    OBVIOUS
  <2>2. LedgerRequestOK(q, period, journal, ledgerOvertaken)
    BY <2>1 DEF LedgerInv
  <2>3. CASE q.op \in JournalOps /\ q.row = j
    <3>1. q.op # "post" /\ ~ q.inTx
      BY <1>1, <1>2, <1>3, <1>8, <2>1, <2>3 DEF LedgerInv, LedgerApart
    <3>2. CheckedOpen(q, q.to, period, ledgerOvertaken')
      BY <1>2, <2>2, <2>3 DEF LedgerRequestOK, CheckedOpen
    <3>3. new # NoJournal => CheckedOpen(q, new.period, period, ledgerOvertaken')
      <4>1. new # NoJournal => new.period \in Periods
        BY DEF JournalOK
      <4>2. QED
        BY <1>1, <1>7, <4>1 DEF CheckedOpen
    <3>4. QED
      BY <1>4, <2>1, <2>2, <2>3, <3>1, <3>2, <3>3 DEF LedgerRequestOK, JournalOps
  <2>4. CASE ~ (q.op \in JournalOps /\ q.row = j)
    <3>1. q.op \in JournalOps => journal'[q.row] = journal[q.row]
      BY <1>4, <2>4
    <3>2. \A x : CheckedOpen(q, x, period, ledgerOvertaken) => CheckedOpen(q, x, period, ledgerOvertaken')
      BY <1>2 DEF CheckedOpen
    <3>3. QED
      BY <2>1, <2>2, <3>1, <3>2 DEF LedgerRequestOK, JournalOps
  <2>5. QED
    BY <2>3, <2>4
<1>9. ledgerReq' \in [Clients -> {Idle} \cup LedgerRequests]
  BY <1>2 DEF LedgerInv, LedgerTables
<1>10. ledgerReq'[c] = Idle /\ \A d \in Clients : d # c => ledgerReq'[d] = ledgerReq[d]
  BY <1>2 DEF LedgerInv, LedgerTables
<1>11. LedgerRequestOK(Idle, period, journal', ledgerOvertaken')
  BY LedgerIdle DEF LedgerRequestOK, JournalOps
<1>12. \A d \in Clients : LedgerRequestOK(ledgerReq[d], period, journal, ledgerOvertaken)'
  BY <1>2, <1>8, <1>10, <1>11
<1>13. LedgerApart(ledgerReq')
  BY <1>10, LedgerIdle DEF LedgerInv, LedgerApart, JournalOps
<1>14. LedgerTables'
  <2>1. invoiced' \subseteq {x \in Journals : journal'[x] # NoJournal}
    BY <1>1, <1>2, <1>4 DEF LedgerInv, LedgerTables
  <2>2. QED
    BY <1>2, <1>4, <1>5, <1>9, <2>1 DEF LedgerInv, LedgerTables
<1>15. \A x \in Journals : JournalOK(journal[x])'
  BY <1>4 DEF LedgerInv, JournalOK
<1>16. ASSUME NEW x \in Periods, period[x] \in {"closed", "locked"}
       PROVE  Books(x)' = sealed'[x] \/ x \in ledgerOvertaken'
  <2>1. Books(x) = sealed[x] \/ x \in ledgerOvertaken
    BY <1>16 DEF LedgerInv, ClosedBooksStand
  <2>2. CASE x \in touched
    BY <1>7, <1>16, <2>2
  <2>3. CASE x \notin touched
    <3>1. old.period # x /\ new.period # x
      BY <1>1, <2>3
    <3>2. {y \in Journals : journal'[y].period = x} = {y \in Journals : journal[y].period = x}
      BY <1>1, <1>4, <3>1
    <3>3. \A y \in Journals : journal[y].period = x => journal'[y] = journal[y]
      BY <1>1, <1>4, <3>1
    <3>4. Books(x)' = Books(x)
      BY <3>2, <3>3 DEF Books
    <3>5. QED
      BY <1>2, <2>1, <3>4
  <2>4. QED
    BY <2>2, <2>3
<1>17. ClosedBooksStand'
  BY <1>2, <1>16 DEF ClosedBooksStand
<1>18. QED
  BY <1>12, <1>13, <1>14, <1>15, <1>17 DEF LedgerInv

\* The three commits.
LEMMA JournalCommits ==
  ASSUME LedgerInv, NEW c \in Clients, PostJournal(c) \/ UpdateJournal(c) \/ DeleteJournal(c)
  PROVE  LedgerInv'
<1>1. PICK r : r = ledgerReq[c]
  OBVIOUS
<1>2. /\ r.op \in JournalOps /\ r \in LedgerRequests
      /\ LedgerRequestOK(r, period, journal, ledgerOvertaken)
  BY <1>1, LedgerIdle, LedgerRequestOf
     DEF PostJournal, UpdateJournal, DeleteJournal, JournalOps
<1>3. r.row \in Journals /\ r.to \in Periods /\ r.lines \in GlLines
  BY <1>2 DEF LedgerRequestOK, LedgerRequests
<1>4. NoJournal.period \notin Periods /\ NoJournal.lines = <<>>
      /\ NoJournal \in [period : Periods \cup {NoPeriod}, lines : GlLines]
  BY LedgerAssumption DEF NoJournal, GlLines
<1>5. CASE PostJournal(c)
  <2>1. PICK new : new = [period |-> r.to, lines |-> r.lines]
    OBVIOUS
  <2>2. r.op = "post" /\ CommitJournal(c, new)
    BY <1>1, <1>5, <2>1 DEF PostJournal
  <2>3. /\ new \in [period : Periods \cup {NoPeriod}, lines : GlLines]
        /\ new.period = r.to /\ new.lines = r.lines /\ new # NoJournal
    BY <1>3, <1>4, <2>1
  <2>4. JournalOK(new)
    BY <1>2, <1>3, <2>2, <2>3 DEF JournalOK, LedgerRequestOK
  <2>5. QED
    BY <1>1, <1>2, <2>2, <2>3, <2>4, CommitJournalStep
<1>6. CASE UpdateJournal(c)
  <2>1. PICK lines : lines = IF r.lines = <<>> THEN journal[r.row].lines ELSE r.lines
    OBVIOUS
  <2>2. PICK new : new = [period |-> r.to, lines |-> lines]
    OBVIOUS
  <2>3. r.op = "patch" /\ CommitJournal(c, new) /\ r.inTx
    BY <1>1, <1>6, <2>1, <2>2 DEF UpdateJournal, CommitJournal
  <2>4. journal[r.row] # NoJournal /\ JournalOK(journal[r.row]) /\ journal[r.row].lines \in GlLines
    BY <1>2, <1>3, <2>3 DEF LedgerRequestOK, LedgerInv, LedgerTables
  <2>5. lines \in GlLines /\ Balanced(lines)
    BY <1>2, <1>3, <2>1, <2>3, <2>4 DEF LedgerRequestOK, JournalOK
  <2>6. /\ new \in [period : Periods \cup {NoPeriod}, lines : GlLines]
        /\ new.period = r.to /\ new.lines = lines /\ new # NoJournal
    BY <1>3, <1>4, <2>2, <2>5
  <2>7. JournalOK(new)
    BY <1>3, <2>5, <2>6 DEF JournalOK
  <2>8. QED
    BY <1>1, <1>2, <2>3, <2>6, <2>7, CommitJournalStep
<1>7. CASE DeleteJournal(c)
  <2>1. CommitJournal(c, NoJournal) /\ r.row \notin invoiced /\ JournalOK(NoJournal)
    BY <1>1, <1>7 DEF DeleteJournal, JournalOK
  <2>2. QED
    BY <1>1, <1>2, <1>4, <2>1, CommitJournalStep
<1>8. QED
  BY <1>5, <1>6, <1>7

\* An invoice journal is about a journal that exists.
LEMMA InvoiceJournalStep ==
  ASSUME LedgerInv, NEW j \in Journals, InvoiceJournal(j) PROVE LedgerInv'
<1>1. /\ journal[j] # NoJournal /\ invoiced' = invoiced \cup {j}
      /\ UNCHANGED <<period, journal, ledgerReq, sealed, ledgerOvertaken>>
  BY DEF InvoiceJournal
<1>2. LedgerTables' /\ ClosedBooksStand' /\ \A x \in Journals : JournalOK(journal[x])'
  BY <1>1 DEF LedgerInv, LedgerTables, ClosedBooksStand, Books, JournalOK
<1>3. QED
  BY <1>1, <1>2 DEF LedgerInv

\* Every step of the ledger keeps the invariant.
LEMMA LedgerStep ==
  ASSUME LedgerInv, [LedgerNext]_ledgerVars PROVE LedgerInv'
<1>1. ASSUME NEW p \in Periods, CreatePeriod(p) PROVE LedgerInv'
  BY <1>1, CreatePeriodStep
<1>2. ASSUME NEW j \in Journals, InvoiceJournal(j) PROVE LedgerInv'
  BY <1>2, InvoiceJournalStep
<1>3. ASSUME NEW c \in Clients,
             ReadPeriod(c) \/ CheckPost(c) \/ CheckPayroll(c) \/ CheckPatch(c) \/ CheckDelete(c)
      PROVE  LedgerInv'
  BY <1>3, LedgerReads
<1>4. ASSUME NEW c \in Clients, WritePeriod(c) PROVE LedgerInv'
  BY <1>4, WritePeriodStep
<1>5. ASSUME NEW c \in Clients, BeginJournalTx(c) PROVE LedgerInv'
  BY <1>5, BeginJournalTxStep
<1>6. ASSUME NEW c \in Clients, PostJournal(c) \/ UpdateJournal(c) \/ DeleteJournal(c)
      PROVE  LedgerInv'
  BY <1>6, JournalCommits
<1>7. ASSUME NEW c \in Clients, DropLedgerRequest(c) PROVE LedgerInv'
  BY <1>7, LedgerEnds DEF DropLedgerRequest
<1>8. CASE UNCHANGED ledgerVars
  <2>1. /\ LedgerTables' /\ ClosedBooksStand' /\ \A x \in Journals : JournalOK(journal[x])'
        /\ UNCHANGED <<period, journal, ledgerReq, ledgerOvertaken>>
    BY <1>8 DEF ledgerVars, LedgerInv, LedgerTables, ClosedBooksStand, Books, JournalOK
  <2>2. QED
    BY <2>1 DEF LedgerInv
<1>9. QED
  BY <1>1, <1>2, <1>3, <1>4, <1>5, <1>6, <1>7, <1>8 DEF LedgerNext

\* No period and no journal exists at the start.
LEMMA LedgerStart == LedgerInit => LedgerInv
<1> SUFFICES ASSUME LedgerInit PROVE LedgerInv
  OBVIOUS
<1>1. NoJournal \in [period : Periods \cup {NoPeriod}, lines : GlLines]
  BY DEF NoJournal, GlLines
<1>2. LedgerTables
  BY <1>1 DEF LedgerInit, LedgerTables, PeriodStatus
<1>3. \A j \in Journals : JournalOK(journal[j])
  BY DEF LedgerInit, JournalOK
<1>4. \A c \in Clients : ledgerReq[c] = Idle
  BY DEF LedgerInit
<1>5. \A c \in Clients : LedgerRequestOK(ledgerReq[c], period, journal, ledgerOvertaken)
  BY <1>4, LedgerIdle
<1>6. LedgerApart(ledgerReq)
  BY <1>4 DEF LedgerApart, JournalOps, Idle
<1>7. ClosedBooksStand
  BY DEF LedgerInit, ClosedBooksStand
<1>8. QED
  BY <1>2, <1>3, <1>5, <1>6, <1>7 DEF LedgerInv

\* The types follow from the invariant.
LEMMA LedgerInvTyped == LedgerInv => LedgerTypeOK
BY DEF LedgerInv, LedgerTables, JournalOK, LedgerTypeOK, LedgerRequests, PeriodStatus, JournalOps

(*************************************************************************)
(* Production orders, daily production and quality control.              *)
(* A request that completes an order goes by an inspection that passed; an *)
(* order is refreshed, about to be refreshed, or known to be out of step. *)
(*************************************************************************)

ProductionRows ==
  [status : {"none", "planned", "in_progress", "on_hold", "completed"},
   planned : Quantities \cup {0}, produced : Nat]

DailyEntries == [qty : Quantities \cup {0}, past : BOOLEAN, locked : BOOLEAN]

SalesStatuses == {"confirmed", "in_production", "qc", "packed", "delivered", "cancelled"}

ProductionRequests ==
  [op : {"create", "plan", "move", "announce", "patch", "handle", "complete", "record", "entry",
         "sum", "refresh"},
   row : ProductionOrders \cup DailyRows \cup {NoRow},
   to : {"planned", "in_progress", "on_hold", "completed", ""} \cup SalesStatuses,
   qty : Nat, stale : BOOLEAN]

\* What the daily entries of an order add up to.
DailySum(entries, p) ==
  SumFunctionOnSet([e \in DailyRows |-> entries[e].qty], {e \in DailyRows : DailyOrder[e] = p})

\* What a request has read of the daily entries, and the inspections it goes by.
ProductionRead(r, entries, passed) ==
  /\ r.op \in {"create", "plan", "move", "announce", "complete", "sum", "refresh"}
       => r.row \in ProductionOrders
  /\ r.op \in {"record", "entry"} => r.row \in DailyRows
  /\ r.op \in {"create", "plan", "record", "entry"} => r.qty \in Quantities
  /\ r.op = "complete" => r.to = "completed"
  /\ r.op \in {"move", "announce"} => r.to \in {"in_progress", "on_hold", "completed"}
  /\ r.op \in {"move", "announce", "complete"} /\ r.to = "completed" => r.row \in passed
  /\ r.op \in {"patch", "handle"} => r.to \in SalesStatuses
  /\ r.op = "handle" /\ r.to = "qc" => passed # {}
  /\ r.op = "refresh" /\ ~ r.stale => r.qty = DailySum(entries, r.row)

\* An order nobody is about to refresh, and which no refresh failed.
ProducedOK(p, reqs, rows, entries, old) ==
  \/ p \in old
  \/ \E c \in Clients : reqs[c].op \in {"sum", "refresh"} /\ reqs[c].row = p
  \/ rows[p].produced = DailySum(entries, p)

ProductionInv ==
  /\ sales \in SalesStatuses /\ movedBy \in {"user", "handler"}
  /\ production \in [ProductionOrders -> ProductionRows]
  /\ daily \in [DailyRows -> DailyEntries]
  /\ productionReq \in [Clients -> {Idle} \cup ProductionRequests]
  /\ finalPass \subseteq ProductionOrders
  /\ outOfStep \subseteq ProductionOrders
  /\ \A c \in Clients : ProductionRead(productionReq[c], daily, finalPass)
  /\ \A p \in ProductionOrders : ProducedOK(p, productionReq, production, daily, outOfStep)
  /\ \A e \in DailyRows : daily[e].locked => daily[e].past
  /\ QcFollowsFinalPass

\* A running request is not idle; what does not exist has a place among the rows.
LEMMA ProductionKinds ==
  /\ Idle.op = "idle"
  /\ \A r \in ProductionRequests : r # Idle /\ r.op # "idle" /\ r.stale \in BOOLEAN
  /\ NoEntry \in DailyEntries /\ NotMade \in ProductionRows
  /\ Quantities \subseteq Nat \ {0}
<1>1. NoEntry \in DailyEntries /\ NotMade \in ProductionRows
  BY DEF NoEntry, NotMade, DailyEntries, ProductionRows
<1>2. ASSUME NEW r \in ProductionRequests PROVE r # Idle /\ r.op # "idle" /\ r.stale \in BOOLEAN
  <2>1. /\ r.op \in {"create", "plan", "move", "announce", "patch", "handle", "complete", "record",
                    "entry", "sum", "refresh"}
        /\ r.stale \in BOOLEAN
    BY DEF ProductionRequests
  <2>2. r.op # "idle"
    BY <2>1
  <2>3. QED
    BY <2>1, <2>2 DEF Idle
<1>3. Idle.op = "idle"
  BY DEF Idle
<1>4. QED
  BY <1>1, <1>2, <1>3, ProductionAssumption

\* The types, and that an order has produced what its days add up to, follow.
LEMMA ProductionInvTyped == ProductionInv => ProductionTypeOK /\ ProducedIsDaily
<1> SUFFICES ASSUME ProductionInv PROVE ProductionTypeOK /\ ProducedIsDaily
  OBVIOUS
<1>1. ASSUME NEW c \in Clients, productionReq[c] # Idle
      PROVE  productionReq[c].op \in {"create", "plan", "move", "announce", "patch", "handle",
                                      "complete", "record", "entry", "sum", "refresh"}
  <2>1. productionReq[c] \in ProductionRequests
    BY <1>1 DEF ProductionInv
  <2>2. QED
    BY <2>1 DEF ProductionRequests
<1>2. ProductionTypeOK
  BY <1>1 DEF ProductionInv, ProductionTypeOK, ProductionRows, DailyEntries, SalesStatuses
<1>3. ProducedIsDaily
  BY DEF ProductionInv, ProducedIsDaily, ProducedOK, DailyTotal, DailySum
<1>4. QED
  BY <1>2, <1>3

\* A request that is not running has read nothing.
LEMMA ProductionIdle == ASSUME NEW entries, NEW passed PROVE ProductionRead(Idle, entries, passed)
BY DEF ProductionRead, Idle

\* The sum of an order's entries is a number, and depends on its entries only.
LEMMA DailySums ==
  ASSUME NEW f \in [DailyRows -> DailyEntries], NEW p \in ProductionOrders
  PROVE  /\ DailySum(f, p) \in Nat
         /\ \A g \in [DailyRows -> DailyEntries] :
              (\A e \in DailyRows : DailyOrder[e] = p => g[e].qty = f[e].qty)
                => DailySum(g, p) = DailySum(f, p)
<1> DEFINE S == {e \in DailyRows : DailyOrder[e] = p}
           w == [e \in DailyRows |-> f[e].qty]
<1>1. IsFiniteSet(S)
  BY FS_Subset, ProductionAssumption
<1>2. \A e \in S : w[e] \in Nat /\ w[e] \in Int
  <2>1. \A e \in DailyRows : f[e].qty \in Quantities \cup {0}
    BY DEF DailyEntries
  <2>2. ASSUME NEW e \in S PROVE w[e] \in Nat
    <3>1. w[e] = f[e].qty
      OBVIOUS
    <3>2. e \in DailyRows
      OBVIOUS
    <3>3. PICK n : n = f[e].qty
      OBVIOUS
    <3>4. n \in Quantities \cup {0}
      BY <2>1, <3>2, <3>3
    <3>5. n \in Nat
      BY <3>4, ProductionKinds
    <3>6. QED
      BY <3>1, <3>3, <3>5
  <2>3. QED
    BY <2>2
<1> HIDE DEF S, w
<1>3. SumFunctionOnSet(w, S) \in Nat
  BY <1>1, <1>2, SumNat
<1>4. DailySum(f, p) = SumFunctionOnSet(w, S)
  BY DEF DailySum, S, w
<1>5. ASSUME NEW g \in [DailyRows -> DailyEntries],
             \A e \in DailyRows : DailyOrder[e] = p => g[e].qty = f[e].qty
      PROVE  DailySum(g, p) = DailySum(f, p)
  <2> DEFINE v == [e \in DailyRows |-> g[e].qty]
  <2>1. \A e \in S : w[e] \in Int /\ v[e] = w[e]
    BY <1>2, <1>5 DEF S, w
  <2> HIDE DEF v
  <2>2. SumFunctionOnSet(v, S) = SumFunctionOnSet(w, S)
    BY <1>1, <2>1, SumSame
  <2>3. DailySum(g, p) = SumFunctionOnSet(v, S)
    BY DEF DailySum, S, v
  <2>4. QED
    BY <1>4, <2>2, <2>3
<1>6. QED
  BY <1>3, <1>4, <1>5

\* The sum of no entries is zero.
LEMMA NoDailySum ==
  ASSUME NEW p \in ProductionOrders PROVE DailySum([e \in DailyRows |-> NoEntry], p) = 0
<1> DEFINE S == {e \in DailyRows : DailyOrder[e] = p}
           w == [e \in DailyRows |-> 0]
<1>1. IsFiniteSet(S)
  BY FS_Subset, ProductionAssumption
<1>2. \A e \in S : w[e] \in Int /\ w[e] = w[e] + w[e]
  OBVIOUS
<1>3. SumFunctionOnSet(w, S) = SumFunctionOnSet(w, S) + SumFunctionOnSet(w, S)
  <2> HIDE DEF S, w
  <2>1. QED
    BY <1>1, <1>2, SumPlus
<1>4. SumFunctionOnSet(w, S) \in Int
  <2> HIDE DEF S, w
  <2>1. QED
    BY <1>1, <1>2, SumType
<1>5. [e \in DailyRows |-> [x \in DailyRows |-> NoEntry][e].qty] = w
  BY DEF NoEntry
<1>6. DailySum([e \in DailyRows |-> NoEntry], p) = SumFunctionOnSet(w, S)
  BY <1>5 DEF DailySum
<1> HIDE DEF S, w
<1>7. PICK n : n = SumFunctionOnSet(w, S)
  OBVIOUS
<1>8. n = 0
  <2>1. n \in Int /\ n = n + n
    BY <1>3, <1>4, <1>7
  <2>2. QED
    BY <2>1
<1>9. QED
  BY <1>6, <1>7, <1>8

\* A request begins, goes on or ends, and an inspection may be stored.
LEMMA ProductionRequestStep ==
  ASSUME ProductionInv, NEW c \in Clients, NEW r \in {Idle} \cup ProductionRequests,
         productionReq' = [productionReq EXCEPT ![c] = r], ProductionRead(r, daily, finalPass'),
         UNCHANGED <<production, daily>>,
         finalPass \subseteq finalPass', finalPass' \subseteq ProductionOrders,
         outOfStep \subseteq outOfStep', outOfStep' \subseteq ProductionOrders,
         sales' \in SalesStatuses, movedBy' \in {"user", "handler"},
         sales' = "qc" => \/ sales = "qc" /\ movedBy' = movedBy
                          \/ finalPass' # {} \/ movedBy' = "user",
         productionReq[c].op \in {"sum", "refresh"} =>
           \/ r.op \in {"sum", "refresh"} /\ r.row = productionReq[c].row
           \/ productionReq[c].row \in outOfStep'
  PROVE  ProductionInv'
<1>1. /\ productionReq' \in [Clients -> {Idle} \cup ProductionRequests]
      /\ productionReq'[c] = r /\ \A d \in Clients : d # c => productionReq'[d] = productionReq[d]
  BY DEF ProductionInv
<1>2. \A d \in Clients : ProductionRead(productionReq[d], daily, finalPass')
  BY DEF ProductionInv, ProductionRead
<1>3. \A d \in Clients : ProductionRead(productionReq'[d], daily', finalPass')
  BY <1>1, <1>2
<1>4. ASSUME NEW p \in ProductionOrders
      PROVE  ProducedOK(p, productionReq', production', daily', outOfStep')
  <2>1. ProducedOK(p, productionReq, production, daily, outOfStep)
    BY DEF ProductionInv
  <2>2. QED
    BY <1>1, <2>1 DEF ProducedOK
<1>5. QcFollowsFinalPass'
  BY DEF ProductionInv, QcFollowsFinalPass
<1>6. QED
  BY <1>1, <1>3, <1>4, <1>5 DEF ProductionInv

\* The checks, and a quality control result, write no order and no entry.
LEMMA ProductionBegins ==
  ASSUME ProductionInv, NEW c \in Clients,
         \/ CheckProductionOrder(c) \/ ReadProductionOrder(c) \/ StoreQcResult(c)
         \/ CheckDaily(c) \/ ReadDaily(c) \/ PatchSales(c)
  PROVE  ProductionInv'
<1>1. /\ productionReq[c] = Idle /\ UNCHANGED <<sales, movedBy, production, daily, outOfStep>>
      /\ finalPass \subseteq finalPass'
  BY DEF CheckProductionOrder, ReadProductionOrder, StoreQcResult, CheckDaily, ReadDaily,
         PatchSales, RequestSales, BeginProduction
<1>2. productionReq[c].op \notin {"sum", "refresh"}
  BY <1>1, ProductionKinds
<1>3. SUFFICES \E r \in {Idle} \cup ProductionRequests :
                 /\ productionReq' = [productionReq EXCEPT ![c] = r]
                 /\ ProductionRead(r, daily, finalPass')
                 /\ finalPass' \subseteq ProductionOrders
  BY <1>1, <1>2, ProductionRequestStep DEF ProductionInv
<1>4. finalPass \subseteq ProductionOrders
  BY DEF ProductionInv
<1>5. CASE CheckProductionOrder(c)
  <2>1. PICK p \in ProductionOrders, n \in Quantities :
          productionReq' = [productionReq EXCEPT ![c] = ProductionReq("create", p, "planned", n)]
    BY <1>5 DEF CheckProductionOrder, BeginProduction
  <2>2. PICK r : r = ProductionReq("create", p, "planned", n)
    OBVIOUS
  <2>3. r \in ProductionRequests /\ ProductionRead(r, daily, finalPass')
    BY <2>2, ProductionKinds DEF ProductionReq, ProductionRequests, ProductionRead
  <2>4. QED
    BY <1>4, <1>5, <2>1, <2>2, <2>3 DEF CheckProductionOrder
<1>6. CASE ReadProductionOrder(c)
  <2>1. \E p \in ProductionOrders :
          \/ \E n \in Quantities :
               productionReq' = [productionReq EXCEPT ![c] = ProductionReq("plan", p, "planned", n)]
          \/ \E to \in {"in_progress", "on_hold"} :
               productionReq' = [productionReq EXCEPT ![c] = ProductionReq("move", p, to, 0)]
    BY <1>6 DEF ReadProductionOrder, BeginProduction
  <2>2. PICK p \in ProductionOrders :
          \/ \E n \in Quantities :
               productionReq' = [productionReq EXCEPT ![c] = ProductionReq("plan", p, "planned", n)]
          \/ \E to \in {"in_progress", "on_hold"} :
               productionReq' = [productionReq EXCEPT ![c] = ProductionReq("move", p, to, 0)]
    BY <2>1
  <2>3. CASE \E n \in Quantities :
               productionReq' = [productionReq EXCEPT ![c] = ProductionReq("plan", p, "planned", n)]
    <3>1. PICK n \in Quantities :
               productionReq' = [productionReq EXCEPT ![c] = ProductionReq("plan", p, "planned", n)]
      BY <2>3
    <3>2. PICK r : r = ProductionReq("plan", p, "planned", n)
      OBVIOUS
    <3>3. r \in ProductionRequests /\ ProductionRead(r, daily, finalPass')
      BY <3>2, ProductionKinds DEF ProductionReq, ProductionRequests, ProductionRead
    <3>4. QED
      BY <1>4, <1>6, <3>1, <3>2, <3>3 DEF ReadProductionOrder
  <2>4. CASE \E to \in {"in_progress", "on_hold"} :
               productionReq' = [productionReq EXCEPT ![c] = ProductionReq("move", p, to, 0)]
    <3>1. PICK to \in {"in_progress", "on_hold"} :
               productionReq' = [productionReq EXCEPT ![c] = ProductionReq("move", p, to, 0)]
      BY <2>4
    <3>2. PICK r : r = ProductionReq("move", p, to, 0)
      OBVIOUS
    <3>3. r \in ProductionRequests /\ ProductionRead(r, daily, finalPass')
      BY <3>2, ProductionKinds DEF ProductionReq, ProductionRequests, ProductionRead
    <3>4. QED
      BY <1>4, <1>6, <3>1, <3>2, <3>3 DEF ReadProductionOrder
  <2>5. QED
    BY <2>2, <2>3, <2>4
<1>7. CASE StoreQcResult(c)
  <2>1. PICK p \in ProductionOrders, verdict \in {"pass", "fail"} :
          /\ finalPass' = IF verdict = "pass" THEN finalPass \cup {p} ELSE finalPass
          /\ IF verdict = "pass"
             THEN productionReq' = [productionReq EXCEPT ![c] = ProductionReq("complete", p, "completed", 0)]
             ELSE productionReq' = productionReq
    BY <1>7 DEF StoreQcResult, BeginProduction, Completes
  <2>2. finalPass' \subseteq ProductionOrders
    BY <1>4, <2>1
  <2>3. CASE verdict = "pass"
    <3>1. PICK r : r = ProductionReq("complete", p, "completed", 0)
      OBVIOUS
    <3>2. r \in ProductionRequests /\ ProductionRead(r, daily, finalPass')
      BY <2>1, <2>3, <3>1, ProductionKinds DEF ProductionReq, ProductionRequests, ProductionRead
    <3>3. QED
      BY <2>1, <2>2, <2>3, <3>1, <3>2
  <2>4. CASE verdict # "pass"
    <3>1. productionReq' = [productionReq EXCEPT ![c] = Idle]
      BY <1>1, <2>1, <2>4 DEF ProductionInv
    <3>2. QED
      BY <2>2, <3>1, ProductionIdle
  <2>5. QED
    BY <2>3, <2>4
<1>8. CASE CheckDaily(c) \/ ReadDaily(c)
  <2>1. PICK e \in DailyRows, n \in Quantities, op \in {"record", "entry"} :
          productionReq' = [productionReq EXCEPT ![c] = ProductionReq(op, e, "", n)]
    BY <1>8 DEF CheckDaily, ReadDaily, BeginProduction
  <2>2. PICK r : r = ProductionReq(op, e, "", n)
    OBVIOUS
  <2>3. r \in ProductionRequests /\ ProductionRead(r, daily, finalPass')
    BY <2>2, ProductionKinds DEF ProductionReq, ProductionRequests, ProductionRead
  <2>4. QED
    BY <1>4, <1>8, <2>1, <2>2, <2>3 DEF CheckDaily, ReadDaily
<1>9. CASE PatchSales(c)
  <2>1. PICK to \in {"in_production", "qc", "packed", "delivered", "cancelled"} :
          productionReq' = [productionReq EXCEPT ![c] = ProductionReq("patch", NoRow, to, 0)]
    BY <1>9 DEF PatchSales, RequestSales
  <2>2. PICK r : r = ProductionReq("patch", NoRow, to, 0)
    OBVIOUS
  <2>3. r \in ProductionRequests /\ ProductionRead(r, daily, finalPass')
    BY <2>2 DEF ProductionReq, ProductionRequests, ProductionRead, SalesStatuses
  <2>4. finalPass' = finalPass
    BY <1>9 DEF PatchSales, RequestSales
  <2>5. QED
    BY <1>4, <2>1, <2>2, <2>3, <2>4
<1>10. QED
  BY <1>5, <1>6, <1>7, <1>8, <1>9

\* The handlers of events, the reading for completion and the sum write no entry.
LEMMA ProductionGoesOn ==
  ASSUME ProductionInv, NEW c \in Clients,
         \/ HandleStarted(c) \/ HandleCompleted(c) \/ MoveSales(c)
         \/ ReadForCompletion(c) \/ SumDaily(c) \/ DropProductionRequest(c)
  PROVE  ProductionInv'
<1>1. PICK q : q = productionReq[c]
  OBVIOUS
<1>2. /\ q \in {Idle} \cup ProductionRequests /\ ProductionRead(q, daily, finalPass)
      /\ daily \in [DailyRows -> DailyEntries]
      /\ finalPass \subseteq ProductionOrders /\ outOfStep \subseteq ProductionOrders
      /\ sales \in SalesStatuses /\ movedBy \in {"user", "handler"}
  BY <1>1 DEF ProductionInv
<1>3. UNCHANGED <<production, daily, finalPass>>
  BY DEF HandleStarted, HandleCompleted, RequestSales, MoveSales, ReadForCompletion, SumDaily,
         DropProductionRequest
<1>4. CASE DropProductionRequest(c)
  <2>1. /\ productionReq' = [productionReq EXCEPT ![c] = Idle] /\ UNCHANGED <<sales, movedBy>>
        /\ outOfStep' = IF q.op \in {"sum", "refresh"} THEN outOfStep \cup {q.row} ELSE outOfStep
    BY <1>1, <1>4 DEF DropProductionRequest
  <2>2. q.op \in {"sum", "refresh"} => q.row \in ProductionOrders
    BY <1>2 DEF ProductionRead
  <2>3. outOfStep' \subseteq ProductionOrders /\ outOfStep \subseteq outOfStep'
    BY <1>2, <2>1, <2>2
  <2>4. q.op \in {"sum", "refresh"} => q.row \in outOfStep'
    BY <2>1
  <2>5. QED
    BY <1>1, <1>2, <1>3, <2>1, <2>3, <2>4, ProductionIdle, ProductionRequestStep
<1>5. CASE HandleStarted(c) \/ HandleCompleted(c)
  <2>1. q.op = "announce" /\ q \in ProductionRequests
    BY <1>1, <1>2, <1>5, ProductionKinds DEF HandleStarted, HandleCompleted
  <2>2. PICK to \in {"in_production", "qc"} :
          /\ to = "qc" => q.to = "completed"
          /\ RequestSales(c, [q EXCEPT !.op = "handle", !.to = to])
    BY <1>1, <1>5 DEF HandleStarted, HandleCompleted
  <2>3. PICK r : r = [q EXCEPT !.op = "handle", !.to = to]
    OBVIOUS
  <2>4. productionReq' = [productionReq EXCEPT ![c] = r] /\ UNCHANGED <<sales, movedBy, outOfStep>>
    BY <2>2, <2>3 DEF RequestSales
  <2>5. r \in ProductionRequests /\ r.op = "handle" /\ r.to = to
    BY <2>1, <2>3 DEF ProductionRequests, SalesStatuses
  <2>6. to = "qc" => finalPass # {}
    BY <1>2, <2>1, <2>2 DEF ProductionRead
  <2>7. ProductionRead(r, daily, finalPass)
    BY <2>5, <2>6 DEF ProductionRead, SalesStatuses
  <2>8. QED
    BY <1>1, <1>2, <1>3, <2>1, <2>4, <2>5, <2>7, ProductionRequestStep
<1>9. CASE MoveSales(c)
  <2>1. /\ q.op \in {"patch", "handle"} /\ sales' = q.to
        /\ movedBy' = IF q.op = "patch" THEN "user" ELSE "handler"
        /\ productionReq' = [productionReq EXCEPT ![c] = Idle] /\ outOfStep' = outOfStep
    BY <1>1, <1>9 DEF MoveSales
  <2>2. q.to \in SalesStatuses /\ (q.op = "handle" /\ q.to = "qc" => finalPass # {})
    BY <1>2, <2>1 DEF ProductionRead
  <2>3. sales' \in SalesStatuses /\ movedBy' \in {"user", "handler"}
    BY <2>1, <2>2
  <2>4. sales' = "qc" => finalPass # {} \/ movedBy' = "user"
    BY <2>1, <2>2
  <2>5. QED
    BY <1>1, <1>2, <1>3, <2>1, <2>3, <2>4, ProductionIdle, ProductionRequestStep
<1>6. CASE ReadForCompletion(c)
  <2>1. PICK r : r = [q EXCEPT !.op = "move"]
    OBVIOUS
  <2>2. /\ q.op = "complete" /\ productionReq' = [productionReq EXCEPT ![c] = r]
        /\ UNCHANGED <<sales, movedBy, outOfStep>>
    BY <1>1, <1>6, <2>1 DEF ReadForCompletion, ProductionInv
  <2>3. q \in ProductionRequests
    BY <1>2, <2>2, ProductionKinds
  <2>4. r \in ProductionRequests /\ r.op = "move" /\ r.row = q.row /\ r.to = q.to
    BY <2>1, <2>3 DEF ProductionRequests
  <2>5. ProductionRead(r, daily, finalPass)
    BY <1>2, <2>2, <2>4 DEF ProductionRead
  <2>6. QED
    BY <1>1, <1>2, <1>3, <2>2, <2>4, <2>5, ProductionRequestStep
<1>7. CASE SumDaily(c)
  <2>1. PICK p : p = q.row
    OBVIOUS
  <2>2. q.op = "sum" /\ p \in ProductionOrders
    BY <1>1, <1>2, <1>7, <2>1 DEF SumDaily, ProductionRead
  <2>3. PICK r : r = ProductionReq("refresh", p, "", DailySum(daily, p))
    OBVIOUS
  <2>4. productionReq' = [productionReq EXCEPT ![c] = r] /\ UNCHANGED <<sales, movedBy, outOfStep>>
    BY <1>1, <1>7, <2>1, <2>3 DEF SumDaily, DailySum, DailyTotal
  <2>5. DailySum(daily, p) \in Nat
    BY <1>2, <2>2, DailySums
  <2>6. /\ r \in ProductionRequests /\ r.op = "refresh" /\ r.row = p /\ r.qty = DailySum(daily, p)
    BY <2>2, <2>3, <2>5 DEF ProductionReq, ProductionRequests
  <2>7. ProductionRead(r, daily, finalPass)
    BY <2>2, <2>6 DEF ProductionRead
  <2>8. QED
    BY <1>1, <1>2, <1>3, <2>1, <2>4, <2>6, <2>7, ProductionRequestStep
<1>8. QED
  BY <1>4, <1>5, <1>6, <1>7, <1>9

\* What becomes of a request q that did not write.
ProductionKept(x, q, d, marks) ==
  /\ ProductionRead(x, daily, finalPass) /\ x.op = q.op /\ x.row = q.row
  /\ x = Idle \/ (d \in marks /\ x.stale) \/ (d \notin marks /\ x = q)

\* The requests after a write: client c goes on as next and those in marks are stale.
LEMMA ProductionOvertakes ==
  ASSUME ProductionInv, NEW c \in Clients, NEW next \in {Idle} \cup ProductionRequests, NEW marks,
         productionReq' = Marked(productionReq, c, next, marks)
  PROVE  /\ productionReq' \in [Clients -> {Idle} \cup ProductionRequests] /\ productionReq'[c] = next
         /\ \A d \in Clients \ {c} : ProductionKept(productionReq'[d], productionReq[d], d, marks)
<1> USE DEF Marked
<1>1. \A d \in Clients : productionReq[d] \in {Idle} \cup ProductionRequests
  BY DEF ProductionInv
<1>2. ASSUME NEW d \in Clients, d # c
      PROVE  /\ productionReq'[d] \in {Idle} \cup ProductionRequests
              /\ ProductionKept(productionReq'[d], productionReq[d], d, marks)
  <2>1. PICK x, q : x = productionReq'[d] /\ q = productionReq[d]
    OBVIOUS
  <2>2. /\ q \in {Idle} \cup ProductionRequests /\ ProductionRead(q, daily, finalPass)
        /\ x = IF q # Idle /\ d \in marks THEN [q EXCEPT !.stale = TRUE] ELSE q
    BY <1>1, <1>2, <2>1 DEF ProductionInv
  <2>3. CASE q # Idle /\ d \in marks
    <3>1. /\ x \in ProductionRequests /\ x.op = q.op /\ x.row = q.row /\ x.to = q.to /\ x.qty = q.qty
          /\ x.stale
      BY <2>2, <2>3 DEF ProductionRequests
    <3>2. ProductionRead(x, daily, finalPass)
      BY <2>2, <3>1 DEF ProductionRead
    <3>3. QED
      BY <2>1, <2>2, <2>3, <3>1, <3>2 DEF ProductionKept
  <2>4. CASE ~ (q # Idle /\ d \in marks)
    BY <2>1, <2>2, <2>4 DEF ProductionKept
  <2>5. QED
    BY <2>3, <2>4
<1>3. \A d \in Clients : productionReq'[d] \in {Idle} \cup ProductionRequests
  BY <1>2
<1>4. productionReq' \in [Clients -> {Idle} \cup ProductionRequests]
  BY <1>3
<1>5. QED
  BY <1>2, <1>4

\* A new production order has produced nothing.
LEMMA CreateProductionOrderStep ==
  ASSUME ProductionInv, NEW c \in Clients, CreateProductionOrder(c) PROVE ProductionInv'
<1>1. PICK q : q = productionReq[c]
  OBVIOUS
<1>2. PICK p : p = q.row
  OBVIOUS
<1>3. PICK row : row = [status |-> "planned", planned |-> q.qty, produced |-> 0]
  OBVIOUS
<1>4. /\ q.op = "create" /\ production[p] = NotMade /\ production' = [production EXCEPT ![p] = row]
      /\ productionReq' = [productionReq EXCEPT ![c] = Idle]
      /\ UNCHANGED <<sales, movedBy, daily, finalPass, outOfStep>>
  BY <1>1, <1>2, <1>3 DEF CreateProductionOrder
<1>5. ProductionRead(q, daily, finalPass) /\ production \in [ProductionOrders -> ProductionRows]
  BY <1>1 DEF ProductionInv
<1>6. p \in ProductionOrders /\ q.qty \in Quantities
  BY <1>2, <1>4, <1>5 DEF ProductionRead
<1>7. row \in ProductionRows /\ row.status = "planned" /\ row.produced = production[p].produced
  BY <1>3, <1>4, <1>6 DEF ProductionRows, NotMade
<1>8. /\ production' \in [ProductionOrders -> ProductionRows]
      /\ \A x \in ProductionOrders : /\ production'[x].produced = production[x].produced
                                     /\ production'[x].status \in {"planned", production[x].status}
  BY <1>4, <1>5, <1>6, <1>7
<1>9. /\ productionReq' \in [Clients -> {Idle} \cup ProductionRequests]
      /\ productionReq'[c] = Idle /\ \A d \in Clients : d # c => productionReq'[d] = productionReq[d]
  BY <1>4 DEF ProductionInv
<1>10. \A d \in Clients : ProductionRead(productionReq'[d], daily', finalPass')
  BY <1>4, <1>9, ProductionIdle DEF ProductionInv
<1>11. ASSUME NEW x \in ProductionOrders
       PROVE  ProducedOK(x, productionReq', production', daily', outOfStep')
  <2>1. ProducedOK(x, productionReq, production, daily, outOfStep)
    BY DEF ProductionInv
  <2>2. QED
    BY <1>1, <1>4, <1>8, <1>9, <2>1 DEF ProducedOK
<1>12. QcFollowsFinalPass'
  BY <1>4, <1>8 DEF ProductionInv, QcFollowsFinalPass
<1>13. QED
  BY <1>4, <1>8, <1>9, <1>10, <1>11, <1>12 DEF ProductionInv

\* The plan or the status of an order is written.
LEMMA WriteProductionStep ==
  ASSUME ProductionInv, NEW c \in Clients, NEW p \in ProductionOrders, NEW row \in ProductionRows,
         NEW next \in {Idle} \cup ProductionRequests, ProductionRead(next, daily, finalPass),
         productionReq[c].op \in {"plan", "move"}, WriteProduction(c, next, p, row),
         UNCHANGED <<sales, movedBy, daily, finalPass>>, row.produced = production[p].produced,
         row.status = "completed" => p \in finalPass
  PROVE  ProductionInv'
<1>1. PICK marks : marks = {d \in Clients : productionReq[d].row = p /\ productionReq[d].op \in {"plan", "move"}}
  OBVIOUS
<1>2. /\ production' = [production EXCEPT ![p] = row]
      /\ productionReq' = Marked(productionReq, c, next, marks)
      /\ outOfStep' = IF productionReq[c].stale THEN outOfStep \cup {p} ELSE outOfStep
  BY <1>1 DEF WriteProduction, Overtake, Marked
<1>3. /\ productionReq' \in [Clients -> {Idle} \cup ProductionRequests] /\ productionReq'[c] = next
      /\ \A d \in Clients \ {c} : ProductionKept(productionReq'[d], productionReq[d], d, marks)
  BY <1>2, ProductionOvertakes
<1>4. /\ production \in [ProductionOrders -> ProductionRows] /\ outOfStep \subseteq ProductionOrders
  BY DEF ProductionInv
<1>5. /\ production' \in [ProductionOrders -> ProductionRows] /\ outOfStep' \subseteq ProductionOrders
      /\ outOfStep \subseteq outOfStep'
      /\ \A x \in ProductionOrders : /\ production'[x].produced = production[x].produced
                                     /\ x # p => production'[x] = production[x]
      /\ production'[p] = row
  BY <1>2, <1>4
<1>6. \A d \in Clients : ProductionRead(productionReq'[d], daily', finalPass')
  BY <1>3 DEF ProductionKept
<1>7. \A d \in Clients \ {c} : productionReq'[d].op = productionReq[d].op /\ productionReq'[d].row = productionReq[d].row
  BY <1>3 DEF ProductionKept
<1>8. ASSUME NEW x \in ProductionOrders
      PROVE  ProducedOK(x, productionReq', production', daily', outOfStep')
  <2>1. ProducedOK(x, productionReq, production, daily, outOfStep)
    BY DEF ProductionInv
  <2>2. QED
    BY <1>5, <1>7, <2>1 DEF ProducedOK
<1>9. QcFollowsFinalPass'
  BY <1>5 DEF ProductionInv, QcFollowsFinalPass
<1>10. QED
  BY <1>3, <1>5, <1>6, <1>8, <1>9 DEF ProductionInv

\* A plan and a move write the order that was read.
LEMMA ProductionWrites ==
  ASSUME ProductionInv, NEW c \in Clients, ReplanProductionOrder(c) \/ MoveProductionOrder(c)
  PROVE  ProductionInv'
<1>1. PICK q : q = productionReq[c]
  OBVIOUS
<1>2. PICK p : p = q.row
  OBVIOUS
<1>3. /\ q \in {Idle} \cup ProductionRequests /\ ProductionRead(q, daily, finalPass)
      /\ production \in [ProductionOrders -> ProductionRows]
  BY <1>1 DEF ProductionInv
<1>4. q.op \in {"plan", "move"} /\ UNCHANGED <<sales, movedBy, daily, finalPass>>
  BY <1>1 DEF ReplanProductionOrder, MoveProductionOrder
<1>5. q \in ProductionRequests /\ p \in ProductionOrders /\ production[p] \in ProductionRows
  BY <1>2, <1>3, <1>4, ProductionKinds DEF ProductionRead
<1>6. CASE ReplanProductionOrder(c)
  <2>1. PICK row : row = [production[p] EXCEPT !.planned = q.qty]
    OBVIOUS
  <2>2. WriteProduction(c, Idle, p, row) /\ q.op = "plan"
    BY <1>1, <1>2, <1>6, <2>1 DEF ReplanProductionOrder
  <2>3. row \in ProductionRows /\ row.produced = production[p].produced /\ row.status = production[p].status
    BY <1>3, <1>5, <2>1, <2>2 DEF ProductionRows, ProductionRead
  <2>4. row.status = "completed" => p \in finalPass
    BY <1>5, <2>3 DEF ProductionInv, QcFollowsFinalPass
  <2>5. QED
    BY <1>1, <1>4, <1>5, <2>2, <2>3, <2>4, ProductionIdle, WriteProductionStep
<1>7. CASE MoveProductionOrder(c)
  <2>1. PICK row : row = [production[p] EXCEPT !.status = q.to]
    OBVIOUS
  <2>2. PICK next : next = IF q.to = "on_hold" THEN Idle ELSE [q EXCEPT !.op = "announce", !.stale = FALSE]
    OBVIOUS
  <2>3. WriteProduction(c, next, p, row) /\ q.op = "move"
    BY <1>1, <1>2, <1>7, <2>1, <2>2 DEF MoveProductionOrder
  <2>4. /\ q.to \in {"in_progress", "on_hold", "completed"}
        /\ q.to = "completed" => p \in finalPass
    BY <1>2, <1>3, <2>3 DEF ProductionRead
  <2>5. row \in ProductionRows /\ row.produced = production[p].produced /\ row.status = q.to
    BY <1>5, <2>1, <2>4 DEF ProductionRows
  <2>6. next \in {Idle} \cup ProductionRequests /\ ProductionRead(next, daily, finalPass)
    <3>1. CASE q.to = "on_hold"
      BY <2>2, <3>1, ProductionIdle
    <3>2. CASE q.to # "on_hold"
      <4>1. next \in ProductionRequests /\ next.op = "announce" /\ next.row = p /\ next.to = q.to
        BY <1>2, <1>5, <2>2, <3>2 DEF ProductionRequests
      <4>2. QED
        BY <1>5, <2>4, <4>1 DEF ProductionRead
    <3>3. QED
      BY <3>1, <3>2
  <2>7. QED
    BY <1>1, <1>4, <1>5, <2>3, <2>4, <2>5, <2>6, WriteProductionStep
<1>8. QED
  BY <1>6, <1>7

\* A refresh stores the sum it has read, which is the sum unless it is stale.
LEMMA StoreProducedStep ==
  ASSUME ProductionInv, NEW c \in Clients, StoreProduced(c) PROVE ProductionInv'
<1>1. PICK q : q = productionReq[c]
  OBVIOUS
<1>2. PICK p : p = q.row
  OBVIOUS
<1>3. PICK row : row = [production[p] EXCEPT !.produced = q.qty]
  OBVIOUS
<1>4. /\ q \in {Idle} \cup ProductionRequests /\ ProductionRead(q, daily, finalPass)
      /\ production \in [ProductionOrders -> ProductionRows] /\ outOfStep \subseteq ProductionOrders
  BY <1>1 DEF ProductionInv
<1>5. /\ q.op = "refresh"
      /\ outOfStep' = IF q.stale THEN outOfStep \cup {p} ELSE outOfStep
      /\ productionReq' = [productionReq EXCEPT ![c] = Idle]
      /\ UNCHANGED <<sales, movedBy, daily, finalPass>>
      /\ production' = [production EXCEPT ![p] = row]
  BY <1>1, <1>2, <1>3, <1>4 DEF StoreProduced
<1>6. q \in ProductionRequests /\ p \in ProductionOrders /\ (~ q.stale => q.qty = DailySum(daily, p))
  BY <1>2, <1>4, <1>5, ProductionKinds DEF ProductionRead
<1>7. row \in ProductionRows /\ row.produced = q.qty /\ row.status = production[p].status
  BY <1>3, <1>4, <1>6 DEF ProductionRows, ProductionRequests
<1>8. /\ production' \in [ProductionOrders -> ProductionRows] /\ outOfStep' \subseteq ProductionOrders
      /\ outOfStep \subseteq outOfStep' /\ production'[p] = row
      /\ \A x \in ProductionOrders : x # p => production'[x] = production[x]
  BY <1>4, <1>5, <1>6, <1>7
<1>9. /\ productionReq' \in [Clients -> {Idle} \cup ProductionRequests]
      /\ productionReq'[c] = Idle /\ \A d \in Clients : d # c => productionReq'[d] = productionReq[d]
  BY <1>5 DEF ProductionInv
<1>10. \A d \in Clients : ProductionRead(productionReq'[d], daily', finalPass')
  BY <1>5, <1>9, ProductionIdle DEF ProductionInv
<1>11. ASSUME NEW x \in ProductionOrders
       PROVE  ProducedOK(x, productionReq', production', daily', outOfStep')
  <2>1. CASE x = p
    <3>1. q.stale => p \in outOfStep'
      BY <1>5
    <3>2. ~ q.stale => production'[p].produced = DailySum(daily', p)
      BY <1>5, <1>6, <1>7, <1>8
    <3>3. QED
      BY <2>1, <3>1, <3>2 DEF ProducedOK
  <2>2. CASE x # p
    <3>1. ProducedOK(x, productionReq, production, daily, outOfStep)
      BY DEF ProductionInv
    <3>2. QED
      BY <1>1, <1>2, <1>5, <1>8, <1>9, <2>2, <3>1 DEF ProducedOK
  <2>3. QED
    BY <2>1, <2>2
<1>12. QcFollowsFinalPass'
  BY <1>5, <1>7, <1>8 DEF ProductionInv, QcFollowsFinalPass
<1>13. QED
  BY <1>5, <1>8, <1>9, <1>10, <1>11, <1>12 DEF ProductionInv

\* An entry is written by a request that goes on to refresh its order.
LEMMA WriteDailyStep ==
  ASSUME ProductionInv, NEW c \in Clients, NEW e \in DailyRows, NEW entry \in DailyEntries,
         productionReq[c].op \in {"record", "entry"},
         WriteDaily(c, ProductionReq("sum", DailyOrder[e], "", 0), e, entry),
         UNCHANGED <<sales, movedBy, production, finalPass, outOfStep>>, entry.locked => entry.past
  PROVE  ProductionInv'
<1>1. PICK p \in ProductionOrders : p = DailyOrder[e]
  BY ProductionAssumption
<1>2. PICK next : next = ProductionReq("sum", p, "", 0)
  OBVIOUS
<1>3. PICK marks : marks = {d \in Clients : productionReq[d].op = "refresh" /\ productionReq[d].row = p}
  OBVIOUS
<1>4. /\ daily' = [daily EXCEPT ![e] = entry]
      /\ productionReq' = Marked(productionReq, c, next, marks)
  BY <1>1, <1>2, <1>3 DEF WriteDaily, Overtake, Marked
<1>5. next \in ProductionRequests /\ next.op = "sum" /\ next.row = p /\ \A f : ProductionRead(next, f, finalPass)
  BY <1>2 DEF ProductionReq, ProductionRequests, ProductionRead
<1>6. /\ productionReq' \in [Clients -> {Idle} \cup ProductionRequests] /\ productionReq'[c] = next
      /\ \A d \in Clients \ {c} : ProductionKept(productionReq'[d], productionReq[d], d, marks)
  <2>1. next \in {Idle} \cup ProductionRequests
    BY <1>5
  <2>2. QED
    BY <1>4, <2>1, ProductionOvertakes
<1>7. daily \in [DailyRows -> DailyEntries]
  BY DEF ProductionInv
<1>8. /\ daily' \in [DailyRows -> DailyEntries] /\ daily'[e] = entry
      /\ \A y \in DailyRows : y # e => daily'[y] = daily[y]
  BY <1>4, <1>7
<1>9. ASSUME NEW x \in ProductionOrders, x # p PROVE DailySum(daily', x) = DailySum(daily, x)
  <2>1. \A y \in DailyRows : DailyOrder[y] = x => daily'[y].qty = daily[y].qty
    BY <1>1, <1>8, <1>9
  <2>2. QED
    BY <1>7, <1>8, <2>1, DailySums
<1>10. ASSUME NEW d \in Clients, d # c PROVE ProductionRead(productionReq'[d], daily', finalPass')
  <2>1. PICK x, q :
               /\ x = productionReq'[d] /\ q = productionReq[d]
               /\ x.op = q.op /\ x.row = q.row
               /\ ProductionRead(x, daily, finalPass)
               /\ (x = Idle \/ (d \in marks /\ x.stale) \/ (d \notin marks /\ x = q))
    BY <1>6, <1>10 DEF ProductionKept
  <2>2. CASE x = Idle
    BY <2>1, <2>2, ProductionIdle
  <2>3. CASE x.stale
    BY <2>1, <2>3 DEF ProductionRead
  <2>4. CASE d \notin marks /\ x = q
    <3>1. x.op = "refresh" => x.row \in ProductionOrders /\ x.row # p
      BY <1>3, <2>1, <2>4 DEF ProductionRead
    <3>2. x.op = "refresh" => DailySum(daily', x.row) = DailySum(daily, x.row)
      BY <1>9, <3>1
    <3>3. ProductionRead(x, daily', finalPass')
      BY <2>1, <3>2 DEF ProductionRead
    <3>4. QED
      BY <2>1, <3>3
  <2>5. QED
    BY <2>1, <2>2, <2>3, <2>4
<1>11. \A d \in Clients : ProductionRead(productionReq'[d], daily', finalPass')
  BY <1>5, <1>6, <1>10
<1>12. \A d \in Clients \ {c} : productionReq'[d].op = productionReq[d].op /\ productionReq'[d].row = productionReq[d].row
  BY <1>6 DEF ProductionKept
<1>13. ASSUME NEW x \in ProductionOrders
       PROVE  ProducedOK(x, productionReq', production', daily', outOfStep')
  <2>1. CASE x = p
    BY <1>5, <1>6, <2>1 DEF ProducedOK
  <2>2. CASE x # p
    <3>1. ProducedOK(x, productionReq, production, daily, outOfStep)
      BY DEF ProductionInv
    <3>2. QED
      BY <1>9, <1>12, <2>2, <3>1 DEF ProducedOK
  <2>3. QED
    BY <2>1, <2>2
<1>14. QcFollowsFinalPass'
  BY DEF ProductionInv, QcFollowsFinalPass
<1>15. \A y \in DailyRows : daily'[y].locked => daily'[y].past
  BY <1>8 DEF ProductionInv
<1>16. QED
  BY <1>6, <1>8, <1>11, <1>13, <1>14, <1>15 DEF ProductionInv

\* A daily entry is written, and the refresh of its order is due.
LEMMA DailyWrites ==
  ASSUME ProductionInv, NEW c \in Clients, RecordDaily(c) \/ UpdateDaily(c) PROVE ProductionInv'
<1>1. PICK q : q = productionReq[c]
  OBVIOUS
<1>2. PICK e : e = q.row
  OBVIOUS
<1>3. /\ ProductionRead(q, daily, finalPass) /\ daily \in [DailyRows -> DailyEntries]
      /\ \A x \in DailyRows : daily[x].locked => daily[x].past
  BY <1>1 DEF ProductionInv
<1>4. q.op \in {"record", "entry"} /\ UNCHANGED <<sales, movedBy, production, finalPass, outOfStep>>
  BY <1>1 DEF RecordDaily, UpdateDaily
<1>5. e \in DailyRows /\ q.qty \in Quantities
  BY <1>2, <1>3, <1>4 DEF ProductionRead
<1>6. CASE RecordDaily(c)
  <2>1. PICK past \in BOOLEAN :
          WriteDaily(c, ProductionReq("sum", DailyOrder[e], "", 0), e,
                     [qty |-> q.qty, past |-> past, locked |-> FALSE])
    BY <1>1, <1>2, <1>6 DEF RecordDaily
  <2>2. PICK entry : entry = [qty |-> q.qty, past |-> past, locked |-> FALSE]
    OBVIOUS
  <2>3. entry \in DailyEntries /\ ~ entry.locked
    BY <1>5, <2>2 DEF DailyEntries
  <2>4. QED
    BY <1>1, <1>4, <1>5, <2>1, <2>2, <2>3, WriteDailyStep
<1>7. CASE UpdateDaily(c)
  <2>1. PICK entry : entry = [daily[e] EXCEPT !.qty = q.qty]
    OBVIOUS
  <2>2. WriteDaily(c, ProductionReq("sum", DailyOrder[e], "", 0), e, entry)
    BY <1>1, <1>2, <1>7, <2>1 DEF UpdateDaily
  <2>3. entry \in DailyEntries /\ entry.locked = daily[e].locked /\ entry.past = daily[e].past
    BY <1>3, <1>5, <2>1 DEF DailyEntries
  <2>4. QED
    BY <1>1, <1>3, <1>4, <1>5, <2>2, <2>3, WriteDailyStep
<1>8. QED
  BY <1>6, <1>7

\* A day ends, and entries of past days are locked.
LEMMA DayStep ==
  ASSUME ProductionInv, DayEnds \/ LockDailyProductions PROVE ProductionInv'
<1>1. daily \in [DailyRows -> DailyEntries] /\ \A e \in DailyRows : daily[e].locked => daily[e].past
  BY DEF ProductionInv
<1>2. UNCHANGED <<sales, movedBy, production, finalPass, productionReq, outOfStep>>
  BY DEF DayEnds, LockDailyProductions
<1>3. ASSUME NEW e \in DailyRows
      PROVE  /\ daily'[e] \in DailyEntries /\ daily'[e].qty = daily[e].qty
             /\ daily'[e].locked => daily'[e].past
  <2>1. PICK f : f = daily[e]
    OBVIOUS
  <2>2. f \in DailyEntries /\ (f.locked => f.past)
    BY <1>1, <2>1
  <2>3. daily'[e] \in {f, [f EXCEPT !.past = TRUE]} \/ (f.past /\ daily'[e] = [f EXCEPT !.locked = TRUE])
    BY <2>1 DEF DayEnds, LockDailyProductions
  <2>4. QED
    BY <2>1, <2>2, <2>3 DEF DailyEntries
<1>4. daily' \in [DailyRows -> DailyEntries]
  BY <1>3 DEF DayEnds, LockDailyProductions
<1>5. ASSUME NEW p \in ProductionOrders PROVE DailySum(daily', p) = DailySum(daily, p)
  BY <1>1, <1>3, <1>4, DailySums
<1>6. ASSUME NEW c \in Clients PROVE ProductionRead(productionReq'[c], daily', finalPass')
  <2>1. ProductionRead(productionReq[c], daily, finalPass)
    BY DEF ProductionInv
  <2>2. QED
    BY <1>2, <1>5, <2>1 DEF ProductionRead
<1>7. ASSUME NEW p \in ProductionOrders
      PROVE  ProducedOK(p, productionReq', production', daily', outOfStep')
  <2>1. ProducedOK(p, productionReq, production, daily, outOfStep)
    BY DEF ProductionInv
  <2>2. QED
    BY <1>2, <1>5, <2>1 DEF ProducedOK
<1>8. QcFollowsFinalPass'
  BY <1>2 DEF ProductionInv, QcFollowsFinalPass
<1>9. QED
  BY <1>2, <1>3, <1>4, <1>6, <1>7, <1>8 DEF ProductionInv

\* Nothing is planned or made at the start.
LEMMA ProductionStart == ProductionInit => ProductionInv
<1> SUFFICES ASSUME ProductionInit PROVE ProductionInv
  OBVIOUS
<1>1. /\ sales = "confirmed" /\ movedBy = "user" /\ production = [p \in ProductionOrders |-> NotMade]
      /\ daily = [e \in DailyRows |-> NoEntry] /\ finalPass = {} /\ outOfStep = {}
      /\ productionReq = [c \in Clients |-> Idle]
  BY DEF ProductionInit
<1>2. \A c \in Clients : ProductionRead(productionReq[c], daily, finalPass)
  BY <1>1, ProductionIdle
<1>3. ASSUME NEW p \in ProductionOrders
      PROVE  ProducedOK(p, productionReq, production, daily, outOfStep)
  <2>1. DailySum(daily, p) = 0
    BY <1>1, NoDailySum
  <2>2. production[p].produced = 0
    BY <1>1 DEF NotMade
  <2>3. QED
    BY <2>1, <2>2 DEF ProducedOK
<1>4. QcFollowsFinalPass
  BY <1>1 DEF QcFollowsFinalPass, NotMade
<1>5. \A e \in DailyRows : ~ daily[e].locked
  BY <1>1 DEF NoEntry
<1>6. QED
  BY <1>1, <1>2, <1>3, <1>4, <1>5, ProductionKinds DEF ProductionInv, SalesStatuses

\* Every step of the production keeps the invariant.
LEMMA ProductionStep == ASSUME ProductionInv, [ProductionNext]_productionVars PROVE ProductionInv'
<1>1. CASE DayEnds \/ LockDailyProductions
  BY <1>1, DayStep
<1>2. ASSUME NEW c \in Clients,
             \/ CheckProductionOrder(c) \/ CreateProductionOrder(c) \/ ReadProductionOrder(c)
             \/ ReplanProductionOrder(c) \/ MoveProductionOrder(c) \/ HandleStarted(c) \/ HandleCompleted(c)
             \/ PatchSales(c) \/ MoveSales(c) \/ StoreQcResult(c) \/ ReadForCompletion(c) \/ CheckDaily(c) \/ RecordDaily(c) \/ ReadDaily(c)
             \/ UpdateDaily(c) \/ SumDaily(c) \/ StoreProduced(c) \/ DropProductionRequest(c)
      PROVE  ProductionInv'
  BY <1>2, ProductionBegins, CreateProductionOrderStep, ProductionWrites, ProductionGoesOn, DailyWrites,
     StoreProducedStep
<1>3. CASE UNCHANGED productionVars
  BY <1>3 DEF productionVars, ProductionInv, QcFollowsFinalPass
<1>4. QED
  BY <1>1, <1>2, <1>3 DEF ProductionNext

\* What is locked stays, whatever the step.
LEMMA LockedEntriesStay ==
  ASSUME ProductionInv, [ProductionNext]_productionVars, NEW e \in DailyRows, daily[e].locked
  PROVE  daily'[e] = daily[e]
<1>1. /\ daily \in [DailyRows -> DailyEntries] /\ daily[e] \in DailyEntries /\ daily[e].past
      /\ daily[e] # NoEntry
  BY DEF ProductionInv, NoEntry
<1>2. CASE daily' = daily
  BY <1>2
<1>3. CASE DayEnds \/ LockDailyProductions
  <2>1. PICK f : f = daily[e]
    OBVIOUS
  <2>2. daily'[e] \in {f, [f EXCEPT !.past = TRUE], [f EXCEPT !.locked = TRUE]}
    BY <1>1, <1>3, <2>1 DEF DayEnds, LockDailyProductions
  <2>3. f \in DailyEntries /\ f.past = TRUE /\ f.locked = TRUE
    BY <1>1, <2>1 DEF DailyEntries
  <2>4. QED
    BY <2>1, <2>2, <2>3 DEF DailyEntries
<1>4. ASSUME NEW c \in Clients, RecordDaily(c) \/ UpdateDaily(c) PROVE daily'[e] = daily[e]
  <2>1. PICK q : q = productionReq[c]
    OBVIOUS
  <2>2. daily[q.row] = NoEntry \/ ~ daily[q.row].locked
    BY <1>4, <2>1 DEF RecordDaily, UpdateDaily, Unlocked
  <2>3. q.row # e
    BY <1>1, <2>2
  <2>4. \E x : daily' = [daily EXCEPT ![q.row] = x]
    BY <1>4, <2>1 DEF RecordDaily, UpdateDaily, WriteDaily
  <2>5. QED
    BY <1>1, <2>3, <2>4
<1>5. ASSUME NEW c \in Clients,
             \/ CheckProductionOrder(c) \/ CreateProductionOrder(c) \/ ReadProductionOrder(c)
             \/ ReplanProductionOrder(c) \/ MoveProductionOrder(c) \/ HandleStarted(c) \/ HandleCompleted(c)
             \/ PatchSales(c) \/ MoveSales(c) \/ StoreQcResult(c) \/ ReadForCompletion(c) \/ CheckDaily(c) \/ ReadDaily(c)
             \/ SumDaily(c) \/ StoreProduced(c) \/ DropProductionRequest(c)
      PROVE  daily' = daily
  BY <1>5 DEF CheckProductionOrder, CreateProductionOrder, ReadProductionOrder, ReplanProductionOrder,
     MoveProductionOrder, PatchSales, HandleStarted, HandleCompleted, RequestSales, MoveSales, StoreQcResult, ReadForCompletion, CheckDaily,
     ReadDaily, SumDaily, StoreProduced, DropProductionRequest
<1>6. QED
  <2>1. CASE UNCHANGED productionVars
    BY <2>1 DEF productionVars
  <2>2. CASE ProductionNext
    BY <2>2, <1>3, <1>4, <1>5 DEF ProductionNext
  <2>3. QED
    BY <2>1, <2>2

(*************************************************************************)
(* Bills of material and cost sheets.                                    *)
(* A request that nothing has overtaken holds a draft, or the total of the *)
(* cost sheet.                                                           *)
(*************************************************************************)

BomHeaders ==
  [status : {"none", "draft", "approved", "superseded", "deleted"}, lines : LineCosts \cup {0}]

Sheets == [made : BOOLEAN, total : LineCosts \cup {0}, margin : Margins \cup {0}, price : Nat]

BomRequests ==
  [op : {"edit", "approve", "delete", "build", "generate", "margin"}, row : BomRows,
   seen : Sheets, stale : BOOLEAN]

DraftOps == {"edit", "approve", "delete"}
SheetOps == {"generate", "margin"}

\* What a request has read of the BOMs and the cost sheets.
BomRead(r, headers, sheets, old) ==
  /\ r.op \in DraftOps /\ ~ r.stale => headers[r.row].status = "draft"
  /\ r.op = "build" => headers[r.row].status \in {"approved", "superseded"} \/ r.row \in old
  /\ r.op \in SheetOps => r.seen.price = SellingPrice(r.seen.total, r.seen.margin)
  /\ r.op = "margin" /\ ~ r.stale => sheets[r.row].total = r.seen.total

BomsInv ==
  /\ bom \in [BomRows -> BomHeaders]
  /\ costSheet \in [BomRows -> Sheets]
  /\ built \subseteq BomRows
  /\ bomReq \in [Clients -> {Idle} \cup BomRequests]
  /\ bomStale \subseteq BomRows
  /\ \A c \in Clients : BomRead(bomReq[c], bom, costSheet, bomStale)
  /\ BuiltFromApproved
  /\ PriceFollowsCost

\* The operations are distinct; what does not exist has a place among the rows.
LEMMA BomKinds ==
  /\ Idle.op = "idle"
  /\ \A r \in BomRequests : r # Idle /\ r.op # "idle" /\ r.stale \in BOOLEAN
  /\ NoBom \in BomHeaders /\ Deleted \in BomHeaders /\ NoSheet \in Sheets
  /\ NoBom.status = "none" /\ Deleted.status = "deleted"
  /\ "idle" \notin DraftOps \cup SheetOps \cup {"build"}
BY DEF Idle, BomRequests, NoBom, Deleted, NoSheet, BomHeaders, Sheets, DraftOps, SheetOps

\* The types follow from the invariant.
LEMMA BomsInvTyped == BomsInv => BomsTypeOK
<1> SUFFICES ASSUME BomsInv PROVE BomsTypeOK
  OBVIOUS
<1>1. ASSUME NEW c \in Clients, bomReq[c] # Idle
      PROVE  bomReq[c].op \in {"edit", "approve", "delete", "build", "generate", "margin"}
  <2>1. bomReq[c] \in BomRequests
    BY <1>1 DEF BomsInv
  <2>2. QED
    BY <2>1 DEF BomRequests
<1>2. QED
  BY <1>1 DEF BomsInv, BomsTypeOK, BomHeaders, Sheets

\* A request that is not running has read nothing.
LEMMA BomIdle == ASSUME NEW f, NEW g, NEW S PROVE BomRead(Idle, f, g, S)
BY DEF BomRead, Idle, DraftOps, SheetOps

\* A price is a natural number, and nothing costs nothing.
LEMMA Prices0 ==
  /\ \A total \in Nat, margin \in Nat : SellingPrice(total, margin) \in Nat
  /\ SellingPrice(0, 0) = 0
<1>1. ASSUME NEW total \in Nat, NEW margin \in Nat PROVE SellingPrice(total, margin) \in Nat
  <2>1. PICK m : m = total * (100 + margin)
    OBVIOUS
  <2>2. m \in Nat
    BY <2>1
  <2>3. m \div 100 \in Nat
    BY <2>2
  <2>4. QED
    BY <2>1, <2>3 DEF SellingPrice
<1>2. SellingPrice(0, 0) = 0
  BY DEF SellingPrice
<1>3. QED
  BY <1>1, <1>2

\* A request begins or ends, and an order may be built.
LEMMA BomRequestStep ==
  ASSUME BomsInv, NEW c \in Clients, NEW r \in {Idle} \cup BomRequests,
         bomReq' = [bomReq EXCEPT ![c] = r], BomRead(r, bom, costSheet, bomStale),
         UNCHANGED <<bom, costSheet, bomStale>>, built' \subseteq BomRows, BuiltFromApproved'
  PROVE  BomsInv'
<1>1. /\ bomReq' \in [Clients -> {Idle} \cup BomRequests]
      /\ bomReq'[c] = r /\ \A d \in Clients : d # c => bomReq'[d] = bomReq[d]
  BY DEF BomsInv
<1>2. \A d \in Clients : BomRead(bomReq'[d], bom', costSheet', bomStale')
  BY <1>1 DEF BomsInv
<1>3. PriceFollowsCost'
  BY DEF BomsInv, PriceFollowsCost
<1>4. QED
  BY <1>1, <1>2, <1>3 DEF BomsInv

\* Reading, building and dropping a request write no BOM and no cost sheet.
LEMMA BomRequestSteps ==
  ASSUME BomsInv, NEW c \in Clients,
         ReadBom(c) \/ ReadBomToBuild(c) \/ BuildFromBom(c) \/ ReadForSheet(c) \/ DropBomRequest(c)
  PROVE  BomsInv'
<1>1. /\ bom \in [BomRows -> BomHeaders] /\ costSheet \in [BomRows -> Sheets] /\ built \subseteq BomRows
      /\ BuiltFromApproved /\ UNCHANGED <<bom, costSheet, bomStale>>
  BY DEF BomsInv, ReadBom, ReadBomToBuild, BuildFromBom, ReadForSheet, DropBomRequest
<1>2. CASE BuildFromBom(c)
  <2>1. PICK q : q = bomReq[c]
    OBVIOUS
  <2>2. /\ q.op = "build" /\ built' = built \cup {q.row} /\ bomReq' = [bomReq EXCEPT ![c] = Idle]
    BY <1>2, <2>1 DEF BuildFromBom
  <2>3. q \in BomRequests /\ BomRead(q, bom, costSheet, bomStale)
    BY <2>1, <2>2, BomKinds DEF BomsInv
  <2>4. q.row \in BomRows /\ (bom[q.row].status \in {"approved", "superseded"} \/ q.row \in bomStale)
    BY <2>2, <2>3 DEF BomRead, BomRequests
  <2>5. BuiltFromApproved'
    BY <1>1, <2>2, <2>4 DEF BuiltFromApproved
  <2>6. QED
    BY <1>1, <2>2, <2>4, <2>5, BomIdle, BomRequestStep
<1>3. SUFFICES ASSUME ~ BuildFromBom(c)
               PROVE  \E r \in {Idle} \cup BomRequests :
                        bomReq' = [bomReq EXCEPT ![c] = r] /\ BomRead(r, bom, costSheet, bomStale)
  <2>1. CASE ~ BuildFromBom(c)
    <3>1. built' = built
      BY <2>1 DEF ReadBom, ReadBomToBuild, ReadForSheet, DropBomRequest
    <3>2. BuiltFromApproved'
      BY <1>1, <3>1 DEF BuiltFromApproved
    <3>3. QED
      BY <1>1, <1>3, <2>1, <3>1, <3>2, BomRequestStep
  <2>2. QED
    BY <1>2, <2>1
<1>4. CASE DropBomRequest(c)
  BY <1>4, BomIdle DEF DropBomRequest
<1>5. CASE ReadBom(c)
  <2>1. PICK b \in BomRows, op \in DraftOps :
          /\ bom[b].status = "draft"
          /\ bomReq' = [bomReq EXCEPT ![c] = [op |-> op, row |-> b, seen |-> NoSheet, stale |-> FALSE]]
    BY <1>5 DEF ReadBom, Draft, BeginBom, DraftOps
  <2>2. PICK r : r = [op |-> op, row |-> b, seen |-> NoSheet, stale |-> FALSE]
    OBVIOUS
  <2>3. r \in BomRequests /\ BomRead(r, bom, costSheet, bomStale)
    BY <2>1, <2>2, BomKinds DEF BomRequests, BomRead, DraftOps, SheetOps
  <2>4. QED
    BY <2>1, <2>2, <2>3
<1>6. CASE ReadBomToBuild(c)
  <2>1. PICK b \in BomRows :
          /\ bom[b].status = "approved"
          /\ bomReq' = [bomReq EXCEPT ![c] = [op |-> "build", row |-> b, seen |-> NoSheet, stale |-> FALSE]]
    BY <1>6 DEF ReadBomToBuild, BeginBom
  <2>2. PICK r : r = [op |-> "build", row |-> b, seen |-> NoSheet, stale |-> FALSE]
    OBVIOUS
  <2>3. r \in BomRequests /\ BomRead(r, bom, costSheet, bomStale)
    BY <2>1, <2>2, BomKinds DEF BomRequests, BomRead, DraftOps, SheetOps
  <2>4. QED
    BY <2>1, <2>2, <2>3
<1>7. CASE ReadForSheet(c)
  <2>1. PICK b \in BomRows, margin \in Margins, op \in SheetOps :
          \E seen :
            /\ bomReq' = [bomReq EXCEPT ![c] = [op |-> op, row |-> b, seen |-> seen, stale |-> FALSE]]
            /\ op = "generate" =>
                 seen = [made |-> costSheet[b].made, total |-> bom[b].lines, margin |-> margin,
                         price |-> SellingPrice(bom[b].lines, margin)]
            /\ op = "margin" =>
                 seen = [costSheet[b] EXCEPT !.margin = margin, !.price = SellingPrice(costSheet[b].total, margin)]
    BY <1>7 DEF ReadForSheet, BeginBom, SheetOps
  <2>2. PICK seen :
          /\ bomReq' = [bomReq EXCEPT ![c] = [op |-> op, row |-> b, seen |-> seen, stale |-> FALSE]]
          /\ op = "generate" =>
               seen = [made |-> costSheet[b].made, total |-> bom[b].lines, margin |-> margin,
                       price |-> SellingPrice(bom[b].lines, margin)]
          /\ op = "margin" =>
               seen = [costSheet[b] EXCEPT !.margin = margin, !.price = SellingPrice(costSheet[b].total, margin)]
    BY <2>1
  <2>3. /\ bom[b].lines \in LineCosts \cup {0} /\ costSheet[b] \in Sheets /\ margin \in Nat
        /\ costSheet[b].total \in LineCosts \cup {0} /\ costSheet[b].made \in BOOLEAN
    BY <1>1, BomsAssumption DEF BomHeaders, Sheets
  <2>4. SellingPrice(bom[b].lines, margin) \in Nat /\ SellingPrice(costSheet[b].total, margin) \in Nat
    <3>1. bom[b].lines \in Nat /\ costSheet[b].total \in Nat
      BY <2>3, BomsAssumption
    <3>2. QED
      BY <2>3, <3>1, Prices0
  <2>5. /\ seen \in Sheets /\ seen.price = SellingPrice(seen.total, seen.margin)
        /\ op = "margin" => seen.total = costSheet[b].total
    <3>1. CASE op = "generate"
      BY <2>2, <2>3, <2>4, <3>1 DEF Sheets
    <3>2. CASE op = "margin"
      BY <2>2, <2>3, <2>4, <3>2 DEF Sheets
    <3>3. QED
      BY <3>1, <3>2 DEF SheetOps
  <2>6. PICK r : r = [op |-> op, row |-> b, seen |-> seen, stale |-> FALSE]
    OBVIOUS
  <2>7. r \in BomRequests /\ r.op \in SheetOps /\ r.op \notin DraftOps \cup {"build"} /\ r.seen = seen /\ r.row = b /\ r.op = op
    BY <2>5, <2>6 DEF BomRequests, DraftOps, SheetOps
  <2>8. BomRead(r, bom, costSheet, bomStale)
    BY <2>5, <2>7 DEF BomRead
  <2>9. QED
    BY <2>2, <2>6, <2>7, <2>8
<1>8. QED
  BY <1>3, <1>4, <1>5, <1>6, <1>7

\* What becomes of a request q that did not write.
BomKept(x, q, d, marks) ==
  /\ BomRead(q, bom, costSheet, bomStale) /\ x.op = q.op /\ x.row = q.row
  /\ x = Idle \/ (q # Idle /\ x.seen = q.seen /\ x.row \in BomRows)
  /\ x = Idle \/ (d \in marks /\ x.stale) \/ (d \notin marks /\ x = q)

\* Overtake keeps everything of the other requests but what they have seen.
LEMMA BomOvertakes ==
  ASSUME BomsInv, NEW c \in Clients, NEW marks,
         bomReq' = Marked(bomReq, c, Idle, marks)
  PROVE  /\ bomReq' \in [Clients -> {Idle} \cup BomRequests] /\ bomReq'[c] = Idle
         /\ \A d \in Clients \ {c} : BomKept(bomReq'[d], bomReq[d], d, marks)
<1> USE DEF Marked
<1>1. \A d \in Clients : bomReq[d] \in {Idle} \cup BomRequests
  BY DEF BomsInv
<1>2. ASSUME NEW d \in Clients, d # c
      PROVE  /\ bomReq'[d] \in {Idle} \cup BomRequests
             /\ BomKept(bomReq'[d], bomReq[d], d, marks)
  <2>1. PICK x, q : x = bomReq'[d] /\ q = bomReq[d]
    OBVIOUS
  <2>2. /\ q \in {Idle} \cup BomRequests /\ BomRead(q, bom, costSheet, bomStale)
        /\ x = IF q # Idle /\ d \in marks THEN [q EXCEPT !.stale = TRUE] ELSE q
    BY <1>1, <1>2, <2>1 DEF BomsInv
  <2>3. CASE q # Idle /\ d \in marks
    <3>1. x \in BomRequests /\ x.op = q.op /\ x.row = q.row /\ x.seen = q.seen /\ x.stale /\ x.row \in BomRows
      BY <2>2, <2>3 DEF BomRequests
    <3>2. QED
      BY <2>1, <2>2, <2>3, <3>1 DEF BomKept
  <2>4. CASE ~ (q # Idle /\ d \in marks)
    <3>1. q # Idle => q.row \in BomRows
      BY <2>2 DEF BomRequests
    <3>2. QED
      BY <2>1, <2>2, <2>4, <3>1 DEF BomKept
  <2>5. QED
    BY <2>3, <2>4
<1>3. \A d \in Clients : bomReq'[d] \in {Idle} \cup BomRequests
  BY <1>2
<1>4. bomReq' \in [Clients -> {Idle} \cup BomRequests]
  BY <1>3
<1>5. QED
  BY <1>2, <1>4

\* A new BOM is a draft nobody has read.
LEMMA CreateBomStep == ASSUME BomsInv, CreateBom PROVE BomsInv'
<1>1. PICK b \in BomRows, lines \in LineCosts :
        bom[b] = NoBom /\ bom' = [bom EXCEPT ![b] = [status |-> "draft", lines |-> lines]]
  BY DEF CreateBom
<1>2. UNCHANGED <<costSheet, built, bomReq, bomStale>>
  BY DEF CreateBom
<1>3. /\ bom \in [BomRows -> BomHeaders] /\ built \subseteq BomRows
      /\ bomReq \in [Clients -> {Idle} \cup BomRequests]
  BY DEF BomsInv
<1>4. bom' \in [BomRows -> BomHeaders] /\ \A o \in BomRows : bom[o].status # "none" => bom'[o] = bom[o]
  BY <1>1, <1>3, BomKinds DEF BomHeaders
<1>5. ASSUME NEW c \in Clients PROVE BomRead(bomReq'[c], bom', costSheet', bomStale')
  <2>1. PICK q : q = bomReq[c]
    OBVIOUS
  <2>2. BomRead(q, bom, costSheet, bomStale) /\ q \in {Idle} \cup BomRequests
    BY <1>3, <2>1 DEF BomsInv
  <2>3. q = Idle \/ q.row \in BomRows
    BY <2>2 DEF BomRequests
  <2>4. QED
    BY <1>2, <1>4, <2>1, <2>2, <2>3, BomIdle DEF BomRead
<1>6. BuiltFromApproved' /\ PriceFollowsCost'
  BY <1>2, <1>3, <1>4 DEF BomsInv, BuiltFromApproved, PriceFollowsCost
<1>7. QED
  BY <1>2, <1>4, <1>5, <1>6 DEF BomsInv

\* A request that read a draft writes it, and an approval supersedes others.
LEMMA BomWriteStep ==
  ASSUME BomsInv, NEW c \in Clients, NEW b \in BomRows, NEW written \in SUBSET BomRows,
         bomReq[c].op \in DraftOps, bomReq[c].row = b, b \in written, EndBom(c, written),
         UNCHANGED <<costSheet, built>>,
         bom' \in [BomRows -> BomHeaders], \A o \in BomRows : o \notin written => bom'[o] = bom[o],
         \A o \in written : o # b =>
           bom[o].status = "approved" /\ bom'[o].status = "superseded" /\ bom'[o].lines = bom[o].lines,
         bom'[b].status \in {bom[b].status, "approved", "deleted"},
         bom'[b].status = "deleted" /\ bom[b].status # "deleted" => bom[b].status = "draft" \/ bomReq[c].stale
  PROVE  BomsInv'
<1>1. PICK q : q = bomReq[c]
  OBVIOUS
<1>2. PICK marks : marks = {d \in Clients : bomReq[d].row \in written /\ bomReq[d].op \in {"edit", "approve", "delete", "build", "generate"}}
  OBVIOUS
<1>3. /\ bomReq' = Marked(bomReq, c, Idle, marks)
      /\ bomStale' = IF q.stale THEN bomStale \cup {b} ELSE bomStale
  BY <1>1, <1>2 DEF EndBom, Overtake, Marked
<1>4. /\ bomReq' \in [Clients -> {Idle} \cup BomRequests] /\ bomReq'[c] = Idle
      /\ \A d \in Clients \ {c} : BomKept(bomReq'[d], bomReq[d], d, marks)
  BY <1>3, BomOvertakes
<1>5. /\ BomRead(q, bom, costSheet, bomStale) /\ bomStale \subseteq BomRows /\ built \subseteq BomRows
  BY <1>1 DEF BomsInv
<1>6. bomStale' \subseteq BomRows /\ bomStale \subseteq bomStale'
  BY <1>3, <1>5
<1>7. \A o \in BomRows : bom[o].status \in {"approved", "superseded"}
         => bom'[o].status \in {"approved", "superseded"} \/ o \in bomStale'
  <2>1. ASSUME NEW o \in BomRows, bom[o].status \in {"approved", "superseded"}
        PROVE  bom'[o].status \in {"approved", "superseded"} \/ o \in bomStale'
    <3>1. CASE o = b
      <4>1. bom'[o].status = "deleted" => q.stale
        BY <1>1, <2>1, <3>1
      <4>2. bom'[o].status \in {bom[o].status, "approved", "deleted"}
        BY <3>1
      <4>3. CASE q.stale
        BY <1>3, <3>1, <4>3
      <4>4. QED
        BY <2>1, <4>1, <4>2, <4>3
    <3>2. CASE o # b
      BY <2>1, <3>2
    <3>3. QED
      BY <3>1, <3>2
  <2>2. QED
    BY <2>1
<1>8. ASSUME NEW d \in Clients, d # c PROVE BomRead(bomReq'[d], bom', costSheet', bomStale')
  <2>1. PICK x, y : x = bomReq'[d] /\ y = bomReq[d]
    OBVIOUS
  <2>2. BomKept(x, y, d, marks)
    BY <1>4, <1>8, <2>1
  <2>3. CASE x = Idle
    BY <2>1, <2>3, BomIdle
  <2>4. CASE x # Idle
    <3>1. /\ BomRead(y, bom, costSheet, bomStale) /\ x.op = y.op /\ x.row = y.row /\ x.seen = y.seen
          /\ x.row \in BomRows /\ (x.stale \/ x = y)
      BY <2>2, <2>4 DEF BomKept
    <3>2. x.op \in DraftOps /\ ~ x.stale => x = y /\ x.row \notin written
      BY <1>2, <2>1, <2>2, <2>4 DEF BomKept, DraftOps
    <3>3. x.op \in DraftOps /\ ~ x.stale => bom'[x.row].status = "draft"
      BY <3>1, <3>2 DEF BomRead
    <3>4. x.op = "build" => bom'[x.row].status \in {"approved", "superseded"} \/ x.row \in bomStale'
      BY <1>6, <1>7, <3>1 DEF BomRead
    <3>5. x.op = "margin" /\ ~ x.stale => costSheet'[x.row].total = x.seen.total
      BY <3>1 DEF BomRead
    <3>6. BomRead(x, bom', costSheet', bomStale')
      BY <3>1, <3>3, <3>4, <3>5 DEF BomRead
    <3>7. QED
      BY <2>1, <3>6
  <2>5. QED
    BY <2>3, <2>4
<1>9. \A d \in Clients : BomRead(bomReq'[d], bom', costSheet', bomStale')
  BY <1>4, <1>8, BomIdle
<1>10. BuiltFromApproved'
  BY <1>5, <1>6, <1>7 DEF BomsInv, BuiltFromApproved
<1>11. PriceFollowsCost'
  BY <1>6 DEF BomsInv, PriceFollowsCost
<1>12. QED
  BY <1>4, <1>5, <1>6, <1>9, <1>10, <1>11 DEF BomsInv

\* Editing, approving and deleting are writes of a draft.
LEMMA BomWrites ==
  ASSUME BomsInv, NEW c \in Clients, EditBom(c) \/ ApproveBom(c) \/ DeleteBom(c) PROVE BomsInv'
<1>1. PICK q : q = bomReq[c]
  OBVIOUS
<1>2. PICK b : b = q.row
  OBVIOUS
<1>3. q.op \in DraftOps /\ UNCHANGED <<costSheet, built>>
  BY <1>1 DEF EditBom, ApproveBom, DeleteBom, DraftOps
<1>4. /\ q \in BomRequests /\ BomRead(q, bom, costSheet, bomStale) /\ bom \in [BomRows -> BomHeaders]
  BY <1>1, <1>3, BomKinds DEF BomsInv
<1>5. b \in BomRows /\ bom[b] \in BomHeaders
  BY <1>2, <1>4 DEF BomRequests
<1>6. CASE EditBom(c)
  <2>1. PICK lines \in LineCosts : bom' = [bom EXCEPT ![b].lines = lines]
    BY <1>1, <1>2, <1>6 DEF EditBom
  <2>2. PICK new : new = [bom[b] EXCEPT !.lines = lines]
    OBVIOUS
  <2>3. new \in BomHeaders /\ new.status = bom[b].status
    BY <1>5, <2>2 DEF BomHeaders
  <2>4. bom' \in [BomRows -> BomHeaders] /\ bom'[b] = new /\ \A o \in BomRows : o # b => bom'[o] = bom[o]
    BY <1>4, <1>5, <2>1, <2>2, <2>3
  <2>5. EndBom(c, {b})
    BY <1>1, <1>2, <1>6 DEF EditBom
  <2>6. QED
    BY <1>1, <1>2, <1>3, <1>5, <2>3, <2>4, <2>5, BomWriteStep
<1>7. CASE DeleteBom(c)
  <2>1. bom' = [bom EXCEPT ![b] = Deleted] /\ EndBom(c, {b})
    BY <1>1, <1>2, <1>7 DEF DeleteBom
  <2>2. bom' \in [BomRows -> BomHeaders] /\ bom'[b].status = "deleted" /\ \A o \in BomRows : o # b => bom'[o] = bom[o]
    BY <1>4, <1>5, <2>1, BomKinds
  <2>3. bom[b].status = "draft" \/ q.stale
    BY <1>2, <1>3, <1>4 DEF BomRead
  <2>4. QED
    BY <1>1, <1>2, <1>3, <1>5, <2>1, <2>2, <2>3, BomWriteStep
<1>8. CASE ApproveBom(c)
  <2>1. PICK others : others = {o \in BomRows \ {b} : bom[o].status = "approved"}
    OBVIOUS
  <2>2. /\ bom' = [o \in BomRows |-> IF o = b THEN [bom[o] EXCEPT !.status = "approved"]
                                     ELSE IF o \in others THEN [bom[o] EXCEPT !.status = "superseded"]
                                     ELSE bom[o]]
        /\ EndBom(c, others \cup {b})
    BY <1>1, <1>2, <1>8, <2>1 DEF ApproveBom
  <2>3. ASSUME NEW o \in BomRows
        PROVE  /\ bom'[o] \in BomHeaders /\ bom'[o].lines = bom[o].lines
               /\ o = b => bom'[o].status = "approved"
               /\ o \in others /\ o # b => bom'[o].status = "superseded"
               /\ o \notin others \cup {b} => bom'[o] = bom[o]
    <3>1. PICK h : h = bom[o]
      OBVIOUS
    <3>2. h \in BomHeaders
      BY <1>4, <3>1
    <3>3. bom'[o] = IF o = b THEN [h EXCEPT !.status = "approved"]
                    ELSE IF o \in others THEN [h EXCEPT !.status = "superseded"] ELSE h
      BY <2>2, <3>1
    <3>4. QED
      BY <3>1, <3>2, <3>3 DEF BomHeaders
  <2>4. bom' \in [BomRows -> BomHeaders]
    BY <2>2, <2>3
  <2>5. PICK written \in SUBSET BomRows : written = others \cup {b}
    BY <1>5, <2>1
  <2>6. /\ b \in written /\ EndBom(c, written) /\ bom'[b].status = "approved"
        /\ \A o \in BomRows : o \notin written => bom'[o] = bom[o]
        /\ \A o \in written : o # b =>
             bom[o].status = "approved" /\ bom'[o].status = "superseded" /\ bom'[o].lines = bom[o].lines
    BY <1>5, <2>1, <2>2, <2>3, <2>5
  <2>7. QED
    BY <1>1, <1>2, <1>3, <1>5, <2>4, <2>6, BomWriteStep
<1>9. QED
  BY <1>6, <1>7, <1>8

\* A cost sheet is written with the price of its own total and margin.
LEMMA WriteSheetStep ==
  ASSUME BomsInv, NEW c \in Clients, WriteSheet(c) PROVE BomsInv'
<1>1. PICK q : q = bomReq[c]
  OBVIOUS
<1>2. PICK b : b = q.row
  OBVIOUS
<1>3. PICK next : next = IF q.op = "margin"
                         THEN [costSheet[b] EXCEPT !.margin = q.seen.margin, !.price = q.seen.price]
                         ELSE [q.seen EXCEPT !.made = TRUE]
  OBVIOUS
<1>4. PICK marks : marks = {d \in Clients : bomReq[d].row = b /\ bomReq[d].op \in SheetOps}
  OBVIOUS
<1>5. /\ q.op \in SheetOps /\ costSheet' = [costSheet EXCEPT ![b] = next]
      /\ bomReq' = Marked(bomReq, c, Idle, marks)
      /\ bomStale' = IF q.stale THEN bomStale \cup {b} ELSE bomStale
      /\ UNCHANGED <<bom, built>>
  BY <1>1, <1>2, <1>3, <1>4 DEF WriteSheet, WithMargin, Overtake, SheetOps, Marked
<1>6. /\ bomReq' \in [Clients -> {Idle} \cup BomRequests] /\ bomReq'[c] = Idle
      /\ \A d \in Clients \ {c} : BomKept(bomReq'[d], bomReq[d], d, marks)
  BY <1>5, BomOvertakes
<1>7. /\ q \in BomRequests /\ BomRead(q, bom, costSheet, bomStale) /\ costSheet \in [BomRows -> Sheets]
      /\ bomStale \subseteq BomRows /\ built \subseteq BomRows /\ bom \in [BomRows -> BomHeaders]
  BY <1>1, <1>5, BomKinds DEF BomsInv
<1>8. b \in BomRows /\ q.seen \in Sheets /\ costSheet[b] \in Sheets
  BY <1>2, <1>7 DEF BomRequests
<1>9. next \in Sheets
  BY <1>3, <1>8 DEF Sheets
<1>10. ~ q.stale => next.price = SellingPrice(next.total, next.margin)
  <2>1. q.seen.price = SellingPrice(q.seen.total, q.seen.margin)
    BY <1>5, <1>7 DEF BomRead
  <2>2. CASE q.op = "margin"
    <3>1. next.price = q.seen.price /\ next.margin = q.seen.margin /\ next.total = costSheet[b].total
      BY <1>3, <1>8, <2>2 DEF Sheets
    <3>2. ~ q.stale => costSheet[b].total = q.seen.total
      BY <1>2, <1>7, <2>2 DEF BomRead
    <3>3. QED
      BY <2>1, <3>1, <3>2
  <2>3. CASE q.op # "margin"
    <3>1. next.price = q.seen.price /\ next.margin = q.seen.margin /\ next.total = q.seen.total
      BY <1>3, <1>8, <2>3 DEF Sheets
    <3>2. QED
      BY <2>1, <3>1
  <2>4. QED
    BY <2>2, <2>3
<1>11. /\ costSheet' \in [BomRows -> Sheets] /\ costSheet'[b] = next
       /\ \A o \in BomRows : o # b => costSheet'[o] = costSheet[o]
  BY <1>5, <1>7, <1>8, <1>9
<1>12. bomStale' \subseteq BomRows /\ bomStale \subseteq bomStale'
  BY <1>5, <1>7, <1>8
<1>13. ASSUME NEW d \in Clients, d # c PROVE BomRead(bomReq'[d], bom', costSheet', bomStale')
  <2>1. PICK x, y : x = bomReq'[d] /\ y = bomReq[d]
    OBVIOUS
  <2>2. BomKept(x, y, d, marks)
    BY <1>6, <1>13, <2>1
  <2>3. CASE x = Idle
    BY <2>1, <2>3, BomIdle
  <2>4. CASE x # Idle
    <3>1. /\ BomRead(y, bom, costSheet, bomStale) /\ x.op = y.op /\ x.row = y.row /\ x.seen = y.seen
          /\ x.row \in BomRows /\ (x.stale \/ x = y)
      BY <2>2, <2>4 DEF BomKept
    <3>2. x.op = "margin" /\ ~ x.stale => x = y /\ x.row # b
      BY <1>4, <2>1, <2>2, <2>4 DEF BomKept, SheetOps
    <3>3. x.op = "margin" /\ ~ x.stale => costSheet'[x.row].total = x.seen.total
      BY <1>11, <3>1, <3>2 DEF BomRead
    <3>4. BomRead(x, bom', costSheet', bomStale')
      BY <1>5, <1>12, <3>1, <3>3 DEF BomRead
    <3>5. QED
      BY <2>1, <3>4
  <2>5. QED
    BY <2>3, <2>4
<1>14. \A d \in Clients : BomRead(bomReq'[d], bom', costSheet', bomStale')
  BY <1>6, <1>13, BomIdle
<1>15. BuiltFromApproved'
  BY <1>5, <1>7, <1>12 DEF BomsInv, BuiltFromApproved
<1>16. PriceFollowsCost'
  BY <1>5, <1>10, <1>11, <1>12 DEF BomsInv, PriceFollowsCost
<1>17. QED
  BY <1>5, <1>6, <1>7, <1>11, <1>12, <1>14, <1>15, <1>16 DEF BomsInv

\* No BOM exists at the start.
LEMMA BomsStart == BomsInit => BomsInv
<1> SUFFICES ASSUME BomsInit PROVE BomsInv
  OBVIOUS
<1>1. PriceFollowsCost /\ BuiltFromApproved
  BY Prices0 DEF BomsInit, PriceFollowsCost, BuiltFromApproved, NoSheet
<1>2. \A c \in Clients : BomRead(bomReq[c], bom, costSheet, bomStale)
  BY BomIdle DEF BomsInit
<1>3. QED
  BY <1>1, <1>2, BomKinds DEF BomsInit, BomsInv

\* Every step of the BOMs keeps the invariant.
LEMMA BomsStep == ASSUME BomsInv, [BomsNext]_bomVars PROVE BomsInv'
<1>1. CASE CreateBom
  BY <1>1, CreateBomStep
<1>2. ASSUME NEW c \in Clients,
             \/ ReadBom(c) \/ EditBom(c) \/ ApproveBom(c) \/ DeleteBom(c) \/ ReadBomToBuild(c)
             \/ BuildFromBom(c) \/ ReadForSheet(c) \/ WriteSheet(c) \/ DropBomRequest(c)
      PROVE  BomsInv'
  BY <1>2, BomRequestSteps, BomWrites, WriteSheetStep
<1>3. CASE UNCHANGED bomVars
  BY <1>3 DEF bomVars, BomsInv, BuiltFromApproved, PriceFollowsCost
<1>4. QED
  BY <1>1, <1>2, <1>3 DEF BomsNext

\* An approved BOM stays, whatever the step.
LEMMA ApprovedBomsStay ==
  ASSUME BomsInv, [BomsNext]_bomVars, NEW b \in BomRows, bom[b].status = "approved", b \notin bomStale'
  PROVE  bom'[b].lines = bom[b].lines /\ bom'[b].status \in {"approved", "superseded"}
<1>1. bom \in [BomRows -> BomHeaders] /\ bom[b] \in BomHeaders
  BY DEF BomsInv
<1>2. CASE bom' = bom
  BY <1>2
<1>3. CASE CreateBom
  BY <1>1, <1>3, BomKinds DEF CreateBom
<1>4. ASSUME NEW c \in Clients, EditBom(c) \/ DeleteBom(c)
      PROVE  bom'[b] = bom[b]
  <2>1. PICK q : q = bomReq[c]
    OBVIOUS
  <2>2. /\ q.op \in DraftOps /\ bomStale' = IF q.stale THEN bomStale \cup {q.row} ELSE bomStale
    BY <1>4, <2>1 DEF EditBom, DeleteBom, EndBom, DraftOps
  <2>3. \/ bom' = [bom EXCEPT ![q.row] = Deleted]
        \/ \E lines \in LineCosts : bom' = [bom EXCEPT ![q.row].lines = lines]
    BY <1>4, <2>1 DEF EditBom, DeleteBom
  <2>4. BomRead(q, bom, costSheet, bomStale)
    BY <2>1 DEF BomsInv
  <2>5. q.row # b
    BY <2>2, <2>4 DEF BomRead
  <2>6. QED
    BY <1>1, <2>3, <2>5
<1>5. ASSUME NEW c \in Clients, ApproveBom(c)
      PROVE  bom'[b].lines = bom[b].lines /\ bom'[b].status \in {"approved", "superseded"}
  <2>1. PICK h : h = bom[b]
    OBVIOUS
  <2>2. bom'[b] \in {h, [h EXCEPT !.status = "approved"], [h EXCEPT !.status = "superseded"]}
    BY <1>5, <2>1 DEF ApproveBom
  <2>3. QED
    BY <1>1, <2>1, <2>2 DEF BomHeaders
<1>6. ASSUME NEW c \in Clients,
             ReadBom(c) \/ ReadBomToBuild(c) \/ BuildFromBom(c) \/ ReadForSheet(c) \/ WriteSheet(c) \/ DropBomRequest(c)
      PROVE  bom' = bom
  BY <1>6 DEF ReadBom, ReadBomToBuild, BuildFromBom, ReadForSheet, WriteSheet, DropBomRequest
<1>7. QED
  <2>1. CASE UNCHANGED bomVars
    BY <2>1 DEF bomVars
  <2>2. CASE BomsNext
    BY <2>2, <1>2, <1>3, <1>4, <1>5, <1>6 DEF BomsNext
  <2>3. QED
    BY <1>2, <2>1, <2>2 DEF bomVars

(*************************************************************************)
(* Machines and scrap.                                                   *)
(* A release that nothing has overtaken has counted no open maintenance; an *)
(* authorisation that nothing has overtaken holds scrap that waits.      *)
(*************************************************************************)

WorkshopRequests ==
  [op : {"mark", "end", "count", "release", "dispose"}, row : Maintenances \cup Scrap, stale : BOOLEAN]

\* What a request has read of the maintenance and the scrap.
WorkshopRead(r, rows, disposals) ==
  /\ r.op \in {"mark", "end", "count", "release"} => r.row \in Maintenances
  /\ r.op = "dispose" => r.row \in Scrap
  /\ r.op = "dispose" /\ ~ r.stale => disposals[r.row] = "waiting"
  /\ r.op = "release" /\ ~ r.stale => \A m \in Maintenances : rows[m] # "open"

WorkshopInv ==
  /\ WorkshopTypeOK
  /\ \A c \in Clients : WorkshopRead(workshopReq[c], maintenance, disposal)
  /\ machine = "none" => \A m \in Maintenances : maintenance[m] # "open"
  /\ MaintainedIsMarked

\* The types, with the sets they are about named.
LEMMA WorkshopTyped ==
  WorkshopTypeOK <=>
    /\ machine \in MachineStatus \cup {"none"}
    /\ maintenance \in [Maintenances -> {"none", "open", "closed"}]
    /\ disposal \in [Scrap -> Approvers \cup {"none", "waiting"}]
    /\ workshopReq \in [Clients -> {Idle} \cup WorkshopRequests]
    /\ machineStale \in BOOLEAN
    /\ scrapStale \subseteq Scrap
BY DEF WorkshopTypeOK, WorkshopRequests

\* A running request is not idle, and carries what it was begun with.
LEMMA WorkshopKinds ==
  /\ Idle.op = "idle"
  /\ \A r \in WorkshopRequests : r # Idle /\ r.op # "idle" /\ r.stale \in BOOLEAN
  /\ \A op \in {"mark", "end", "count", "release", "dispose"}, row \in Maintenances \cup Scrap :
       /\ WorkshopReq(op, row) \in WorkshopRequests /\ WorkshopReq(op, row).op = op
       /\ WorkshopReq(op, row).row = row /\ ~ WorkshopReq(op, row).stale
BY DEF Idle, WorkshopRequests, WorkshopReq

\* A request that is not running has read nothing.
LEMMA WorkshopIdle == ASSUME NEW rows, NEW disposals PROVE WorkshopRead(Idle, rows, disposals)
BY DEF WorkshopRead, Idle

\* A request changes and neither the maintenance nor the scrap does.
LEMMA WorkshopRequestStep ==
  ASSUME WorkshopInv, NEW c \in Clients, NEW r \in {Idle} \cup WorkshopRequests,
         workshopReq' = [workshopReq EXCEPT ![c] = r], WorkshopRead(r, maintenance, disposal),
         UNCHANGED <<maintenance, disposal, scrapStale>>,
         machine' \in MachineStatus \cup {"none"}, machineStale' \in BOOLEAN,
         machine' = "none" => machine = "none",
         MaintainedIsMarked'
  PROVE  WorkshopInv'
<1>1. /\ workshopReq' \in [Clients -> {Idle} \cup WorkshopRequests]
      /\ workshopReq'[c] = r /\ \A d \in Clients : d # c => workshopReq'[d] = workshopReq[d]
  BY WorkshopTyped DEF WorkshopInv
<1>2. WorkshopTypeOK'
  BY <1>1 DEF WorkshopInv, WorkshopTypeOK, WorkshopRequests
<1>3. \A d \in Clients : WorkshopRead(workshopReq'[d], maintenance', disposal')
  BY <1>1 DEF WorkshopInv
<1>4. QED
  BY <1>2, <1>3 DEF WorkshopInv

\* The same when the machine stays and the request marks no machine.
LEMMA WorkshopPlainStep ==
  ASSUME WorkshopInv, NEW c \in Clients, NEW r \in {Idle} \cup WorkshopRequests,
         workshopReq' = [workshopReq EXCEPT ![c] = r], WorkshopRead(r, maintenance, disposal),
         UNCHANGED <<machine, maintenance, disposal, scrapStale>>,
         machineStale' \in BOOLEAN, machineStale => machineStale',
         workshopReq[c].op = "mark" => machineStale'
  PROVE  WorkshopInv'
<1>1. \A d \in Clients : d # c => workshopReq'[d] = workshopReq[d]
  BY WorkshopTyped DEF WorkshopInv
<1>2. MaintainedIsMarked'
  BY <1>1 DEF WorkshopInv, MaintainedIsMarked
<1>3. machine' \in MachineStatus \cup {"none"}
  BY WorkshopTyped DEF WorkshopInv
<1>4. QED
  BY <1>2, <1>3, WorkshopRequestStep

\* Reading, counting, releasing and dropping write no maintenance and no scrap.
LEMMA WorkshopRequestSteps ==
  ASSUME WorkshopInv, NEW c \in Clients,
         \/ ReadMaintenance(c) \/ CountOpen(c) \/ ReadScrap(c) \/ ReleaseMachine(c) \/ DropWorkshopRequest(c)
  PROVE  WorkshopInv'
<1>1. PICK q : q = workshopReq[c]
  OBVIOUS
<1>2. /\ q \in {Idle} \cup WorkshopRequests /\ WorkshopRead(q, maintenance, disposal)
      /\ machineStale \in BOOLEAN
  BY <1>1, WorkshopTyped DEF WorkshopInv
<1>3. CASE ReadMaintenance(c)
  <2>1. PICK m \in Maintenances : workshopReq' = [workshopReq EXCEPT ![c] = WorkshopReq("end", m)]
    BY <1>3 DEF ReadMaintenance
  <2>2. PICK r : r = WorkshopReq("end", m)
    OBVIOUS
  <2>3. r \in WorkshopRequests /\ WorkshopRead(r, maintenance, disposal)
    BY <2>2, WorkshopKinds DEF WorkshopRead
  <2>4. workshopReq[c].op # "mark" /\ UNCHANGED <<machine, maintenance, disposal, machineStale, scrapStale>>
    BY <1>3, WorkshopKinds DEF ReadMaintenance
  <2>5. QED
    BY <1>2, <2>1, <2>2, <2>3, <2>4, WorkshopPlainStep
<1>4. CASE ReadScrap(c)
  <2>1. PICK s \in Scrap :
          disposal[s] = "waiting" /\ workshopReq' = [workshopReq EXCEPT ![c] = WorkshopReq("dispose", s)]
    BY <1>4 DEF ReadScrap, AwaitsDisposal
  <2>2. PICK r : r = WorkshopReq("dispose", s)
    OBVIOUS
  <2>3. r \in WorkshopRequests /\ WorkshopRead(r, maintenance, disposal)
    BY <2>1, <2>2, WorkshopKinds DEF WorkshopRead
  <2>4. workshopReq[c].op # "mark" /\ UNCHANGED <<machine, maintenance, disposal, machineStale, scrapStale>>
    BY <1>4, WorkshopKinds DEF ReadScrap
  <2>5. QED
    BY <1>2, <2>1, <2>2, <2>3, <2>4, WorkshopPlainStep
<1>5. CASE CountOpen(c)
  <2>1. PICK r : r = IF NoneOpen(q.row) THEN WorkshopReq("release", q.row) ELSE Idle
    OBVIOUS
  <2>2. /\ q.op = "count" /\ workshopReq' = [workshopReq EXCEPT ![c] = r]
        /\ UNCHANGED <<machine, maintenance, disposal, machineStale, scrapStale>>
    BY <1>1, <1>5, <2>1 DEF CountOpen
  <2>3. q.row \in Maintenances
    BY <1>2, <2>2 DEF WorkshopRead
  <2>4. r \in {Idle} \cup WorkshopRequests /\ WorkshopRead(r, maintenance, disposal)
    <3>1. CASE NoneOpen(q.row)
      BY <2>1, <2>3, <3>1, WorkshopKinds DEF WorkshopRead, NoneOpen
    <3>2. CASE ~ NoneOpen(q.row)
      BY <2>1, <3>2, WorkshopIdle
    <3>3. QED
      BY <3>1, <3>2
  <2>5. QED
    BY <1>1, <1>2, <2>2, <2>4, WorkshopPlainStep
<1>6. CASE ReleaseMachine(c)
  <2>1. /\ q.op = "release" /\ machine' = "active" /\ machineStale' = (machineStale \/ q.stale)
        /\ workshopReq' = [workshopReq EXCEPT ![c] = Idle]
        /\ UNCHANGED <<maintenance, disposal, scrapStale>>
    BY <1>1, <1>6 DEF ReleaseMachine
  <2>2. q.stale \in BOOLEAN
    BY <1>2, <2>1, WorkshopKinds
  <2>3. q.stale \/ \A m \in Maintenances : maintenance[m] # "open"
    BY <1>2, <2>1 DEF WorkshopRead
  <2>4. MaintainedIsMarked'
    BY <2>1, <2>3 DEF MaintainedIsMarked
  <2>5. machine' \in MachineStatus \cup {"none"} /\ machineStale' \in BOOLEAN /\ machine' # "none"
    BY <1>2, <2>1, <2>2 DEF MachineStatus
  <2>6. QED
    BY <2>1, <2>4, <2>5, WorkshopIdle, WorkshopRequestStep
<1>7. CASE DropWorkshopRequest(c)
  <2>1. /\ machineStale' = (machineStale \/ q.op \in {"mark", "count", "release"})
        /\ workshopReq' = [workshopReq EXCEPT ![c] = Idle]
        /\ UNCHANGED <<machine, maintenance, disposal, scrapStale>>
    BY <1>1, <1>7 DEF DropWorkshopRequest
  <2>2. QED
    BY <1>1, <1>2, <2>1, WorkshopIdle, WorkshopPlainStep
<1>8. QED
  BY <1>3, <1>4, <1>5, <1>6, <1>7

\* A step no request takes.
LEMMA WorkshopOwnStep ==
  ASSUME WorkshopInv, CreateMachine \/ UpdateMachine \/ RecordScrap PROVE WorkshopInv'
<1>1. /\ workshopReq' = workshopReq /\ maintenance' = maintenance /\ scrapStale' = scrapStale
      /\ workshopReq \in [Clients -> {Idle} \cup WorkshopRequests]
      /\ disposal \in [Scrap -> Approvers \cup {"none", "waiting"}]
      /\ machine \in MachineStatus \cup {"none"} /\ machineStale \in BOOLEAN
  BY WorkshopTyped DEF CreateMachine, UpdateMachine, RecordScrap, WorkshopInv
<1>2. CASE CreateMachine \/ UpdateMachine
  <2>1. /\ machine' \in MachineStatus /\ machine' # "none" /\ machineStale' \in BOOLEAN /\ disposal' = disposal
        /\ machineStale' \/ (machine = "none" /\ machineStale' = machineStale)
    BY <1>1, <1>2 DEF CreateMachine, UpdateMachine, MachineStatus
  <2>2. MaintainedIsMarked'
    BY <1>1, <2>1 DEF WorkshopInv, MaintainedIsMarked
  <2>3. WorkshopTypeOK'
    BY <1>1, <2>1 DEF WorkshopInv, WorkshopTypeOK
  <2>4. \A c \in Clients : WorkshopRead(workshopReq'[c], maintenance', disposal')
    BY <1>1, <2>1 DEF WorkshopInv
  <2>5. QED
    BY <2>1, <2>2, <2>3, <2>4 DEF WorkshopInv
<1>3. CASE RecordScrap
  <2>1. PICK s \in Scrap : disposal[s] = "none" /\ disposal' = [disposal EXCEPT ![s] = "waiting"]
    BY <1>3 DEF RecordScrap
  <2>2. machine' = machine /\ machineStale' = machineStale
    BY <1>3 DEF RecordScrap
  <2>3. /\ disposal' \in [Scrap -> Approvers \cup {"none", "waiting"}]
        /\ \A x \in Scrap : disposal[x] = "waiting" => disposal'[x] = "waiting"
    BY <1>1, <2>1
  <2>4. WorkshopTypeOK' /\ MaintainedIsMarked'
    BY <1>1, <2>2, <2>3 DEF WorkshopInv, WorkshopTypeOK, MaintainedIsMarked
  <2>5. ASSUME NEW c \in Clients PROVE WorkshopRead(workshopReq'[c], maintenance', disposal')
    <3>1. WorkshopRead(workshopReq[c], maintenance, disposal)
      BY DEF WorkshopInv
    <3>2. QED
      BY <1>1, <2>3, <3>1 DEF WorkshopRead
  <2>6. QED
    BY <1>1, <2>2, <2>4, <2>5 DEF WorkshopInv
<1>4. QED
  BY <1>2, <1>3

\* What becomes of a request q that did not write.
WorkshopKept(x, q, d, marks) ==
  /\ WorkshopRead(q, maintenance, disposal) /\ x.op = q.op /\ x.row = q.row
  /\ x = Idle \/ (d \in marks /\ x.stale) \/ (d \notin marks /\ x = q)

\* Overtake keeps everything of the other requests but what they have seen.
LEMMA WorkshopOvertakes ==
  ASSUME WorkshopInv, NEW c \in Clients, NEW next \in {Idle} \cup WorkshopRequests, NEW marks,
         workshopReq' = Marked(workshopReq, c, next, marks)
  PROVE  /\ workshopReq' \in [Clients -> {Idle} \cup WorkshopRequests] /\ workshopReq'[c] = next
         /\ \A d \in Clients \ {c} : WorkshopKept(workshopReq'[d], workshopReq[d], d, marks)
<1> USE DEF Marked
<1>1. \A d \in Clients : workshopReq[d] \in {Idle} \cup WorkshopRequests
  BY WorkshopTyped DEF WorkshopInv
<1>2. ASSUME NEW d \in Clients, d # c
      PROVE  /\ workshopReq'[d] \in {Idle} \cup WorkshopRequests
             /\ WorkshopKept(workshopReq'[d], workshopReq[d], d, marks)
  <2>1. PICK x, q : x = workshopReq'[d] /\ q = workshopReq[d]
    OBVIOUS
  <2>2. /\ q \in {Idle} \cup WorkshopRequests /\ WorkshopRead(q, maintenance, disposal)
        /\ x = IF q # Idle /\ d \in marks THEN [q EXCEPT !.stale = TRUE] ELSE q
    BY <1>1, <1>2, <2>1 DEF WorkshopInv
  <2>3. CASE q # Idle /\ d \in marks
    <3>1. x \in WorkshopRequests /\ x.op = q.op /\ x.row = q.row /\ x.stale
      BY <2>2, <2>3 DEF WorkshopRequests
    <3>2. QED
      BY <2>1, <2>2, <2>3, <3>1 DEF WorkshopKept
  <2>4. CASE ~ (q # Idle /\ d \in marks)
    BY <2>1, <2>2, <2>4 DEF WorkshopKept
  <2>5. QED
    BY <2>3, <2>4
<1>3. \A d \in Clients : workshopReq'[d] \in {Idle} \cup WorkshopRequests
  BY <1>2
<1>4. workshopReq' \in [Clients -> {Idle} \cup WorkshopRequests]
  BY <1>3
<1>5. QED
  BY <1>2, <1>4

\* Maintenance is opened, or the machine is marked.
LEMMA WorkshopMarks ==
  ASSUME WorkshopInv, NEW c \in Clients, AddMaintenance(c) \/ MarkMachine(c) PROVE WorkshopInv'
<1>1. PICK marks : marks = {d \in Clients : workshopReq[d].op = "release"}
  OBVIOUS
<1>2. \E next \in {Idle} \cup WorkshopRequests :
        /\ workshopReq' = Overtake(workshopReq, c, next, CountingOpen)
        /\ \A f : WorkshopRead(next, f, disposal)
        /\ maintenance' \in [Maintenances -> {"none", "open", "closed"}]
        /\ machine # "none" => machine' # "none"
        /\ machine' \in MachineStatus \cup {"none"}
        /\ \/ machine' = "under_maintenance" /\ maintenance' = maintenance
           \/ /\ machine' = machine /\ machine # "none" /\ next.op = "mark" /\ workshopReq[c] = Idle
              /\ \A m \in Maintenances : m # next.row => maintenance'[m] = maintenance[m]
  <2>1. machine \in MachineStatus \cup {"none"} /\ maintenance \in [Maintenances -> {"none", "open", "closed"}]
    BY WorkshopTyped DEF WorkshopInv
  <2>2. CASE MarkMachine(c)
    BY <2>1, <2>2, WorkshopIdle DEF MarkMachine, MachineStatus
  <2>3. CASE AddMaintenance(c)
    <3>1. PICK m \in Maintenances :
            /\ maintenance' = [maintenance EXCEPT ![m] = "open"]
            /\ workshopReq' = Overtake(workshopReq, c, WorkshopReq("mark", m), CountingOpen)
      BY <2>3 DEF AddMaintenance
    <3>2. PICK r : r = WorkshopReq("mark", m)
      OBVIOUS
    <3>3. r \in WorkshopRequests /\ r.op = "mark" /\ r.row = m
      BY <3>2, WorkshopKinds
    <3>4. \A f : WorkshopRead(r, f, disposal)
      BY <3>3 DEF WorkshopRead
    <3>5. machine' = machine /\ machine # "none" /\ workshopReq[c] = Idle
      BY <2>3 DEF AddMaintenance
    <3>6. /\ maintenance' \in [Maintenances -> {"none", "open", "closed"}]
          /\ \A x \in Maintenances : x # m => maintenance'[x] = maintenance[x]
      BY <2>1, <3>1
    <3>7. QED
      BY <2>1, <3>1, <3>2, <3>3, <3>4, <3>5, <3>6
  <2>4. QED
    BY <2>2, <2>3
<1>3. PICK next \in {Idle} \cup WorkshopRequests :
        /\ workshopReq' = Overtake(workshopReq, c, next, CountingOpen)
        /\ \A f : WorkshopRead(next, f, disposal)
        /\ maintenance' \in [Maintenances -> {"none", "open", "closed"}]
        /\ machine # "none" => machine' # "none"
        /\ machine' \in MachineStatus \cup {"none"}
        /\ \/ machine' = "under_maintenance" /\ maintenance' = maintenance
           \/ /\ machine' = machine /\ machine # "none" /\ next.op = "mark" /\ workshopReq[c] = Idle
              /\ \A m \in Maintenances : m # next.row => maintenance'[m] = maintenance[m]
  BY <1>2
<1>4. UNCHANGED <<disposal, machineStale, scrapStale>>
  BY DEF AddMaintenance, MarkMachine
<1>5. workshopReq' = Marked(workshopReq, c, next, marks)
  BY <1>1, <1>3 DEF Overtake, CountingOpen, Marked
<1>6. /\ workshopReq' \in [Clients -> {Idle} \cup WorkshopRequests] /\ workshopReq'[c] = next
      /\ \A d \in Clients \ {c} : WorkshopKept(workshopReq'[d], workshopReq[d], d, marks)
  BY <1>5, WorkshopOvertakes
<1>7. WorkshopTypeOK'
  BY <1>3, <1>4, <1>6 DEF WorkshopInv, WorkshopTypeOK, WorkshopRequests
<1>8. ASSUME NEW d \in Clients, d # c PROVE WorkshopRead(workshopReq'[d], maintenance', disposal')
  <2>1. PICK x, q : x = workshopReq'[d] /\ q = workshopReq[d]
    OBVIOUS
  <2>2. WorkshopKept(x, q, d, marks)
    BY <1>6, <1>8, <2>1
  <2>3. x.op = "release" => x = Idle \/ x.stale
    BY <1>1, <2>1, <2>2 DEF WorkshopKept
  <2>4. Idle.op # "release"
    BY WorkshopKinds
  <2>5. x.op = "dispose" /\ ~ x.stale => x = q \/ x = Idle
    BY <2>2 DEF WorkshopKept
  <2>6. QED
    BY <1>4, <2>1, <2>2, <2>3, <2>4, <2>5, WorkshopKinds DEF WorkshopKept, WorkshopRead
<1>9. \A d \in Clients : WorkshopRead(workshopReq'[d], maintenance', disposal')
  BY <1>3, <1>4, <1>6, <1>8
<1>10. \A d \in Clients \ {c} : workshopReq'[d].op = workshopReq[d].op /\ workshopReq'[d].row = workshopReq[d].row
  BY <1>6 DEF WorkshopKept
<1>11. MaintainedIsMarked'
  <2>1. CASE machine' = "under_maintenance"
    BY <2>1 DEF MaintainedIsMarked
  <2>2. CASE machine' # "under_maintenance"
    <3>1. /\ machine' = machine /\ next.op = "mark" /\ workshopReq[c] = Idle
          /\ \A m \in Maintenances : m # next.row => maintenance'[m] = maintenance[m]
      BY <1>3, <2>2
    <3>2. workshopReq[c].op # "mark"
      BY <3>1, WorkshopKinds
    <3>3. QED
      BY <1>4, <1>6, <1>10, <3>1, <3>2 DEF WorkshopInv, MaintainedIsMarked
  <2>3. QED
    BY <2>1, <2>2
<1>12. machine' # "none"
  BY <1>3
<1>13. QED
  BY <1>7, <1>9, <1>11, <1>12 DEF WorkshopInv

\* A maintenance ends, and a count that did not see it has to be repeated.
LEMMA EndMaintenanceStep ==
  ASSUME WorkshopInv, NEW c \in Clients, EndMaintenance(c) PROVE WorkshopInv'
<1>1. PICK q : q = workshopReq[c]
  OBVIOUS
<1>2. PICK r : r = [q EXCEPT !.op = "count"]
  OBVIOUS
<1>3. /\ q \in {Idle} \cup WorkshopRequests /\ WorkshopRead(q, maintenance, disposal)
      /\ maintenance \in [Maintenances -> {"none", "open", "closed"}]
      /\ workshopReq \in [Clients -> {Idle} \cup WorkshopRequests]
  BY <1>1, WorkshopTyped DEF WorkshopInv
<1>4. /\ q.op = "end" /\ maintenance' = [maintenance EXCEPT ![q.row] = "closed"]
      /\ workshopReq' = [workshopReq EXCEPT ![c] = r]
      /\ UNCHANGED <<machine, disposal, machineStale, scrapStale>>
  BY <1>1, <1>2, <1>3 DEF EndMaintenance
<1>5. q \in WorkshopRequests /\ q.row \in Maintenances
  BY <1>3, <1>4, WorkshopKinds DEF WorkshopRead
<1>6. r \in WorkshopRequests /\ r.op = "count" /\ r.row = q.row
  BY <1>2, <1>5 DEF WorkshopRequests
<1>7. /\ maintenance' \in [Maintenances -> {"none", "open", "closed"}]
      /\ \A m \in Maintenances : maintenance'[m] = "open" => maintenance[m] = "open"
      /\ workshopReq' \in [Clients -> {Idle} \cup WorkshopRequests]
      /\ workshopReq'[c] = r /\ \A d \in Clients : d # c => workshopReq'[d] = workshopReq[d]
  BY <1>3, <1>4, <1>5, <1>6
<1>8. WorkshopTypeOK'
  BY <1>4, <1>7 DEF WorkshopInv, WorkshopTypeOK, WorkshopRequests
<1>9. WorkshopRead(r, maintenance', disposal)
  BY <1>5, <1>6 DEF WorkshopRead
<1>10. ASSUME NEW d \in Clients, d # c PROVE WorkshopRead(workshopReq[d], maintenance', disposal)
  <2>1. WorkshopRead(workshopReq[d], maintenance, disposal)
    BY DEF WorkshopInv
  <2>2. QED
    BY <1>7, <2>1 DEF WorkshopRead
<1>11. \A d \in Clients : WorkshopRead(workshopReq'[d], maintenance', disposal')
  BY <1>4, <1>7, <1>9, <1>10
<1>12. MaintainedIsMarked'
  BY <1>1, <1>4, <1>7 DEF WorkshopInv, MaintainedIsMarked
<1>13. QED
  BY <1>4, <1>7, <1>8, <1>11, <1>12 DEF WorkshopInv

\* Scrap is authorised by one of the approvers.
LEMMA AuthorizeDisposalStep ==
  ASSUME WorkshopInv, NEW c \in Clients, AuthorizeDisposal(c) PROVE WorkshopInv'
<1>1. PICK q : q = workshopReq[c]
  OBVIOUS
<1>2. PICK s : s = q.row
  OBVIOUS
<1>3. PICK marks : marks = {d \in Clients : workshopReq[d].row = s}
  OBVIOUS
<1>4. PICK a \in Approvers : disposal' = [disposal EXCEPT ![s] = a]
  BY <1>1, <1>2 DEF AuthorizeDisposal
<1>5. /\ q.op = "dispose"
      /\ workshopReq' = Marked(workshopReq, c, Idle, marks)
      /\ scrapStale' = IF q.stale THEN scrapStale \cup {s} ELSE scrapStale
      /\ UNCHANGED <<machine, maintenance, machineStale>>
  BY <1>1, <1>2, <1>3 DEF AuthorizeDisposal, Overtake, Marked
<1>6. /\ workshopReq' \in [Clients -> {Idle} \cup WorkshopRequests] /\ workshopReq'[c] = Idle
      /\ \A d \in Clients \ {c} : WorkshopKept(workshopReq'[d], workshopReq[d], d, marks)
  <2>1. Idle \in {Idle} \cup WorkshopRequests
    OBVIOUS
  <2>2. QED
    BY <1>5, <2>1, WorkshopOvertakes
<1>7. /\ WorkshopRead(q, maintenance, disposal) /\ scrapStale \subseteq Scrap
      /\ disposal \in [Scrap -> Approvers \cup {"none", "waiting"}]
  BY <1>1, WorkshopTyped DEF WorkshopInv
<1>8. s \in Scrap
  BY <1>2, <1>5, <1>7 DEF WorkshopRead
<1>9. /\ disposal' \in [Scrap -> Approvers \cup {"none", "waiting"}] /\ scrapStale' \subseteq Scrap
      /\ \A x \in Scrap : x # s => disposal'[x] = disposal[x]
  BY <1>4, <1>5, <1>7, <1>8
<1>10. WorkshopTypeOK'
  BY <1>5, <1>6, <1>9 DEF WorkshopInv, WorkshopTypeOK, WorkshopRequests
<1>11. ASSUME NEW d \in Clients, d # c PROVE WorkshopRead(workshopReq'[d], maintenance', disposal')
  <2>1. PICK x, y : x = workshopReq'[d] /\ y = workshopReq[d]
    OBVIOUS
  <2>2. WorkshopKept(x, y, d, marks)
    BY <1>6, <1>11, <2>1
  <2>3. CASE x = Idle
    BY <2>1, <2>3, WorkshopIdle
  <2>4. CASE x.stale
    BY <2>1, <2>2, <2>4 DEF WorkshopKept, WorkshopRead
  <2>5. CASE d \notin marks /\ x = y
    <3>1. x.row # s
      BY <1>3, <2>1, <2>5
    <3>2. QED
      BY <1>5, <1>9, <2>1, <2>2, <2>5, <3>1 DEF WorkshopKept, WorkshopRead
  <2>6. QED
    BY <2>2, <2>3, <2>4, <2>5 DEF WorkshopKept
<1>12. \A d \in Clients : WorkshopRead(workshopReq'[d], maintenance', disposal')
  BY <1>6, <1>11, WorkshopIdle
<1>13. \A d \in Clients \ {c} : workshopReq'[d].op = workshopReq[d].op /\ workshopReq'[d].row = workshopReq[d].row
  BY <1>6 DEF WorkshopKept
<1>14. MaintainedIsMarked'
  BY <1>1, <1>5, <1>13 DEF WorkshopInv, MaintainedIsMarked
<1>15. QED
  BY <1>5, <1>10, <1>12, <1>14 DEF WorkshopInv

\* No machine, maintenance or scrap exists at the start.
LEMMA WorkshopStart == WorkshopInit => WorkshopInv
<1> SUFFICES ASSUME WorkshopInit PROVE WorkshopInv
  OBVIOUS
<1>1. WorkshopTypeOK /\ MaintainedIsMarked
  BY DEF WorkshopInit, WorkshopTypeOK, MaintainedIsMarked, MachineStatus
<1>2. \A c \in Clients : WorkshopRead(workshopReq[c], maintenance, disposal)
  BY WorkshopIdle DEF WorkshopInit
<1>3. QED
  BY <1>1, <1>2 DEF WorkshopInit, WorkshopInv

\* Every step of the workshop keeps the invariant.
LEMMA WorkshopStep == ASSUME WorkshopInv, [WorkshopNext]_workshopVars PROVE WorkshopInv'
<1>1. CASE CreateMachine \/ UpdateMachine \/ RecordScrap
  BY <1>1, WorkshopOwnStep
<1>2. ASSUME NEW c \in Clients,
             \/ AddMaintenance(c) \/ MarkMachine(c) \/ ReadMaintenance(c) \/ EndMaintenance(c) \/ CountOpen(c)
             \/ ReleaseMachine(c) \/ ReadScrap(c) \/ AuthorizeDisposal(c) \/ DropWorkshopRequest(c)
      PROVE  WorkshopInv'
  BY <1>2, WorkshopMarks, WorkshopRequestSteps, EndMaintenanceStep, AuthorizeDisposalStep
<1>3. CASE UNCHANGED workshopVars
  BY <1>3 DEF workshopVars, WorkshopInv, WorkshopTypeOK, MaintainedIsMarked
<1>4. QED
  BY <1>1, <1>2, <1>3 DEF WorkshopNext

\* An authorised disposal stays, whatever the step.
LEMMA DisposalStays ==
  ASSUME WorkshopInv, [WorkshopNext]_workshopVars, NEW s \in Scrap, s \notin scrapStale',
         disposal[s] \in Approvers
  PROVE  disposal'[s] = disposal[s]
<1>1. disposal \in [Scrap -> Approvers \cup {"none", "waiting"}] /\ disposal[s] \notin {"none", "waiting"}
  BY WorkshopTyped, WorkshopAssumption DEF WorkshopInv
<1>2. CASE disposal' = disposal
  BY <1>2
<1>3. CASE RecordScrap
  BY <1>1, <1>3 DEF RecordScrap
<1>4. ASSUME NEW c \in Clients, AuthorizeDisposal(c) PROVE disposal'[s] = disposal[s]
  <2>1. PICK q : q = workshopReq[c]
    OBVIOUS
  <2>2. /\ q.op = "dispose" /\ scrapStale' = IF q.stale THEN scrapStale \cup {q.row} ELSE scrapStale
        /\ \E a : disposal' = [disposal EXCEPT ![q.row] = a]
    BY <1>4, <2>1 DEF AuthorizeDisposal
  <2>3. WorkshopRead(q, maintenance, disposal)
    BY <2>1 DEF WorkshopInv
  <2>4. q.row # s
    BY <1>1, <2>2, <2>3 DEF WorkshopRead
  <2>5. QED
    BY <1>1, <2>2, <2>4
<1>5. ASSUME NEW c \in Clients,
             \/ AddMaintenance(c) \/ MarkMachine(c) \/ ReadMaintenance(c) \/ EndMaintenance(c) \/ CountOpen(c)
             \/ ReleaseMachine(c) \/ ReadScrap(c) \/ DropWorkshopRequest(c)
      PROVE  disposal' = disposal
  BY <1>5 DEF AddMaintenance, MarkMachine, ReadMaintenance, EndMaintenance, CountOpen, ReleaseMachine,
     ReadScrap, DropWorkshopRequest
<1>6. QED
  <2>1. CASE UNCHANGED workshopVars
    BY <2>1 DEF workshopVars
  <2>2. CASE WorkshopNext
    <3>1. CASE CreateMachine \/ UpdateMachine
      BY <3>1 DEF CreateMachine, UpdateMachine
    <3>2. QED
      BY <2>2, <3>1, <1>2, <1>3, <1>4, <1>5 DEF WorkshopNext
  <2>3. QED
    BY <2>1, <2>2

(***************************************************************************)
(* The documents together.                                                 *)
(***************************************************************************)

\* The invariants of all parts.
DocumentsInv ==
  /\ desk \in Desks
  /\ QuotationsInv
  /\ ComplaintsInv
  /\ PayablesInv
  /\ MasterDataInv
  /\ ReceivablesInv
  /\ AccountsInv
  /\ BankInv
  /\ LedgerInv
  /\ ProductionInv
  /\ BomsInv
  /\ WorkshopInv

\* A step of the documents is a step of each part, or leaves it alone.
PartSteps ==
  /\ desk' = desk
  /\ [QuotationsNext]_quotationVars
  /\ [ComplaintsNext]_complaintVars
  /\ [PayablesNext]_payableVars
  /\ [MasterDataNext]_masterVars
  /\ [ReceivablesNext]_arVars
  /\ [AccountsNext]_accountsVars
  /\ [BankNext]_bankVars
  /\ [LedgerNext]_ledgerVars
  /\ [ProductionNext]_productionVars
  /\ [BomsNext]_bomVars
  /\ [WorkshopNext]_workshopVars

\* Only one part moves.
LEMMA OnePartMoves == ASSUME [DocumentsNext]_documentsVars PROVE PartSteps
<1>1. CASE UNCHANGED documentsVars
  BY <1>1 DEF documentsVars, PartSteps
<1>2. CASE Only("quotations") /\ QuotationsNext
  BY ONLY <1>2 DEF Only, PartSteps
<1>3. CASE Only("complaints") /\ ComplaintsNext
  BY ONLY <1>3 DEF Only, PartSteps
<1>4. CASE Only("payables") /\ PayablesNext
  BY ONLY <1>4 DEF Only, PartSteps
<1>5. CASE Only("masterData") /\ MasterDataNext
  BY ONLY <1>5 DEF Only, PartSteps
<1>6. CASE Only("receivables") /\ ReceivablesNext
  BY ONLY <1>6 DEF Only, PartSteps
<1>7. CASE Only("accounts") /\ AccountsNext
  BY ONLY <1>7 DEF Only, PartSteps
<1>8. CASE Only("bankAccounts") /\ BankNext
  BY ONLY <1>8 DEF Only, PartSteps
<1>9. CASE Only("ledger") /\ LedgerNext
  BY ONLY <1>9 DEF Only, PartSteps
<1>10. CASE Only("production") /\ ProductionNext
  BY ONLY <1>10 DEF Only, PartSteps
<1>11. CASE Only("boms") /\ BomsNext
  BY ONLY <1>11 DEF Only, PartSteps
<1>12. CASE Only("workshop") /\ WorkshopNext
  BY ONLY <1>12 DEF Only, PartSteps
<1>13. QED
  BY <1>1, <1>2, <1>3, <1>4, <1>5, <1>6, <1>7, <1>8, <1>9, <1>10, <1>11, <1>12 DEF DocumentsNext

\* The invariants of the parts hold at the start.
LEMMA DocumentsStart == ASSUME DocumentsInit PROVE DocumentsInv
BY QuotationsStart, ComplaintsStart, PayablesStart, MasterDataStart, ReceivablesStart, AccountsStart,
   BankStart, LedgerStart, ProductionStart, BomsStart, WorkshopStart DEF DocumentsInit, DocumentsInv

\* And every step keeps them.
LEMMA DocumentsStep == ASSUME DocumentsInv, [DocumentsNext]_documentsVars PROVE DocumentsInv'
<1>1. PartSteps
  BY OnePartMoves
<1>2. desk' \in Desks
  BY <1>1 DEF PartSteps, DocumentsInv
<1>3. QuotationsInv' /\ ComplaintsInv' /\ PayablesInv' /\ MasterDataInv'
  BY <1>1, QuotationsStep, ComplaintsStep, PayablesStep, MasterDataStep DEF PartSteps, DocumentsInv
<1>4. ReceivablesInv' /\ AccountsInv' /\ BankInv' /\ LedgerInv'
  BY <1>1, ReceivablesStep, AccountsStep, BankStep, LedgerStep DEF PartSteps, DocumentsInv
<1>5. ProductionInv' /\ BomsInv' /\ WorkshopInv'
  BY <1>1, ProductionStep, BomsStep, WorkshopStep DEF PartSteps, DocumentsInv
<1>6. QED
  BY <1>2, <1>3, <1>4, <1>5 DEF DocumentsInv

\* In every state the documents can be in, each part is as its requests have read it.
THEOREM DocumentsInvAlways == DocumentsSpec => []DocumentsInv
<1>1. DocumentsInit => DocumentsInv
  BY DocumentsStart
<1>2. DocumentsInv /\ [DocumentsNext]_documentsVars => DocumentsInv'
  BY DocumentsStep
<1>3. QED
  BY <1>1, <1>2, PTL DEF DocumentsSpec

\* The tables and the requests of every part have their types.
THEOREM DocumentsTypeCorrect == DocumentsSpec => []DocumentsTypeOK
<1>1. DocumentsInv => DocumentsTypeOK
  <2>1. SUFFICES ASSUME DocumentsInv PROVE DocumentsTypeOK
    OBVIOUS
  <2>2. desk \in Desks /\ QuotationsTypeOK /\ ComplaintsTypeOK /\ MasterDataTypeOK /\ ReceivablesTypeOK
    BY <2>1 DEF DocumentsInv, QuotationsInv, ComplaintsInv, MasterDataInv, ReceivablesInv
  <2>3. PayablesTypeOK /\ BankTypeOK /\ LedgerTypeOK /\ ProductionTypeOK /\ BomsTypeOK
    BY <2>1, PayablesInvTyped, BankInvDebits, LedgerInvTyped, ProductionInvTyped, BomsInvTyped
       DEF DocumentsInv
  <2>4. AccountsTypeOK /\ WorkshopTypeOK
    BY <2>1 DEF DocumentsInv, AccountsInv, WorkshopInv
  <2>5. QED
    BY <2>2, <2>3, <2>4 DEF DocumentsTypeOK
<1>2. QED
  BY <1>1, DocumentsInvAlways, PTL

\* An order has one winning quotation, and a complaint whose actions are all done is
\* resolved, and the events of won quotations and resolved complaints say what the tables
\* say, unless a request decided by something it had seen before it changed.
THEOREM DecidedOnceSafe == DocumentsSpec => []DecidedOnce
<1>1. DocumentsInv => DecidedOnce
  BY DEF DocumentsInv, QuotationsInv, ComplaintsInv, DecidedOnce
<1>2. QED
  BY <1>1, DocumentsInvAlways, PTL

\* Payments, ratings, collections, the lines of a bank's file, daily production and the
\* prices of cost sheets add up in the rows that store their sums.
THEOREM MoneyAddsUpSafe == DocumentsSpec => []MoneyAddsUp
<1>1. DocumentsInv => MoneyAddsUp
  <2>1. SUFFICES ASSUME DocumentsInv PROVE MoneyAddsUp
    OBVIOUS
  <2>2. PaidIsSum /\ RatingIsAverage /\ DebitsStayDebits /\ ProducedIsDaily
    BY <2>1, PayablesInvTyped, BankInvDebits, ProductionInvTyped DEF DocumentsInv
  <2>3. CollectedIsSum /\ PriceFollowsCost
    BY <2>1 DEF DocumentsInv, ReceivablesInv, BomsInv
  <2>4. QED
    BY <2>2, <2>3 DEF MoneyAddsUp
<1>2. QED
  BY <1>1, DocumentsInvAlways, PTL

\* A delivery that was confirmed has its revenue posted, once and in full, unless its
\* request was interrupted or overtaken.
THEOREM DeliveredIsInvoicedSafe == DocumentsSpec => []DeliveredIsInvoiced
<1>1. DocumentsInv => DeliveredIsInvoiced
  BY ChallansInvoiced DEF DocumentsInv
<1>2. QED
  BY <1>1, DocumentsInvAlways, PTL

\* Documents keep the rows they refer to, removed rows stay removed, and no account is
\* above itself in the chart.
THEOREM MasterRowsHoldSafe == DocumentsSpec => []MasterRowsHold
<1>1. DocumentsInv => MasterRowsHold
  BY DEF DocumentsInv, MasterDataInv, AccountsInv, MasterRowsHold
<1>2. QED
  BY <1>1, DocumentsInvAlways, PTL

\* Quality control follows a final inspection that passed, production an approved BOM,
\* and a machine is released after its maintenance.
THEOREM ReleasedBeforeUseSafe == DocumentsSpec => []ReleasedBeforeUse
<1>1. DocumentsInv => ReleasedBeforeUse
  BY DEF DocumentsInv, ProductionInv, BomsInv, WorkshopInv, ReleasedBeforeUse
<1>2. QED
  BY <1>1, DocumentsInvAlways, PTL

\* The journals of a period that was closed or locked stay as they were, unless they are
\* written by a request that had checked the period before.
THEOREM ClosedBooksStandSafe == DocumentsSpec => []ClosedBooksStand
<1>1. DocumentsInv => ClosedBooksStand
  BY DEF DocumentsInv, LedgerInv
<1>2. QED
  BY <1>1, DocumentsInvAlways, PTL

\* What was locked, approved or authorised stays as it was: daily entries, the lines of
\* BOMs and the disposal of scrap, unless a request wrote by something it had seen before.
THEOREM ApprovedRecordsStandSafe == DocumentsSpec => ApprovedRecordsStand
<1> DEFINE Locked == \A e \in DailyRows : daily[e].locked => daily'[e] = daily[e]
           Approved == \A b \in BomRows :
                         bom[b].status = "approved" /\ b \notin bomStale' =>
                           /\ bom'[b].lines = bom[b].lines
                           /\ bom'[b].status \in {"approved", "superseded"}
           Disposed == \A s \in Scrap \ scrapStale' :
                         disposal[s] \in Approvers => disposal'[s] = disposal[s]
<1>1. DocumentsInv /\ [DocumentsNext]_documentsVars => Locked /\ Approved /\ Disposed
  <2>1. SUFFICES ASSUME DocumentsInv, [DocumentsNext]_documentsVars
                 PROVE  Locked /\ Approved /\ Disposed
    OBVIOUS
  <2>2. PartSteps /\ ProductionInv /\ BomsInv /\ WorkshopInv
    BY <2>1, OnePartMoves DEF DocumentsInv
  <2>3. Locked
    BY <2>2, LockedEntriesStay DEF PartSteps
  <2>4. Approved
    BY <2>2, ApprovedBomsStay DEF PartSteps
  <2>5. Disposed
    BY <2>2, DisposalStays DEF PartSteps
  <2>6. QED
    BY <2>3, <2>4, <2>5
<1> HIDE DEF Locked, Approved, Disposed
<1>2. DocumentsSpec => [][Locked]_productionVars /\ [][Approved]_bomVars /\ [][Disposed]_workshopVars
  BY <1>1, DocumentsInvAlways, PTL DEF DocumentsSpec
<1>3. QED
  BY <1>2 DEF ApprovedRecordsStand, LockedEntriesStand, ApprovedBomsStand, DisposalStands, Locked,
              Approved, Disposed
=============================================================================
