---- MODULE Provident ----
(***************************************************************************)
(* The provident fund account of an employee (PfService) and the lock      *)
(* under which the scheduler of each instance of the server credits the    *)
(* yearly interest (MonthlyScheduler).  Contributions and interest add to  *)
(* a balance that was read outside the transaction that stores it.         *)
(***************************************************************************)
EXTENDS Requests, SequencesExt

CONSTANTS
  BasicSalaries,   \* salaries contributions are made from
  ContributionPct, \* of the employee, and again of the employer
  InterestPct,     \* HR_PF_INTEREST_RATE_PCT
  MaxPfTxns        \* bound: transactions of the account

ASSUME ProvidentAssumption ==
  /\ BasicSalaries \subseteq Nat
  /\ {ContributionPct, InterestPct} \subseteq 0..100
  /\ MaxPfTxns \in Nat

VARIABLES
  pfAccount,    \* whether the employee is enrolled, and the balance
  pfTxns,       \* amounts of the transactions, oldest first, with the balance after each
  pfLock,       \* the instance that holds lock:hr:pf-interest
  pfReq,        \* the request of each client
  pfOvertaken,  \* a balance was stored over one its writer had not seen
  pfLockLost    \* a lock expired while its holder ran

pfVars == <<pfAccount, pfTxns, pfLock, pfReq, pfOvertaken, pfLockLost>>

ProvidentInit ==
  /\ pfAccount = [enrolled |-> FALSE, balance |-> 0]
  /\ pfTxns = <<>>
  /\ pfLock = NoRow
  /\ pfReq = [c \in Clients |-> Idle]
  /\ pfOvertaken = FALSE
  /\ pfLockLost = FALSE

\* Math.round of a percentage.
Percent(amount, pct) == (amount * pct + 50) \div 100

\* enroll is an upsert that changes nothing for who is enrolled.
EnrollPf ==
  /\ pfAccount' = [pfAccount EXCEPT !.enrolled = TRUE]
  /\ UNCHANGED <<pfTxns, pfLock, pfReq, pfOvertaken, pfLockLost>>

\* recordContribution reads the account.
ReadPfAccount(c) ==
  /\ pfReq[c] = Idle
  /\ pfAccount.enrolled
  /\ \E basic \in BasicSalaries :
       LET share == Percent(basic, ContributionPct)
       IN pfReq' = [pfReq EXCEPT ![c] =
            [op |-> "contribute", row |-> "account", balance |-> pfAccount.balance,
             credits |-> <<share, share>>, stale |-> FALSE]]
  /\ UNCHANGED <<pfAccount, pfTxns, pfLock, pfOvertaken, pfLockLost>>

\* Mutant: SET without NX.
LockFreeAlways(lock) == TRUE

\* SET NX
LockFree(lock) == lock = NoRow

\* creditPfInterest of an instance takes the lock; a second instance gives up.
TakePfLock(c) ==
  /\ pfReq[c] = Idle
  /\ LockFree(pfLock)
  /\ pfLock' = c
  /\ pfReq' = [pfReq EXCEPT ![c] = [op |-> "locked", row |-> "account", stale |-> FALSE]]
  /\ UNCHANGED <<pfAccount, pfTxns, pfOvertaken, pfLockLost>>

\* The lock's time to live ends: its holder does not notice.
ExpirePfLock ==
  /\ pfLock # NoRow
  /\ pfLock' = NoRow
  /\ pfLockLost' = (pfLockLost \/ pfReq[pfLock].op \in {"locked", "interest"})
  /\ UNCHANGED <<pfAccount, pfTxns, pfReq, pfOvertaken>>

\* annualInterestCredit reads the active accounts with a balance.
ReadPfAccounts(c) ==
  /\ pfReq[c].op = "locked"
  /\ LET interest == Percent(pfAccount.balance, InterestPct)
     IN /\ interest > 0
        /\ pfReq' = [pfReq EXCEPT ![c] =
             [op |-> "interest", row |-> "account", balance |-> pfAccount.balance,
              credits |-> <<interest>>, stale |-> FALSE]]
  /\ UNCHANGED <<pfAccount, pfTxns, pfLock, pfOvertaken, pfLockLost>>

\* What a request has seen of the balance and what it credits.
Credited(r) == r.balance + SumFunctionOnSet(r.credits, DOMAIN r.credits)

\* Mutant: the balance is what it was before the credit.
StoredBalanceOld(r) == r.balance

\* The balance that is stored.
StoredBalance(r) == Credited(r)

\* The transaction inserts the credits, each with the balance after all of them, and
\* stores that balance.  A run of the scheduler then deletes the lock, whoever holds it.
CommitCredits(c) ==
  /\ pfReq[c].op \in {"contribute", "interest"}
  /\ LET r == pfReq[c]
     IN /\ Len(pfTxns) + Len(r.credits) <= MaxPfTxns
        /\ pfTxns' = pfTxns \o [k \in 1..Len(r.credits) |->
             [amount |-> r.credits[k], after |-> Credited(r)]]
        /\ pfAccount' = [pfAccount EXCEPT !.balance = StoredBalance(r)]
        /\ pfLock' = IF r.op = "interest" THEN NoRow ELSE pfLock
        /\ pfReq' = Overtake(pfReq, c, Idle, LAMBDA d : pfReq[d].op \in {"contribute", "interest"})
        /\ pfOvertaken' = (pfOvertaken \/ r.stale)
  /\ UNCHANGED pfLockLost

\* A run ends without a credit, or a request fails: `finally` deletes the lock.
EndPfRequest(c) ==
  /\ pfReq[c] # Idle
  /\ pfReq' = [pfReq EXCEPT ![c] = Idle]
  /\ pfLock' = IF pfReq[c].op \in {"locked", "interest"} THEN NoRow ELSE pfLock
  /\ UNCHANGED <<pfAccount, pfTxns, pfOvertaken, pfLockLost>>

\* The process dies: the lock stays until it expires.
CrashPfRequest(c) ==
  /\ pfReq[c] # Idle
  /\ pfReq' = [pfReq EXCEPT ![c] = Idle]
  /\ UNCHANGED <<pfAccount, pfTxns, pfLock, pfOvertaken, pfLockLost>>

ProvidentNext ==
  \/ EnrollPf
  \/ ExpirePfLock
  \/ \E c \in Clients :
       \/ ReadPfAccount(c)
       \/ TakePfLock(c)
       \/ ReadPfAccounts(c)
       \/ CommitCredits(c)
       \/ EndPfRequest(c)
       \/ CrashPfRequest(c)

ProvidentSpec == ProvidentInit /\ [][ProvidentNext]_pfVars

ProvidentTypeOK ==
  /\ pfAccount \in [enrolled : BOOLEAN, balance : Nat]
  /\ pfTxns \in Seq([amount : Nat, after : Nat]) /\ Len(pfTxns) <= MaxPfTxns
  /\ pfLock \in Clients \cup {NoRow}
  /\ \A c \in Clients :
       pfReq[c] # Idle => pfReq[c].op \in {"contribute", "locked", "interest"}
  /\ {pfOvertaken, pfLockLost} \subseteq BOOLEAN

\* The balance is the sum of the account's transactions and is the balance after the
\* last one, unless two credits started from one balance (recordContribution,
\* annualInterestCredit).
BalanceIsCredits ==
  \/ pfOvertaken
  \/ /\ pfAccount.balance =
          SumFunctionOnSet([k \in DOMAIN pfTxns |-> pfTxns[k].amount], DOMAIN pfTxns)
     /\ pfTxns # <<>> => pfAccount.balance = pfTxns[Len(pfTxns)].after

\* Two instances credit interest at once only after a lock expired under its holder
\* (withLock).
InterestRunsAlone ==
  \A c, d \in Clients :
    c # d /\ {pfReq[c].op, pfReq[d].op} \subseteq {"locked", "interest"} => pfLockLost
====
