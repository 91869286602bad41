---- MODULE Jobs ----
(***************************************************************************)
(* The jobs every instance of the server starts and of which a lock in     *)
(* Redis lets one run: the nightly check of compliance items               *)
(* (ComplianceService), the lock of yesterday's production (DailyScheduler)*)
(* and the refresh of the stock summary (StockSummaryService).  A run      *)
(* deletes the lock at its end, whoever holds it then.                     *)
(***************************************************************************)
EXTENDS Requests, Integers

CONSTANTS
  StatementJobs,  \* jobs of one statement: daily, the lock of production; summary, the view
  Items,      \* rows of sys.compliance_items
  AlertDays,  \* choices of alert_days
  FarAway,    \* bound: days until an item expires
  MaxChanges  \* bound: changes of items by users

ASSUME JobsAssumption == AlertDays \subseteq Nat /\ FarAway \in Nat /\ MaxChanges \in Nat

JobNames == {"compliance"} \cup StatementJobs

VARIABLES
  scheduled,    \* the job the instances run: the jobs share no state, one of them is looked at
  lock,         \* the instance that holds the lock of each job
  itemStatus,   \* status of each item
  daysLeft,     \* days until each item expires, -1 once it has
  alertDays,    \* alert_days of each item
  responsible,  \* items with a responsible user
  changes,      \* changes of items by users so far
  runs,         \* what each instance runs
  marked,       \* items that a run has marked and nobody has changed since it read them
  mailed,       \* items it has sent a mail about, likewise
  mailedTwice,  \* items a second mail was sent about, likewise
  lockLost,     \* jobs whose lock expired while its holder ran
  disturbed     \* a compliance run stopped halfway or lost its lock

itemVars == <<itemStatus, daysLeft, alertDays, responsible, changes>>

jobVars == <<scheduled, lock, itemVars, runs, marked, mailed, mailedTwice, lockLost, disturbed>>

JobsInit ==
  /\ scheduled \in JobNames
  /\ lock = [j \in JobNames |-> NoRow]
  /\ itemStatus = [i \in Items |-> "none"]
  /\ daysLeft = [i \in Items |-> FarAway]
  /\ alertDays = [i \in Items |-> 0]
  /\ responsible = {}
  /\ changes = 0
  /\ runs = [c \in Clients |-> Idle]
  /\ marked = {}
  /\ mailed = {}
  /\ mailedTwice = {}
  /\ lockLost = {}
  /\ disturbed = FALSE

Expired(i) == daysLeft[i] < 0
Due(i) == daysLeft[i] <= alertDays[i]

\* The items that a run has read and not finished with.
Held(r) == r.expired \cup r.soon

\* An item gets a status, a date, alert_days and perhaps a responsible user.
ChangeItem(i, status, left, alert, user) ==
  /\ changes < MaxChanges
  /\ changes' = changes + 1
  /\ itemStatus' = [itemStatus EXCEPT ![i] = status]
  /\ daysLeft' = [daysLeft EXCEPT ![i] = left]
  /\ alertDays' = [alertDays EXCEPT ![i] = alert]
  /\ responsible' = IF user THEN responsible \cup {i} ELSE responsible \ {i}
  /\ marked' = marked \ {i}
  /\ mailed' = mailed \ {i}
  /\ mailedTwice' = mailedTwice \ {i}
  /\ runs' = [c \in Clients |->
       IF runs[c] # Idle /\ i \in Held(runs[c]) THEN [runs[c] EXCEPT !.stale = @ \cup {i}] ELSE runs[c]]
  /\ UNCHANGED <<lock, lockLost, disturbed>>

\* create: the status is the default of the table, the date any, past ones included.  A new
\* row has an id that no run has read.
CreateItem ==
  \E i \in Items, left \in -1..FarAway, alert \in AlertDays, user \in BOOLEAN :
    /\ itemStatus[i] = "none"
    /\ \A c \in Clients : runs[c] # Idle => i \notin Held(runs[c])
    /\ ChangeItem(i, "valid", left, alert, user)

\* update: status, date, alert_days and responsible user, each by itself.
UpdateItem ==
  \E i \in Items, status \in {"valid", "expiring_soon", "expired"}, left \in -1..FarAway,
     alert \in AlertDays, user \in BOOLEAN :
    /\ itemStatus[i] # "none"
    /\ <<status, left, alert, user>> # <<itemStatus[i], daysLeft[i], alertDays[i], i \in responsible>>
    /\ ChangeItem(i, status, left, alert, user)

\* delete
DeleteItem ==
  \E i \in Items :
    /\ itemStatus[i] # "none"
    /\ ChangeItem(i, "none", FarAway, 0, FALSE)

\* A day goes by.
PassDay ==
  /\ \E i \in Items : daysLeft[i] >= 0 /\ itemStatus[i] # "none"
  /\ daysLeft' = [i \in Items |->
       IF daysLeft[i] >= 0 /\ itemStatus[i] # "none" THEN daysLeft[i] - 1 ELSE daysLeft[i]]
  /\ UNCHANGED <<lock, itemStatus, alertDays, responsible, changes, runs, marked, mailed, mailedTwice, lockLost, disturbed>>

\* Mutant: SET without NX.
FreeAlways(j) == TRUE

\* SET NX
Free(j) == lock[j] = NoRow

\* An instance starts a job; one that does not get the lock gives up.
TakeLock(c) ==
  /\ runs[c] = Idle
  /\ Free(scheduled)
  /\ lock' = [lock EXCEPT ![scheduled] = c]
  /\ runs' = [runs EXCEPT ![c] =
       [op |-> IF scheduled = "compliance" THEN "read" ELSE "statement", job |-> scheduled,
        expired |-> {}, soon |-> {}, to |-> {}, stale |-> {}]]
  /\ lockLost' = IF \E d \in Clients : runs[d] # Idle /\ runs[d].job = scheduled
                 THEN lockLost ELSE lockLost \ {scheduled}
  /\ UNCHANGED <<itemVars, marked, mailed, mailedTwice, disturbed>>

\* Once a compliance run is disturbed, the history of mails says nothing.
Disturb(yes) ==
  /\ disturbed' = (disturbed \/ yes)
  /\ marked' = IF disturbed' THEN {} ELSE marked
  /\ mailed' = IF disturbed' THEN {} ELSE mailed
  /\ mailedTwice' = IF disturbed' THEN {} ELSE mailedTwice

\* What is recorded of mails and marks.
Recorded(items) == IF disturbed THEN {} ELSE items

\* The time to live of a lock ends: its holder does not notice.
ExpireLock ==
  /\ \E j \in JobNames :
       /\ lock[j] # NoRow
       /\ lock' = [lock EXCEPT ![j] = NoRow]
       /\ LET lost == runs[lock[j]] # Idle /\ runs[lock[j]].job = j
          IN /\ lockLost' = IF lost THEN lockLost \cup {j} ELSE lockLost
             /\ Disturb(lost /\ j = "compliance")
  /\ UNCHANGED <<itemVars, runs>>

\* finally: DEL, and the run is over.
Finish(c) ==
  /\ lock' = [lock EXCEPT ![runs[c].job] = NoRow]
  /\ runs' = [runs EXCEPT ![c] = Idle]

\* The one statement of the other two jobs: UPDATE of the entries (LockEntries of the module
\* Production), REFRESH of the view.
RunStatement(c) ==
  /\ runs[c].op = "statement"
  /\ Finish(c)
  /\ UNCHANGED <<itemVars, marked, mailed, mailedTwice, lockLost, disturbed>>

\* Mutant: items that were marked before are read again.
ReadsMarked(i) == itemStatus[i] # "none" /\ Due(i)

\* The query of nightlyCheck.  An item that is expiring_soon is not read again.
Reads(i) == itemStatus[i] = "valid" /\ Due(i)

ReadItems(c) ==
  /\ runs[c].op = "read"
  /\ LET items == {i \in Items : Reads(i)}
     IN /\ items # {}
        /\ runs' = [runs EXCEPT ![c].op = "mark",
                                ![c].expired = {i \in items : Expired(i)},
                                ![c].soon = {i \in items : ~Expired(i)},
                                ![c].to = items \cap responsible]
  /\ UNCHANGED <<lock, itemVars, marked, mailed, mailedTwice, lockLost, disturbed>>

\* The expired ones are marked first, then the others.
MarkItems(c) ==
  /\ runs[c].op = "mark"
  /\ LET r == runs[c]
         first == r.expired # {}
         ids == {i \in IF first THEN r.expired ELSE r.soon : itemStatus[i] # "none"}
     IN /\ itemStatus' = [i \in Items |->
             IF i \notin ids THEN itemStatus[i] ELSE IF first THEN "expired" ELSE "expiring_soon"]
        /\ marked' = Recorded(marked \cup (ids \ r.stale))
        /\ runs' = [runs EXCEPT ![c] =
             IF first /\ r.soon # {} THEN [r EXCEPT !.op = "marksoon"] ELSE [r EXCEPT !.op = "mail"]]
  /\ UNCHANGED <<lock, daysLeft, alertDays, responsible, changes, mailed, mailedTwice, lockLost, disturbed>>

MarkSoon(c) ==
  /\ runs[c].op = "marksoon"
  /\ LET r == runs[c]
         ids == {i \in r.soon : itemStatus[i] # "none"}
     IN /\ itemStatus' = [i \in Items |-> IF i \in ids THEN "expiring_soon" ELSE itemStatus[i]]
        /\ marked' = Recorded(marked \cup (ids \ r.stale))
        /\ runs' = [runs EXCEPT ![c].op = "mail"]
  /\ UNCHANGED <<lock, daysLeft, alertDays, responsible, changes, mailed, mailedTwice, lockLost, disturbed>>

\* Of the items, the expired ones first, one mail is queued about each that was read with a
\* responsible user; the run ends after the last.
MailItem(c) ==
  /\ runs[c].op = "mail"
  /\ LET r == runs[c]
     IN \E i \in IF r.expired # {} THEN r.expired ELSE r.soon :
          LET sent == {i} \cap (r.to \ r.stale)
          IN /\ mailed' = Recorded(mailed \cup sent)
             /\ mailedTwice' = Recorded(mailedTwice \cup (sent \cap mailed))
             /\ IF Held(r) = {i} THEN Finish(c)
                ELSE /\ runs' = [runs EXCEPT ![c].expired = @ \ {i}, ![c].soon = @ \ {i},
                                            ![c].to = @ \ {i}, ![c].stale = @ \ {i}]
                     /\ UNCHANGED lock
  /\ UNCHANGED <<itemVars, marked, lockLost, disturbed>>

\* A run finds nothing, or fails: the lock is deleted.
EndRun(c) ==
  /\ runs[c] # Idle
  /\ Disturb(runs[c].op \in {"mark", "marksoon", "mail"})
  /\ Finish(c)
  /\ UNCHANGED <<itemVars, lockLost>>

\* The process dies: the lock stays until it expires.
CrashRun(c) ==
  /\ runs[c] # Idle
  /\ Disturb(runs[c].op \in {"mark", "marksoon", "mail"})
  /\ runs' = [runs EXCEPT ![c] = Idle]
  /\ UNCHANGED <<lock, itemVars, lockLost>>

JobsNext ==
  /\ UNCHANGED scheduled
  /\ \/ CreateItem
     \/ UpdateItem
     \/ DeleteItem
     \/ PassDay
     \/ ExpireLock
     \/ \E c \in Clients :
          \/ TakeLock(c)
          \/ RunStatement(c)
          \/ ReadItems(c)
          \/ MarkItems(c)
          \/ MarkSoon(c)
          \/ MailItem(c)
          \/ EndRun(c)
          \/ CrashRun(c)

JobsSpec == JobsInit /\ [][JobsNext]_jobVars

JobRuns ==
  [op : {"read", "statement", "mark", "marksoon", "mail"}, job : JobNames,
   expired : SUBSET Items, soon : SUBSET Items, to : SUBSET Items, stale : SUBSET Items]

JobsTypeOK ==
  /\ scheduled \in JobNames
  /\ lock \in [JobNames -> Clients \cup {NoRow}]
  /\ itemStatus \in [Items -> {"none", "valid", "expiring_soon", "expired"}]
  /\ daysLeft \in [Items -> -1..FarAway]
  /\ runs \in [Clients -> {Idle} \cup JobRuns]
  /\ alertDays \in [Items -> AlertDays \cup {0}]
  /\ changes \in 0..MaxChanges
  /\ {responsible, marked, mailed, mailedTwice} \subseteq SUBSET Items
  /\ lockLost \subseteq JobNames
  /\ disturbed \in BOOLEAN

\* Two instances run one job at once only after its lock expired under the first
\* (nightlyCheck, lockDailyProductions, refresh).
JobsRunAlone ==
  \A c, d \in Clients :
    c # d /\ runs[c] # Idle /\ runs[d] # Idle /\ runs[c].job = runs[d].job
      => runs[c].job \in lockLost

\* What the check marks is due, and its responsible user gets the mail, once: as long as
\* nobody changes the item after it was read, and no run stopped halfway or lost its lock
\* (nightlyCheck).
MarkedIsMailed ==
  disturbed \/
  \A i \in Items :
    /\ i \in marked =>
         /\ itemStatus[i] \in {"expiring_soon", "expired"} /\ Due(i)
         /\ i \in responsible => i \in mailed \/ \E c \in Clients : runs[c] # Idle /\ i \in Held(runs[c])
    /\ i \in mailed => i \in responsible
    /\ i \notin mailedTwice
====
