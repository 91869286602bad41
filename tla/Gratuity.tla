---- MODULE Gratuity ----
(***************************************************************************)
(* The gratuity provision of an employee: GratuityService.accrueMonth,     *)
(* which the scheduler and the controller start.  A run compares what the  *)
(* employee is entitled to with the latest provision, stores a provision   *)
(* for the date, posts the charge to the general ledger and links the      *)
(* journal, in separate commits; a failure of the posting is only logged.  *)
(***************************************************************************)
EXTENDS Requests, Functions

CONSTANTS
  AsOfDates,     \* dates of runs
  Entitlements,  \* what hr.compute_gratuity may return at each date
  MaxCharged     \* bound: charges posted for a date

ASSUME GratuityAssumption ==
  /\ AsOfDates \subseteq Nat \ {0} /\ IsFiniteSet(AsOfDates)
  /\ Entitlements \in [AsOfDates -> SUBSET Nat]
  /\ MaxCharged \in Nat

VARIABLES
  provision,       \* the provision of each date
  gratuityPosted,  \* what journals of each date's provision have charged
  gratuityPeriod,  \* whether the period is open and the accounts 5200 and 2200 active
  gratuityReq,     \* the request of each client
  gratuityHistory  \* the highest entitlement stored, and whether the order of runs was disturbed

gratuityVars == <<provision, gratuityPosted, gratuityPeriod, gratuityReq, gratuityHistory>>

NoProvision == [stored |-> FALSE, cumulative |-> 0, charge |-> 0, linked |-> FALSE]

GratuityInit ==
  /\ provision = [d \in AsOfDates |-> NoProvision]
  /\ gratuityPosted = [d \in AsOfDates |-> 0]
  /\ gratuityPeriod = TRUE
  /\ gratuityReq = [c \in Clients |-> Idle]
  /\ gratuityHistory = [highest |-> 0, disturbed |-> FALSE]

\* Mutant: only provisions of earlier dates count.
PreviousEarlier(date) == {d \in AsOfDates : provision[d].stored /\ d < date}

\* Provisions a run on a date looks at: all of them.
Previous(date) == {d \in AsOfDates : provision[d].stored}

PreviousCumulative(date) ==
  IF Previous(date) = {} THEN 0 ELSE provision[Max(Previous(date))].cumulative

\* computeEntitlement and the latest provision, by date.
ReadProvision(c) ==
  /\ gratuityReq[c] = Idle
  /\ \E date \in AsOfDates :
       \E cumulative \in Entitlements[date] :
         LET charge == Max({cumulative - PreviousCumulative(date), 0})
         IN gratuityReq' = [gratuityReq EXCEPT ![c] =
              [op |-> "store", row |-> date, cumulative |-> cumulative, charge |-> charge,
               stale |-> FALSE]]
  /\ UNCHANGED <<provision, gratuityPosted, gratuityPeriod, gratuityHistory>>

\* What undoes the comparison with the latest provision: another run came between, the
\* entitlement fell, or it is more than the provision of a later date.
Disturbing(r) ==
  \/ r.stale
  \/ r.cumulative < gratuityHistory.highest
  \/ \E d \in AsOfDates : d > r.row /\ provision[d].stored /\ provision[d].cumulative < r.cumulative

\* The upsert: a second run on a date replaces the charge of the first.
StoreProvision(c) ==
  /\ gratuityReq[c].op = "store"
  /\ LET r == gratuityReq[c]
         next == IF r.charge > 0 THEN [r EXCEPT !.op = "post"] ELSE Idle
     IN /\ provision' = [provision EXCEPT ![r.row] =
             [@ EXCEPT !.stored = TRUE, !.cumulative = r.cumulative, !.charge = r.charge]]
        /\ gratuityReq' = Overtake(gratuityReq, c, next, LAMBDA d : gratuityReq[d].op = "store")
        /\ gratuityHistory' =
             [highest |-> Max({gratuityHistory.highest, r.cumulative}),
              disturbed |-> gratuityHistory.disturbed \/ Disturbing(r)]
  /\ UNCHANGED <<gratuityPosted, gratuityPeriod>>

\* postGlEntry posts when the accounts and an open period are found.
PostProvision(c) ==
  /\ gratuityReq[c].op = "post"
  /\ gratuityPeriod
  /\ gratuityPosted[gratuityReq[c].row] + gratuityReq[c].charge <= MaxCharged
  /\ gratuityPosted' = [gratuityPosted EXCEPT ![gratuityReq[c].row] = @ + gratuityReq[c].charge]
  /\ gratuityReq' = [gratuityReq EXCEPT ![c].op = "link"]
  /\ UNCHANGED <<provision, gratuityPeriod, gratuityHistory>>

\* Otherwise the error is logged and the charge is never posted; so it is when the
\* server dies.
SkipPosting(c) ==
  /\ gratuityReq[c] # Idle
  /\ gratuityReq' = [gratuityReq EXCEPT ![c] = Idle]
  /\ UNCHANGED <<provision, gratuityPosted, gratuityPeriod, gratuityHistory>>

\* The provision is given its journal.
LinkJournal(c) ==
  /\ gratuityReq[c].op = "link"
  /\ provision' = [provision EXCEPT ![gratuityReq[c].row].linked = TRUE]
  /\ gratuityReq' = [gratuityReq EXCEPT ![c] = Idle]
  /\ UNCHANGED <<gratuityPosted, gratuityPeriod, gratuityHistory>>

\* The period is closed or opened, an account deactivated or activated.
ChangeGratuityPeriod ==
  /\ gratuityPeriod' = ~gratuityPeriod
  /\ UNCHANGED <<provision, gratuityPosted, gratuityReq, gratuityHistory>>

GratuityNext ==
  \/ ChangeGratuityPeriod
  \/ \E c \in Clients :
       \/ ReadProvision(c)
       \/ StoreProvision(c)
       \/ PostProvision(c)
       \/ SkipPosting(c)
       \/ LinkJournal(c)

GratuitySpec == GratuityInit /\ [][GratuityNext]_gratuityVars

GratuityTypeOK ==
  /\ provision \in [AsOfDates -> [stored : BOOLEAN, cumulative : Nat, charge : Nat, linked : BOOLEAN]]
  /\ gratuityPosted \in [AsOfDates -> Nat]
  /\ gratuityPeriod \in BOOLEAN
  /\ gratuityReq \in [Clients -> {Idle} \cup
       [op : {"store", "post", "link"}, row : AsOfDates, cumulative : Nat, charge : Nat, stale : BOOLEAN]]
  /\ gratuityHistory \in [highest : Nat, disturbed : BOOLEAN]

\* Whatever the order of the runs and their dates, the ledger is charged no more than
\* the employee was ever entitled to, a second run on a date included, unless two runs
\* overlapped, the entitlement fell, or a run was dated back to before a provision that is
\* lower: repeated, it is compared with that one and charges the difference again
\* (accrueMonth).
ChargedOnce ==
  \/ gratuityHistory.disturbed
  \/ SumFunctionOnSet(gratuityPosted, AsOfDates) <= gratuityHistory.highest
====
