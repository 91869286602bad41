---- MODULE Leave ----
(***************************************************************************)
(* Leave requests and balances of an employee: LeaveService.  A request is *)
(* approved by the manager and by HR, which takes its days from the        *)
(* balance of the year; a cancellation gives them back.  Days are counted  *)
(* in halves.                                                              *)
(***************************************************************************)
EXTENDS Requests, Integers, Functions

CONSTANTS
  LeaveRequests,       \* rows of hr.leave_requests of one employee and leave type
  LeaveDates,          \* the days of each, as a set
  HalfDay,             \* requests for half a day
  HalfDayAllowed,      \* what the leave type says
  MonthlyAccrual,      \* what accrueMonthly adds, in halves of a day
  CarryForwardLimit,
  MaxRuns,             \* bound: runs of accrueMonthly and of carryForward
  MaxDays              \* bound: days used, below and above zero

ASSUME LeaveAssumption ==
  /\ IsFiniteSet(LeaveRequests)
  /\ \A r \in LeaveRequests : LeaveDates[r] \in SUBSET Nat /\ IsFiniteSet(LeaveDates[r])
  /\ {MonthlyAccrual, CarryForwardLimit, MaxRuns, MaxDays} \subseteq Nat

VARIABLES
  leave,         \* status of each request
  balance,       \* opening, accrued and used of the year
  nextOpening,   \* the opening balance of the next year
  leaveReq,      \* the request of each client
  leaveRuns,     \* runs of accrueMonthly and of carryForward
  leaveDisturbed \* requests whose days were not taken or given back as their status says

leaveVars == <<leave, balance, nextOpening, leaveReq, leaveRuns, leaveDisturbed>>

LeaveStatus == {"none", "pending", "manager_approved", "hr_approved", "rejected", "cancelled"}
Closed == {"none", "rejected", "cancelled"}

\* computeTotalDays, in halves.
TotalDays(r) == IF r \in HalfDay THEN 1 ELSE 2 * Cardinality(LeaveDates[r])

Available == balance.opening + balance.accrued - balance.used

LeaveInit ==
  /\ leave = [r \in LeaveRequests |-> "none"]
  /\ balance = [opening |-> 0, accrued |-> 0, used |-> 0]
  /\ nextOpening = 0
  /\ leaveReq = [c \in Clients |-> Idle]
  /\ leaveRuns = [accrue |-> 0, carry |-> 0]
  /\ leaveDisturbed = {}

\* Cancellations that have given the days of a request back, and not yet cancelled it.
Returning(row) == {d \in Clients : leaveReq[d].op = "returned" /\ leaveReq[d].row = row}

StartLeaveRequest(c, op, row) ==
  /\ leaveReq[c] = Idle
  /\ leaveReq' = [leaveReq EXCEPT ![c] = [op |-> op, row |-> row, stale |-> Returning(row) # {}]]

\* Mutant: a range that begins on the last day of another does not overlap it.
OverlapsInside(r, q) == Cardinality(LeaveDates[r] \cap LeaveDates[q]) > 1

\* daterange(.., '[]') && daterange(.., '[]')
Overlaps(r, q) == LeaveDates[r] \cap LeaveDates[q] # {}

\* apply: no open request overlaps, and the balance is enough.  Requests that have
\* been made take nothing from the balance before HR has approved them.
CheckLeave(c) ==
  /\ \E r \in LeaveRequests :
       /\ leave[r] = "none"
       /\ \A d \in Clients : leaveReq[d].row # r
       /\ r \in HalfDay => HalfDayAllowed
       /\ \A q \in LeaveRequests : leave[q] \notin Closed => ~Overlaps(r, q)
       /\ Available >= TotalDays(r)
       /\ StartLeaveRequest(c, "apply", r)
  /\ UNCHANGED <<leave, balance, nextOpening, leaveRuns, leaveDisturbed>>

\* Request c sets the status of a request: others have read an old one, or have found
\* no overlap with it.
SetLeave(c, next, r, status) ==
  /\ leave' = [leave EXCEPT ![r] = status]
  /\ leaveReq' = Overtake(leaveReq, c, next,
       LAMBDA d : leaveReq[d].row = r \/ (leaveReq[d].op = "apply" /\ leaveReq[c].op = "apply"))

ApplyLeave(c) ==
  /\ leaveReq[c].op = "apply"
  /\ SetLeave(c, Idle, leaveReq[c].row, "pending")
  /\ leaveDisturbed' = IF Stale(leaveReq[c]) THEN leaveDisturbed \cup {leaveReq[c].row} ELSE leaveDisturbed
  /\ UNCHANGED <<balance, nextOpening, leaveRuns>>

\* approve and cancel read the request.
ReadLeave(c) ==
  /\ \E r \in LeaveRequests :
       /\ leave[r] # "none"
       /\ \/ leave[r] \notin Closed /\ StartLeaveRequest(c, "manager", r)
          \/ leave[r] \in {"pending", "manager_approved"} /\ StartLeaveRequest(c, "hr", r)
          \/ /\ StartLeaveRequest(c, IF leave[r] = "hr_approved" THEN "giveBack" ELSE "cancel", r)
  /\ UNCHANGED <<leave, balance, nextOpening, leaveRuns, leaveDisturbed>>

\* The manager's stage sets the status of any open request, one that HR has approved
\* included, whose days have been taken.
ApproveByManager(c) ==
  /\ leaveReq[c].op = "manager"
  /\ LET r == leaveReq[c].row
     IN /\ SetLeave(c, Idle, r, "manager_approved")
        /\ leaveDisturbed' = IF Stale(leaveReq[c]) \/ leave[r] = "hr_approved"
                             THEN leaveDisturbed \cup {r} ELSE leaveDisturbed
  /\ UNCHANGED <<balance, nextOpening, leaveRuns>>

\* The transaction of the HR stage takes the days and sets the status.
ApproveByHr(c) ==
  /\ leaveReq[c].op = "hr"
  /\ LET r == leaveReq[c].row
     IN /\ balance.used + TotalDays(r) <= MaxDays
        /\ balance' = [balance EXCEPT !.used = @ + TotalDays(r)]
        /\ SetLeave(c, Idle, r, "hr_approved")
        /\ leaveDisturbed' = IF Stale(leaveReq[c]) THEN leaveDisturbed \cup {r} ELSE leaveDisturbed
  /\ UNCHANGED <<nextOpening, leaveRuns>>

\* reject needs the request to exist, and gives no days back.
RejectLeave(c) ==
  /\ leaveReq[c] = Idle
  /\ \E r \in LeaveRequests :
       /\ leave[r] # "none"
       /\ SetLeave(c, Idle, r, "rejected")
       /\ leaveDisturbed' = IF leave[r] = "hr_approved" THEN leaveDisturbed \cup {r} ELSE leaveDisturbed
  /\ UNCHANGED <<balance, nextOpening, leaveRuns>>

\* Mutant: a cancellation gives nothing back.
GivenBackNothing(r) == 0

\* What the first write of a cancellation gives back.
GivenBack(r) == TotalDays(r)

\* cancel of a request HR had approved writes twice, in two commits.
GiveBackDays(c) ==
  /\ leaveReq[c].op = "giveBack"
  /\ balance.used > -MaxDays
  /\ balance' = [balance EXCEPT !.used = @ - GivenBack(leaveReq[c].row)]
  /\ leaveReq' = Overtake(leaveReq, c, [leaveReq[c] EXCEPT !.op = "returned"],
                          LAMBDA d : leaveReq[d].row = leaveReq[c].row)
  /\ leaveDisturbed' = IF Stale(leaveReq[c]) THEN leaveDisturbed \cup {leaveReq[c].row} ELSE leaveDisturbed
  /\ UNCHANGED <<leave, nextOpening, leaveRuns>>

CancelLeave(c) ==
  /\ leaveReq[c].op \in {"cancel", "returned"}
  /\ LET r == leaveReq[c].row
     IN /\ SetLeave(c, Idle, r, "cancelled")
        /\ leaveDisturbed' = IF Stale(leaveReq[c]) THEN leaveDisturbed \cup {r} ELSE leaveDisturbed
  /\ UNCHANGED <<balance, nextOpening, leaveRuns>>

\* accrueMonthly adds to the balance; nothing records the month.
AccrueMonthly ==
  /\ leaveRuns.accrue < MaxRuns
  /\ balance' = [balance EXCEPT !.accrued = @ + MonthlyAccrual]
  /\ leaveRuns' = [leaveRuns EXCEPT !.accrue = @ + 1]
  /\ UNCHANGED <<leave, nextOpening, leaveReq, leaveDisturbed>>

Least(a, b) == IF a < b THEN a ELSE b

\* Mutant: the limit of the leave type is not looked at.
CarriedOverAll(left) == left

\* Math.min
CarriedOver(left) == Least(left, CarryForwardLimit)

\* carryForward adds what is left, up to the limit, to the next year.
CarryForward ==
  /\ leaveRuns.carry < MaxRuns
  /\ Available > 0
  /\ nextOpening' = nextOpening + CarriedOver(Available)
  /\ leaveRuns' = [leaveRuns EXCEPT !.carry = @ + 1]
  /\ UNCHANGED <<leave, balance, leaveReq, leaveDisturbed>>

\* A request is refused, or its process dies: a cancellation may be half done.
DropLeaveRequest(c) ==
  /\ leaveReq[c] # Idle
  /\ leaveReq' = [leaveReq EXCEPT ![c] = Idle]
  /\ leaveDisturbed' = IF leaveReq[c].op = "returned" THEN leaveDisturbed \cup {leaveReq[c].row}
                       ELSE leaveDisturbed
  /\ UNCHANGED <<leave, balance, nextOpening, leaveRuns>>

LeaveNext ==
  \/ AccrueMonthly
  \/ CarryForward
  \/ \E c \in Clients :
       \/ CheckLeave(c)
       \/ ApplyLeave(c)
       \/ ReadLeave(c)
       \/ ApproveByManager(c)
       \/ ApproveByHr(c)
       \/ RejectLeave(c)
       \/ GiveBackDays(c)
       \/ CancelLeave(c)
       \/ DropLeaveRequest(c)

LeaveSpec == LeaveInit /\ [][LeaveNext]_leaveVars

LeaveTypeOK ==
  /\ leave \in [LeaveRequests -> LeaveStatus]
  /\ balance \in [opening : Nat, accrued : Nat, used : Int]
  /\ nextOpening \in 0..(CarryForwardLimit * leaveRuns.carry)
  /\ leaveReq \in [Clients -> {Idle} \cup
       [op : {"apply", "manager", "hr", "giveBack", "returned", "cancel"}, row : LeaveRequests, stale : BOOLEAN]]
  /\ leaveRuns \in [accrue : 0..MaxRuns, carry : 0..MaxRuns]
  /\ leaveDisturbed \subseteq LeaveRequests

\* The days used are those of the requests HR has approved, unless a request was sent
\* back or rejected after that, a cancellation stopped halfway, or two requests wrote
\* over each other (leave.service.ts, approve, reject, cancel).
UsedIsApproved ==
  leaveDisturbed = {} =>
    LET taken == {r \in LeaveRequests : leave[r] = "hr_approved" /\ Returning(r) = {}}
    IN balance.used = SumFunctionOnSet([r \in LeaveRequests |-> TotalDays(r)], taken)

\* Open requests of an employee do not overlap, unless two applications looked for an
\* overlap before either was stored, or a request was reopened by a decision on an
\* old status (apply).
LeavesDoNotOverlap ==
  \A r, q \in LeaveRequests :
    /\ r # q
    /\ {leave[r], leave[q]} \cap Closed = {}
    /\ LeaveDates[r] \cap LeaveDates[q] # {}
    => {r, q} \cap leaveDisturbed # {}
====
