--------------------------- MODULE PlatformProofs ---------------------------
(***************************************************************************)
(* What is proved of the records of the staff, the accounts of the users and *)
(* what every call passes through, in the way of TradeProofs: each part has an *)
(* inductive invariant, and a step of one part leaves the others alone, so *)
(* that the invariants of the parts together are inductive for the whole.  *)
(***************************************************************************)
EXTENDS Platform, Sums, TLAPS

(*************************************************************************)
(* Leave.                                                                *)
(* Requests read the status of their row and the balance is incremented in *)
(* place, so that the days taken are those of the approved leaves.       *)
(*************************************************************************)

LeaveCalls ==
  [op : {"apply", "manager", "hr", "giveBack", "returned", "cancel"}, row : LeaveRequests, stale : BOOLEAN]

\* What a request that has not been overtaken knows of the row it decides on.
LeaveKnows(q) ==
  q # Idle /\ ~ q.stale =>
    /\ q.op = "apply" =>
         /\ leave[q.row] = "none"
         /\ \A p \in LeaveRequests :
              leave[p] \notin Closed /\ Overlaps(q.row, p) => p \in leaveDisturbed
    /\ q.op = "manager" => leave[q.row] \notin Closed
    /\ q.op = "hr" => leave[q.row] \in {"pending", "manager_approved"}
    /\ q.op \in {"giveBack", "returned"} => leave[q.row] = "hr_approved"
    /\ q.op = "cancel" => leave[q.row] # "hr_approved"

\* Days given back are not given back or taken again by who has not seen it.
ReturnsAlone ==
  \A c, d \in Clients :
    c # d /\ leaveReq[c].op = "returned" /\ leaveReq[d] # Idle /\ leaveReq[d].row = leaveReq[c].row
      => leaveReq[d].stale

\* Nothing is decided on a row while its days are being given back.
ReturnsLast == leaveDisturbed = {} => \A c \in Clients : leaveReq[c].op = "returned" => ~ leaveReq[c].stale

LeaveInv ==
  /\ LeaveTypeOK
  /\ \A c \in Clients : LeaveKnows(leaveReq[c])
  /\ ReturnsAlone
  /\ ReturnsLast
  /\ LeavesDoNotOverlap
  /\ UsedIsApproved

\* The types, with the set of requests named.
LEMMA LeaveTyped ==
  LeaveTypeOK <=>
    /\ leave \in [LeaveRequests -> LeaveStatus]
    /\ balance \in [opening : Nat, accrued : Nat, used : Int]
    /\ nextOpening \in 0..(CarryForwardLimit * leaveRuns.carry)
    /\ leaveReq \in [Clients -> {Idle} \cup LeaveCalls]
    /\ leaveRuns \in [accrue : 0..MaxRuns, carry : 0..MaxRuns]
    /\ leaveDisturbed \subseteq LeaveRequests
BY DEF LeaveTypeOK, LeaveCalls

\* The days of the requests, and those that were taken and not given back.
Days == [r \in LeaveRequests |-> TotalDays(r)]
TakenDays == {r \in LeaveRequests : leave[r] = "hr_approved" /\ Returning(r) = {}}

\* A request takes a natural number of halves of a day.
LEMMA DaysNat == \A r \in LeaveRequests : Days[r] \in Nat /\ TotalDays(r) \in Nat /\ Days[r] = TotalDays(r)
<1> SUFFICES ASSUME NEW r \in LeaveRequests PROVE TotalDays(r) \in Nat /\ Days[r] = TotalDays(r)
  OBVIOUS
<1>1. Cardinality(LeaveDates[r]) \in Nat
  BY LeaveAssumption, FS_CardinalityType
<1>2. TotalDays(r) \in Nat
  BY <1>1 DEF TotalDays
<1>3. QED
  BY <1>2 DEF Days

\* There are finitely many to add up.
LEMMA TakenFinite == IsFiniteSet(TakenDays) /\ TakenDays \subseteq LeaveRequests
<1>1. TakenDays \subseteq LeaveRequests
  BY DEF TakenDays
<1>2. QED
  BY <1>1, LeaveAssumption, FS_Subset

\* What is checked of the days, in these terms.
LEMMA UsedSum == UsedIsApproved <=> (leaveDisturbed = {} => balance.used = SumFunctionOnSet(Days, TakenDays))
BY DEF UsedIsApproved, Days, TakenDays

\* Nobody has asked for leave at the start.
LEMMA LeaveStart == ASSUME LeaveInit PROVE LeaveInv
<1> USE LeaveAssumption DEF LeaveInit
<1>1. LeaveTypeOK
  <2>1. CarryForwardLimit * 0 = 0
    OBVIOUS
  <2>2. QED
    BY <2>1 DEF LeaveTypeOK, LeaveStatus
<1>2. \A c \in Clients : leaveReq[c] = Idle
  OBVIOUS
<1>3. \A c \in Clients : LeaveKnows(leaveReq[c])
  BY <1>2 DEF LeaveKnows
<1>4. ReturnsAlone /\ ReturnsLast
  BY <1>2 DEF ReturnsAlone, ReturnsLast, Idle
<1>5. LeavesDoNotOverlap
  BY DEF LeavesDoNotOverlap, Closed
<1>6. UsedIsApproved
  <2>1. TakenDays = {}
    BY DEF TakenDays
  <2>2. \A x \in {} : Days[x] \in Int
    OBVIOUS
  <2>3. SumFunctionOnSet(Days, {}) = 0
    BY <2>2, SumType, FS_EmptySet
  <2>4. QED
    BY <2>1, <2>3, UsedSum
<1>7. QED
  BY <1>1, <1>3, <1>4, <1>5, <1>6 DEF LeaveInv

\* The requests after one has written and left: the others on its row have been overtaken,
\* and of two that apply the other.
LEMMA LeaveOvertakes ==
  ASSUME LeaveInv, NEW c \in Clients, NEW r, NEW status,
         SetLeave(c, Idle, r, status)
  PROVE  /\ leaveReq' \in [Clients -> {Idle} \cup LeaveCalls]
         /\ leaveReq'[c] = Idle
         /\ \A d \in Clients : d # c =>
              /\ (leaveReq'[d] # Idle <=> leaveReq[d] # Idle)
              /\ leaveReq'[d].op = leaveReq[d].op /\ leaveReq'[d].row = leaveReq[d].row
              /\ IF leaveReq[d] # Idle /\ (leaveReq[d].row = r \/ (leaveReq[d].op = "apply" /\ leaveReq[c].op = "apply"))
                 THEN leaveReq'[d].stale ELSE leaveReq'[d] = leaveReq[d]
<1>0. leaveReq \in [Clients -> {Idle} \cup LeaveCalls]
  BY LeaveTyped DEF LeaveInv
<1>1. \A d \in Clients :
        leaveReq'[d] = IF d = c THEN Idle
          ELSE IF leaveReq[d] # Idle /\ (leaveReq[d].row = r \/ (leaveReq[d].op = "apply" /\ leaveReq[c].op = "apply"))
               THEN [leaveReq[d] EXCEPT !.stale = TRUE] ELSE leaveReq[d]
  BY DEF SetLeave, Overtake
<1>2. ASSUME NEW d \in Clients, d # c
      PROVE  /\ leaveReq'[d] \in {Idle} \cup LeaveCalls
             /\ (leaveReq'[d] # Idle <=> leaveReq[d] # Idle)
             /\ leaveReq'[d].op = leaveReq[d].op /\ leaveReq'[d].row = leaveReq[d].row
             /\ IF leaveReq[d] # Idle /\ (leaveReq[d].row = r \/ (leaveReq[d].op = "apply" /\ leaveReq[c].op = "apply"))
                THEN leaveReq'[d].stale ELSE leaveReq'[d] = leaveReq[d]
  <2>1. PICK q \in {Idle} \cup LeaveCalls : q = leaveReq[d]
    BY <1>0
  <2>2. CASE q # Idle /\ (q.row = r \/ (q.op = "apply" /\ leaveReq[c].op = "apply"))
    <3>1. PICK p : p = [q EXCEPT !.stale = TRUE]
      OBVIOUS
    <3>2. p \in LeaveCalls /\ p.op = q.op /\ p.row = q.row /\ p.stale
      BY <2>1, <2>2, <3>1 DEF LeaveCalls
    <3>3. p # Idle
      BY <3>2 DEF LeaveCalls, Idle
    <3>4. leaveReq'[d] = p
      BY <1>1, <1>2, <2>1, <2>2, <3>1
    <3>5. QED
      BY <2>1, <2>2, <3>2, <3>3, <3>4
  <2>3. CASE ~ (q # Idle /\ (q.row = r \/ (q.op = "apply" /\ leaveReq[c].op = "apply")))
    BY <1>1, <1>2, <2>1, <2>3
  <2>4. QED
    BY <2>2, <2>3
<1>3. leaveReq'[c] = Idle
  BY <1>1
<1>4. leaveReq' = [d \in Clients |-> leaveReq'[d]]
  BY DEF SetLeave, Overtake
<1>5. QED
  BY <1>2, <1>3, <1>4

\* A request sets the status of a row and leaves: everything but the days is kept, when a
\* row that is opened again counts as disturbed, one that is applied for overlaps no other,
\* and no days of it are being given back.
LEMMA StatusSet ==
  ASSUME LeaveInv, NEW c \in Clients, NEW r \in LeaveRequests, NEW status \in LeaveStatus,
         SetLeave(c, Idle, r, status),
         leaveDisturbed \subseteq leaveDisturbed', leaveDisturbed' \subseteq LeaveRequests,
         leave[r] \in Closed /\ status \notin Closed => r \in leaveDisturbed' \/ leaveReq[c].op = "apply",
         leaveReq[c].op = "apply" =>
           \A p \in LeaveRequests :
             leave[p] \notin Closed /\ Overlaps(r, p) => r \in leaveDisturbed' \/ p \in leaveDisturbed',
         leaveDisturbed' = {} =>
           \A d \in Clients : d # c /\ leaveReq[d].op = "returned" => leaveReq[d].row # r,
         balance' \in [opening : Nat, accrued : Nat, used : Int],
         UNCHANGED <<nextOpening, leaveRuns>>
  PROVE  /\ LeaveTypeOK'
         /\ \A d \in Clients : LeaveKnows(leaveReq[d])'
         /\ ReturnsAlone'
         /\ ReturnsLast'
         /\ LeavesDoNotOverlap'
<1>0. leave \in [LeaveRequests -> LeaveStatus] /\ leaveReq \in [Clients -> {Idle} \cup LeaveCalls]
  BY LeaveTyped DEF LeaveInv
<1>1. /\ leave' \in [LeaveRequests -> LeaveStatus] /\ leave'[r] = status
      /\ \A p \in LeaveRequests : p # r => leave'[p] = leave[p]
  BY <1>0 DEF SetLeave
<1>2. /\ leaveReq' \in [Clients -> {Idle} \cup LeaveCalls]
      /\ leaveReq'[c] = Idle
      /\ \A d \in Clients : d # c =>
           /\ (leaveReq'[d] # Idle <=> leaveReq[d] # Idle)
           /\ leaveReq'[d].op = leaveReq[d].op /\ leaveReq'[d].row = leaveReq[d].row
           /\ IF leaveReq[d] # Idle /\ (leaveReq[d].row = r \/ (leaveReq[d].op = "apply" /\ leaveReq[c].op = "apply"))
              THEN leaveReq'[d].stale ELSE leaveReq'[d] = leaveReq[d]
  BY LeaveOvertakes
<1>3. LeaveTypeOK'
  BY <1>1, <1>2, LeaveTyped DEF LeaveInv, LeaveTypeOK, LeaveCalls
<1>4. ASSUME NEW d \in Clients PROVE LeaveKnows(leaveReq[d])'
  <2>1. CASE d = c
    BY <1>2, <2>1 DEF LeaveKnows
  <2>2. CASE d # c
    <3>1. SUFFICES ASSUME leaveReq'[d] # Idle, ~ leaveReq'[d].stale PROVE LeaveKnows(leaveReq[d])'
      BY DEF LeaveKnows
    <3>2. PICK q : q = leaveReq[d]
      OBVIOUS
    <3>3. /\ q # Idle /\ leaveReq'[d] = q /\ ~ q.stale /\ q.row # r
          /\ ~ (q.op = "apply" /\ leaveReq[c].op = "apply")
      BY <1>2, <2>2, <3>1, <3>2
    <3>4. q \in LeaveCalls /\ LeaveKnows(q)
      BY <1>0, <3>2, <3>3 DEF LeaveInv
    <3>5. q.row \in LeaveRequests /\ leave'[q.row] = leave[q.row]
      BY <1>1, <3>3, <3>4 DEF LeaveCalls
    <3>6. ASSUME q.op = "apply", NEW p \in LeaveRequests, leave'[p] \notin Closed, Overlaps(q.row, p)
          PROVE  p \in leaveDisturbed'
      <4>1. CASE leave[p] \notin Closed
        BY <3>3, <3>4, <3>6, <4>1 DEF LeaveKnows
      <4>2. CASE leave[p] \in Closed
        BY <1>1, <3>3, <3>6, <4>2
      <4>3. QED
        BY <4>1, <4>2
    <3>7. QED
      BY <3>3, <3>4, <3>5, <3>6 DEF LeaveKnows, Overlaps
  <2>3. QED
    BY <2>1, <2>2
<1>5. ReturnsAlone'
  <2>1. SUFFICES ASSUME NEW b \in Clients, NEW d \in Clients, b # d, leaveReq'[b].op = "returned",
                        leaveReq'[d] # Idle, leaveReq'[d].row = leaveReq'[b].row
                 PROVE  leaveReq'[d].stale
    BY DEF ReturnsAlone
  <2>2. b # c /\ d # c
    BY <1>2, <2>1 DEF Idle
  <2>3. leaveReq[d].stale
    BY <1>2, <2>1, <2>2 DEF LeaveInv, ReturnsAlone
  <2>4. QED
    BY <1>2, <2>2, <2>3
<1>6. ReturnsLast'
  <2>1. SUFFICES ASSUME leaveDisturbed' = {}, NEW d \in Clients, leaveReq'[d].op = "returned"
                 PROVE  ~ leaveReq'[d].stale
    BY DEF ReturnsLast
  <2>2. d # c
    BY <1>2, <2>1 DEF Idle
  <2>3. leaveReq[d].op = "returned" /\ ~ leaveReq[d].stale /\ leaveReq[d].row # r
    BY <1>2, <2>1, <2>2 DEF LeaveInv, ReturnsLast
  <2>4. QED
    BY <1>2, <2>2, <2>3
<1>7. LeavesDoNotOverlap'
  <2>1. SUFFICES ASSUME NEW p \in LeaveRequests, NEW q \in LeaveRequests, p # q,
                        leave'[p] \notin Closed, leave'[q] \notin Closed,
                        LeaveDates[p] \cap LeaveDates[q] # {}
                 PROVE  p \in leaveDisturbed' \/ q \in leaveDisturbed'
    BY DEF LeavesDoNotOverlap
  <2>2. CASE leave[p] \notin Closed /\ leave[q] \notin Closed
    BY <2>1, <2>2 DEF LeaveInv, LeavesDoNotOverlap
  <2>3. ASSUME NEW s \in LeaveRequests, NEW t \in LeaveRequests, s # t, leave[s] \in Closed,
               leave'[s] \notin Closed, leave'[t] \notin Closed, LeaveDates[s] \cap LeaveDates[t] # {}
        PROVE  s \in leaveDisturbed' \/ t \in leaveDisturbed'
    <3>1. s = r /\ leave'[t] = leave[t] /\ Overlaps(s, t)
      BY <1>1, <2>3 DEF Overlaps
    <3>2. QED
      BY <1>1, <2>3, <3>1
  <2>4. LeaveDates[q] \cap LeaveDates[p] = LeaveDates[p] \cap LeaveDates[q]
    OBVIOUS
  <2>5. QED
    BY <2>1, <2>2, <2>3, <2>4
<1>8. QED
  BY <1>3, <1>4, <1>5, <1>6, <1>7

\* The rows whose days count are as before when a status that does not count is set where
\* none counted.
LEMMA TakenStays ==
  ASSUME LeaveInv, NEW c \in Clients, NEW r \in LeaveRequests, NEW status,
         SetLeave(c, Idle, r, status), status # "hr_approved",
         leaveReq[c] # Idle => leaveReq[c].row = r,
         r \notin TakenDays
  PROVE  TakenDays' = TakenDays
<1>0. leave \in [LeaveRequests -> LeaveStatus]
  BY LeaveTyped DEF LeaveInv
<1>1. leave'[r] = status /\ \A p \in LeaveRequests : p # r => leave'[p] = leave[p]
  BY <1>0 DEF SetLeave
<1>2. /\ leaveReq'[c] = Idle
      /\ \A d \in Clients : d # c => leaveReq'[d].op = leaveReq[d].op /\ leaveReq'[d].row = leaveReq[d].row
  BY LeaveOvertakes
<1>3. ASSUME NEW p \in LeaveRequests, p # r PROVE Returning(p)' = Returning(p)
  BY <1>2, <1>3 DEF Returning, Idle
<1>4. QED
  BY <1>1, <1>3 DEF TakenDays

\* A request begins: it has read the status of its row.
LEMMA LeaveBegins ==
  ASSUME LeaveInv, NEW c \in Clients, NEW r \in LeaveRequests,
         NEW op \in {"apply", "manager", "hr", "giveBack", "cancel"},
         StartLeaveRequest(c, op, r),
         UNCHANGED <<leave, balance, nextOpening, leaveRuns, leaveDisturbed>>,
         op = "apply" =>
           leave[r] = "none" /\ \A p \in LeaveRequests : leave[p] \notin Closed => ~ Overlaps(r, p),
         op = "manager" => leave[r] \notin Closed,
         op = "hr" => leave[r] \in {"pending", "manager_approved"},
         op = "giveBack" => leave[r] = "hr_approved",
         op = "cancel" => leave[r] # "hr_approved"
  PROVE  LeaveInv'
<1>0. leaveReq \in [Clients -> {Idle} \cup LeaveCalls]
  BY LeaveTyped DEF LeaveInv
<1>1. PICK n : n = [op |-> op, row |-> r, stale |-> Returning(r) # {}]
  OBVIOUS
<1>2. n \in LeaveCalls /\ n.op = op /\ n.row = r /\ (n.stale <=> Returning(r) # {})
  BY <1>1 DEF LeaveCalls
<1>3. /\ leaveReq[c] = Idle /\ leaveReq'[c] = n
      /\ \A d \in Clients : d # c => leaveReq'[d] = leaveReq[d]
      /\ leaveReq' \in [Clients -> {Idle} \cup LeaveCalls]
  BY <1>0, <1>1, <1>2 DEF StartLeaveRequest
<1>4. LeaveTypeOK'
  BY <1>3, LeaveTyped DEF LeaveInv, LeaveTypeOK, LeaveCalls
<1>5. LeaveKnows(n)'
  BY <1>2 DEF LeaveKnows
<1>6. \A d \in Clients : LeaveKnows(leaveReq[d])'
  BY <1>3, <1>5 DEF LeaveInv, LeaveKnows, Overlaps
<1>7. ASSUME NEW b \in Clients, NEW d \in Clients, b # d, leaveReq'[b].op = "returned",
             leaveReq'[d] # Idle, leaveReq'[d].row = leaveReq'[b].row
      PROVE  leaveReq'[d].stale
  <2>1. b # c
    BY <1>2, <1>3, <1>7
  <2>2. CASE d = c
    BY <1>2, <1>3, <1>7, <2>1, <2>2 DEF Returning
  <2>3. CASE d # c
    BY <1>3, <1>7, <2>1, <2>3 DEF LeaveInv, ReturnsAlone
  <2>4. QED
    BY <2>2, <2>3
<1>8. ReturnsLast'
  BY <1>2, <1>3 DEF LeaveInv, ReturnsLast
<1>9. TakenDays' = TakenDays
  <2>1. \A p \in LeaveRequests : Returning(p)' = Returning(p)
    BY <1>2, <1>3 DEF Returning, Idle
  <2>2. QED
    BY <2>1 DEF TakenDays
<1>10. UsedIsApproved'
  BY <1>9 DEF LeaveInv, UsedIsApproved, TakenDays
<1>11. LeavesDoNotOverlap'
  BY DEF LeaveInv, LeavesDoNotOverlap
<1>12. QED
  BY <1>4, <1>6, <1>7, <1>8, <1>10, <1>11 DEF LeaveInv, ReturnsAlone

\* Every step of the leave keeps the invariant.
LEMMA LeaveStep == ASSUME LeaveInv, [LeaveNext]_leaveVars PROVE LeaveInv'
<1>0. /\ leave \in [LeaveRequests -> LeaveStatus]
      /\ balance \in [opening : Nat, accrued : Nat, used : Int]
      /\ nextOpening \in 0..(CarryForwardLimit * leaveRuns.carry)
      /\ leaveReq \in [Clients -> {Idle} \cup LeaveCalls]
      /\ leaveRuns \in [accrue : 0..MaxRuns, carry : 0..MaxRuns]
      /\ leaveDisturbed \subseteq LeaveRequests
      /\ UsedIsApproved /\ {MonthlyAccrual, CarryForwardLimit, MaxRuns, MaxDays} \subseteq Nat
  BY LeaveTyped, LeaveAssumption DEF LeaveInv
<1>1. CASE UNCHANGED leaveVars
  <2>1. LeaveTypeOK'
    BY <1>1 DEF leaveVars, LeaveInv, LeaveTypeOK
  <2>2. \A c \in Clients : LeaveKnows(leaveReq[c])'
    BY <1>1 DEF leaveVars, LeaveInv, LeaveKnows
  <2>3. ReturnsAlone' /\ ReturnsLast'
    BY <1>1 DEF leaveVars, LeaveInv, ReturnsAlone, ReturnsLast
  <2>4. LeavesDoNotOverlap' /\ UsedIsApproved'
    BY <1>1 DEF leaveVars, LeaveInv, LeavesDoNotOverlap, UsedIsApproved, Returning, Overlaps
  <2>5. QED
    BY <2>1, <2>2, <2>3, <2>4 DEF LeaveInv
<1>2. CASE AccrueMonthly \/ CarryForward
  <2>1. UNCHANGED <<leave, leaveReq, leaveDisturbed>>
    BY <1>2 DEF AccrueMonthly, CarryForward
  <2>2. CASE AccrueMonthly
    <3>1. /\ balance' = [balance EXCEPT !.accrued = @ + MonthlyAccrual]
          /\ leaveRuns' = [leaveRuns EXCEPT !.accrue = @ + 1] /\ nextOpening' = nextOpening
          /\ leaveRuns.accrue < MaxRuns
      BY <2>2 DEF AccrueMonthly
    <3>2. /\ balance' \in [opening : Nat, accrued : Nat, used : Int] /\ balance'.used = balance.used
          /\ leaveRuns' \in [accrue : 0..MaxRuns, carry : 0..MaxRuns] /\ leaveRuns'.carry = leaveRuns.carry
      BY <1>0, <3>1
    <3>3. LeaveTypeOK'
      BY <1>0, <2>1, <3>1, <3>2, LeaveTyped DEF LeaveTypeOK, LeaveCalls
    <3>4. QED
      BY <2>1, <3>2, <3>3 DEF LeaveInv, LeaveKnows, ReturnsAlone, ReturnsLast,
        LeavesDoNotOverlap, UsedIsApproved, Returning, Overlaps
  <2>3. CASE CarryForward
    <3>1. /\ nextOpening' = nextOpening + CarriedOver(Available) /\ Available > 0
          /\ leaveRuns' = [leaveRuns EXCEPT !.carry = @ + 1] /\ balance' = balance
          /\ leaveRuns.carry < MaxRuns
      BY <2>3 DEF CarryForward
    <3>2. PICK a \in Int : a = Available
      BY <1>0 DEF Available
    <3>3. CarriedOver(a) \in 0..CarryForwardLimit
      BY <1>0, <3>1, <3>2 DEF CarriedOver, Least
    <3>4. PICK k \in 0..MaxRuns : k = leaveRuns.carry
      BY <1>0
    <3>5. CarryForwardLimit * (k + 1) = CarryForwardLimit * k + CarryForwardLimit /\ CarryForwardLimit * k \in Int
      BY <1>0
    <3>6. leaveRuns' \in [accrue : 0..MaxRuns, carry : 0..MaxRuns] /\ leaveRuns'.carry = k + 1
      BY <1>0, <3>1, <3>4
    <3>7. nextOpening' \in 0..(CarryForwardLimit * leaveRuns'.carry)
      <4>1. nextOpening' = nextOpening + CarriedOver(a) /\ nextOpening \in 0..(CarryForwardLimit * k)
        BY <1>0, <3>1, <3>2, <3>4
      <4>2. PICK l \in Int : l = CarryForwardLimit * k
        BY <3>5
      <4>3. nextOpening' \in 0..(l + CarryForwardLimit)
        BY <1>0, <3>3, <4>1, <4>2
      <4>4. QED
        BY <3>5, <3>6, <4>2, <4>3
    <3>8. LeaveTypeOK'
      BY <1>0, <2>1, <3>1, <3>6, <3>7, LeaveTyped DEF LeaveTypeOK, LeaveCalls
    <3>9. QED
      BY <2>1, <3>1, <3>8 DEF LeaveInv, LeaveKnows, ReturnsAlone, ReturnsLast,
        LeavesDoNotOverlap, UsedIsApproved, Returning, Overlaps
  <2>4. QED
    BY <1>2, <2>2, <2>3
<1>3. ASSUME NEW c \in Clients, CheckLeave(c) PROVE LeaveInv'
  <2>1. PICK r \in LeaveRequests :
          /\ leave[r] = "none"
          /\ \A q \in LeaveRequests : leave[q] \notin Closed => ~Overlaps(r, q)
          /\ StartLeaveRequest(c, "apply", r)
    BY <1>3 DEF CheckLeave
  <2>2. UNCHANGED <<leave, balance, nextOpening, leaveRuns, leaveDisturbed>>
    BY <1>3 DEF CheckLeave
  <2>3. QED
    BY <2>1, <2>2, LeaveBegins
<1>4. ASSUME NEW c \in Clients, ReadLeave(c) PROVE LeaveInv'
  <2>1. PICK r \in LeaveRequests :
          \/ leave[r] \notin Closed /\ StartLeaveRequest(c, "manager", r)
          \/ leave[r] \in {"pending", "manager_approved"} /\ StartLeaveRequest(c, "hr", r)
          \/ StartLeaveRequest(c, IF leave[r] = "hr_approved" THEN "giveBack" ELSE "cancel", r)
    BY <1>4 DEF ReadLeave
  <2>2. UNCHANGED <<leave, balance, nextOpening, leaveRuns, leaveDisturbed>>
    BY <1>4 DEF ReadLeave
  <2>3. PICK op \in {"manager", "hr", "giveBack", "cancel"} :
          /\ StartLeaveRequest(c, op, r)
          /\ op = "manager" => leave[r] \notin Closed
          /\ op = "hr" => leave[r] \in {"pending", "manager_approved"}
          /\ op = "giveBack" => leave[r] = "hr_approved"
          /\ op = "cancel" => leave[r] # "hr_approved"
    <3>1. CASE leave[r] \notin Closed /\ StartLeaveRequest(c, "manager", r)
      BY <3>1
    <3>2. CASE leave[r] \in {"pending", "manager_approved"} /\ StartLeaveRequest(c, "hr", r)
      BY <3>2
    <3>3. CASE leave[r] = "hr_approved" /\ StartLeaveRequest(c, "giveBack", r)
      BY <3>3
    <3>4. CASE leave[r] # "hr_approved" /\ StartLeaveRequest(c, "cancel", r)
      BY <3>4
    <3>5. QED
      BY <2>1, <3>1, <3>2, <3>3, <3>4
  <2>4. QED
    BY <2>2, <2>3, LeaveBegins
<1>5. ASSUME NEW c \in Clients, ApplyLeave(c) \/ ApproveByManager(c) \/ CancelLeave(c) PROVE LeaveInv'
  <2>1. PICK q : q = leaveReq[c]
    OBVIOUS
  <2>2. q.op \in {"apply", "manager", "cancel", "returned"} /\ UNCHANGED <<balance, nextOpening, leaveRuns>>
    BY <1>5, <2>1 DEF ApplyLeave, ApproveByManager, CancelLeave
  <2>3. q \in LeaveCalls /\ q # Idle /\ LeaveKnows(q) /\ q.row \in LeaveRequests
    BY <1>0, <2>1, <2>2 DEF LeaveInv, LeaveCalls, Idle
  <2>4. PICK status \in LeaveStatus :
          /\ SetLeave(c, Idle, q.row, status) /\ status # "hr_approved"
          /\ q.op = "apply" => status = "pending"
          /\ q.op = "manager" => status = "manager_approved"
          /\ q.op \in {"cancel", "returned"} => status = "cancelled"
    <3>1. CASE ApplyLeave(c)
      BY <2>1, <3>1 DEF ApplyLeave, LeaveStatus
    <3>2. CASE ApproveByManager(c)
      BY <2>1, <3>2 DEF ApproveByManager, LeaveStatus
    <3>3. CASE CancelLeave(c)
      BY <2>1, <3>3 DEF CancelLeave, LeaveStatus
    <3>4. QED
      BY <1>5, <3>1, <3>2, <3>3
  <2>5. /\ leaveDisturbed \subseteq leaveDisturbed' /\ leaveDisturbed' \subseteq LeaveRequests
        /\ q.stale => q.row \in leaveDisturbed'
        /\ q.op = "manager" /\ leave[q.row] = "hr_approved" => q.row \in leaveDisturbed'
    <3>1. CASE ApplyLeave(c)
      BY <1>0, <2>1, <2>3, <3>1 DEF ApplyLeave, Stale
    <3>2. CASE ApproveByManager(c)
      BY <1>0, <2>1, <2>3, <3>2 DEF ApproveByManager, Stale
    <3>3. CASE CancelLeave(c)
      BY <1>0, <2>1, <2>3, <3>3 DEF CancelLeave, Stale
    <3>4. QED
      BY <1>5, <3>1, <3>2, <3>3
  <2>6. q.row \notin leaveDisturbed' =>
          /\ q.op = "apply" => leave[q.row] = "none"
          /\ q.op = "manager" => leave[q.row] \notin Closed /\ leave[q.row] # "hr_approved"
          /\ q.op = "cancel" => leave[q.row] # "hr_approved"
    BY <2>3, <2>5 DEF LeaveKnows
  <2>7. leave[q.row] \in Closed /\ status \notin Closed => q.row \in leaveDisturbed' \/ q.op = "apply"
    BY <2>2, <2>4, <2>6 DEF Closed
  <2>8. q.op = "apply" =>
           \A p \in LeaveRequests :
             leave[p] \notin Closed /\ Overlaps(q.row, p) => q.row \in leaveDisturbed' \/ p \in leaveDisturbed'
    BY <2>3, <2>5 DEF LeaveKnows
  <2>9. leaveDisturbed' = {} =>
           \A d \in Clients : d # c /\ leaveReq[d].op = "returned" => leaveReq[d].row # q.row
    <3>1. SUFFICES ASSUME NEW d \in Clients, d # c, leaveReq[d].op = "returned", leaveReq[d].row = q.row
                   PROVE  leaveDisturbed' # {}
      OBVIOUS
    <3>2. q.stale
      BY <2>1, <2>3, <3>1 DEF LeaveInv, ReturnsAlone
    <3>3. QED
      BY <2>5, <3>2
  <2>10. /\ LeaveTypeOK'
         /\ \A d \in Clients : LeaveKnows(leaveReq[d])'
         /\ ReturnsAlone'
         /\ ReturnsLast'
         /\ LeavesDoNotOverlap'
    BY <1>0, <2>1, <2>2, <2>3, <2>4, <2>5, <2>7, <2>8, <2>9, StatusSet
  <2>11. ASSUME leaveDisturbed' = {} PROVE balance'.used = SumFunctionOnSet(Days, TakenDays)'
    <3>1. q.row \notin TakenDays
      <4>1. CASE q.op = "returned"
        BY <2>1, <4>1 DEF TakenDays, Returning
      <4>2. CASE q.op # "returned"
        BY <2>2, <2>6, <2>11, <4>2 DEF TakenDays
      <4>3. QED
        BY <4>1, <4>2
    <3>2. TakenDays' = TakenDays
      BY <2>1, <2>3, <2>4, <3>1, TakenStays
    <3>3. balance.used = SumFunctionOnSet(Days, TakenDays)
      BY <1>0, <2>5, <2>11, UsedSum
    <3>4. QED
      BY <2>2, <3>2, <3>3 DEF Days, TotalDays
  <2>12. UsedIsApproved'
    BY <2>11 DEF UsedIsApproved, Days, TakenDays
  <2>13. QED
    BY <2>10, <2>12 DEF LeaveInv
<1>6. ASSUME NEW c \in Clients, RejectLeave(c) PROVE LeaveInv'
  <2>1. PICK r \in LeaveRequests :
          /\ SetLeave(c, Idle, r, "rejected")
          /\ leaveDisturbed' = IF leave[r] = "hr_approved" THEN leaveDisturbed \cup {r} ELSE leaveDisturbed
    BY <1>6 DEF RejectLeave
  <2>2. leaveReq[c] = Idle /\ UNCHANGED <<balance, nextOpening, leaveRuns>>
    BY <1>6 DEF RejectLeave
  <2>3. "rejected" \in LeaveStatus /\ "rejected" \in Closed /\ leaveReq[c].op # "apply"
    BY <2>2 DEF LeaveStatus, Closed, Idle
  <2>4. leaveDisturbed \subseteq leaveDisturbed' /\ leaveDisturbed' \subseteq LeaveRequests
    BY <1>0, <2>1
  <2>5. leaveDisturbed' = {} =>
           \A d \in Clients : d # c /\ leaveReq[d].op = "returned" => leaveReq[d].row # r
    <3>1. SUFFICES ASSUME leaveDisturbed' = {}, NEW d \in Clients, d # c, leaveReq[d].op = "returned", leaveReq[d].row = r
                   PROVE  FALSE
      OBVIOUS
    <3>2. leave[r] # "hr_approved"
      BY <2>1, <3>1
    <3>3. ~ leaveReq[d].stale /\ leaveReq[d] # Idle
      BY <2>4, <3>1 DEF LeaveInv, ReturnsLast, Idle
    <3>4. QED
      BY <3>1, <3>2, <3>3 DEF LeaveInv, LeaveKnows
  <2>6. /\ LeaveTypeOK'
        /\ \A d \in Clients : LeaveKnows(leaveReq[d])'
        /\ ReturnsAlone'
        /\ ReturnsLast'
        /\ LeavesDoNotOverlap'
    BY <1>0, <2>1, <2>2, <2>3, <2>4, <2>5, StatusSet
  <2>7. ASSUME leaveDisturbed' = {} PROVE balance'.used = SumFunctionOnSet(Days, TakenDays)'
    <3>1. r \notin TakenDays
      BY <2>1, <2>7 DEF TakenDays
    <3>2. TakenDays' = TakenDays
      BY <2>1, <2>2, <3>1, TakenStays
    <3>3. balance.used = SumFunctionOnSet(Days, TakenDays)
      BY <1>0, <2>4, <2>7, UsedSum
    <3>4. QED
      BY <2>2, <3>2, <3>3 DEF Days, TotalDays
  <2>8. UsedIsApproved'
    BY <2>7 DEF UsedIsApproved, Days, TakenDays
  <2>9. QED
    BY <2>6, <2>8 DEF LeaveInv
<1>7. ASSUME NEW c \in Clients, ApproveByHr(c) PROVE LeaveInv'
  <2>1. PICK q : q = leaveReq[c]
    OBVIOUS
  <2>2. /\ q.op = "hr" /\ balance' = [balance EXCEPT !.used = @ + TotalDays(q.row)]
        /\ SetLeave(c, Idle, q.row, "hr_approved")
        /\ leaveDisturbed' = IF Stale(q) THEN leaveDisturbed \cup {q.row} ELSE leaveDisturbed
        /\ UNCHANGED <<nextOpening, leaveRuns>>
    BY <1>7, <2>1 DEF ApproveByHr
  <2>3. q \in LeaveCalls /\ q # Idle /\ LeaveKnows(q) /\ q.row \in LeaveRequests
    BY <1>0, <2>1, <2>2 DEF LeaveInv, LeaveCalls, Idle
  <2>4. /\ leaveDisturbed \subseteq leaveDisturbed' /\ leaveDisturbed' \subseteq LeaveRequests
        /\ q.stale => q.row \in leaveDisturbed'
    BY <1>0, <2>2, <2>3 DEF Stale
  <2>5. ~ q.stale => leave[q.row] \in {"pending", "manager_approved"}
    BY <2>2, <2>3 DEF LeaveKnows
  <2>6. "hr_approved" \in LeaveStatus /\ "hr_approved" \notin Closed
    BY DEF LeaveStatus, Closed
  <2>7. leave[q.row] \in Closed => q.row \in leaveDisturbed'
    BY <2>4, <2>5 DEF Closed
  <2>8. leaveDisturbed' = {} =>
           \A d \in Clients : d # c /\ leaveReq[d].op = "returned" => leaveReq[d].row # q.row
    BY <2>1, <2>3, <2>4 DEF LeaveInv, ReturnsAlone
  <2>9. balance' \in [opening : Nat, accrued : Nat, used : Int]
        /\ balance'.used = balance.used + TotalDays(q.row)
    BY <1>0, <2>2, <2>3, DaysNat
  <2>10. /\ LeaveTypeOK'
         /\ \A d \in Clients : LeaveKnows(leaveReq[d])'
         /\ ReturnsAlone'
         /\ ReturnsLast'
         /\ LeavesDoNotOverlap'
    BY <2>1, <2>2, <2>3, <2>4, <2>6, <2>7, <2>8, <2>9, StatusSet
  <2>11. ASSUME leaveDisturbed' = {} PROVE balance'.used = SumFunctionOnSet(Days, TakenDays)'
    <3>1. ~ q.stale /\ leave[q.row] # "hr_approved"
      BY <2>4, <2>5, <2>11
    <3>2. q.row \notin TakenDays
      BY <3>1 DEF TakenDays
    <3>3. /\ leave'[q.row] = "hr_approved" /\ \A p \in LeaveRequests : p # q.row => leave'[p] = leave[p]
      BY <1>0, <2>2, <2>3 DEF SetLeave
    <3>4. /\ leaveReq'[c] = Idle
          /\ \A d \in Clients : d # c => leaveReq'[d].op = leaveReq[d].op /\ leaveReq'[d].row = leaveReq[d].row
      BY <2>2, LeaveOvertakes
    <3>5. \A p \in LeaveRequests : Returning(p)' = Returning(p)
      BY <2>1, <2>2, <3>4 DEF Returning, Idle
    <3>6. Returning(q.row) = {}
      BY <2>1, <2>2, <2>8, <2>11 DEF Returning
    <3>7. TakenDays' = TakenDays \cup {q.row}
      BY <2>3, <3>3, <3>5, <3>6 DEF TakenDays
    <3>8. balance.used = SumFunctionOnSet(Days, TakenDays)
      BY <1>0, <2>4, <2>11, UsedSum
    <3>9. PICK D : D = Days
      OBVIOUS
    <3>10. \A y \in TakenDays \cup {q.row} : D[y] \in Int
      BY <2>3, <3>9, TakenFinite, DaysNat
    <3>11. SumFunctionOnSet(D, TakenDays \cup {q.row}) = SumFunctionOnSet(D, TakenDays) + D[q.row]
      BY <3>2, <3>10, TakenFinite, SumAdd
    <3>12. D[q.row] = TotalDays(q.row) /\ Days' = D
      BY <2>3, <3>9, DaysNat DEF Days, TotalDays
    <3>13. QED
      BY <2>9, <3>7, <3>8, <3>9, <3>11, <3>12
  <2>12. UsedIsApproved'
    BY <2>11 DEF UsedIsApproved, Days, TakenDays
  <2>13. QED
    BY <2>10, <2>12 DEF LeaveInv
<1>8. ASSUME NEW c \in Clients, GiveBackDays(c) PROVE LeaveInv'
  <2>1. PICK q : q = leaveReq[c]
    OBVIOUS
  <2>2. PICK n : n = [q EXCEPT !.op = "returned"]
    OBVIOUS
  <2>3. /\ q.op = "giveBack" /\ balance' = [balance EXCEPT !.used = @ - TotalDays(q.row)]
        /\ leaveReq' = Overtake(leaveReq, c, n, LAMBDA d : leaveReq[d].row = q.row)
        /\ leaveDisturbed' = IF Stale(q) THEN leaveDisturbed \cup {q.row} ELSE leaveDisturbed
        /\ UNCHANGED <<leave, nextOpening, leaveRuns>>
    BY <1>8, <2>1, <2>2 DEF GiveBackDays, GivenBack
  <2>4. q \in LeaveCalls /\ q # Idle /\ LeaveKnows(q) /\ q.row \in LeaveRequests
    BY <1>0, <2>1, <2>3 DEF LeaveInv, LeaveCalls, Idle
  <2>5. n \in LeaveCalls /\ n # Idle /\ n.op = "returned" /\ n.row = q.row /\ n.stale = q.stale
    BY <2>2, <2>4 DEF LeaveCalls, Idle
  <2>6. /\ leaveDisturbed \subseteq leaveDisturbed' /\ leaveDisturbed' \subseteq LeaveRequests
        /\ q.stale => q.row \in leaveDisturbed'
    BY <1>0, <2>3, <2>4 DEF Stale
  <2>7. \A d \in Clients :
          leaveReq'[d] = IF d = c THEN n
            ELSE IF leaveReq[d] # Idle /\ leaveReq[d].row = q.row
                 THEN [leaveReq[d] EXCEPT !.stale = TRUE] ELSE leaveReq[d]
    BY <2>3 DEF Overtake
  <2>8. ASSUME NEW d \in Clients, d # c
        PROVE  /\ leaveReq'[d] \in {Idle} \cup LeaveCalls
               /\ (leaveReq'[d] # Idle <=> leaveReq[d] # Idle)
               /\ leaveReq'[d].op = leaveReq[d].op /\ leaveReq'[d].row = leaveReq[d].row
               /\ IF leaveReq[d] # Idle /\ leaveReq[d].row = q.row
                  THEN leaveReq'[d].stale ELSE leaveReq'[d] = leaveReq[d]
    <3>1. PICK p \in {Idle} \cup LeaveCalls : p = leaveReq[d]
      BY <1>0
    <3>2. CASE p # Idle /\ p.row = q.row
      <4>1. PICK o : o = [p EXCEPT !.stale = TRUE]
        OBVIOUS
      <4>2. o \in LeaveCalls /\ o.op = p.op /\ o.row = p.row /\ o.stale
        BY <3>1, <3>2, <4>1 DEF LeaveCalls
      <4>3. o # Idle
        BY <4>2 DEF LeaveCalls, Idle
      <4>4. leaveReq'[d] = o
        BY <2>7, <2>8, <3>1, <3>2, <4>1
      <4>5. QED
        BY <3>1, <3>2, <4>2, <4>3, <4>4
    <3>3. CASE ~ (p # Idle /\ p.row = q.row)
      BY <2>7, <2>8, <3>1, <3>3
    <3>4. QED
      BY <3>2, <3>3
  <2>9. leaveReq'[c] = n /\ leaveReq' = [d \in Clients |-> leaveReq'[d]]
    BY <2>3, <2>7 DEF Overtake
  <2>10. leaveReq' \in [Clients -> {Idle} \cup LeaveCalls]
    BY <2>5, <2>8, <2>9
  <2>11. balance' \in [opening : Nat, accrued : Nat, used : Int] /\ balance'.used = balance.used - TotalDays(q.row)
    BY <1>0, <2>3, <2>4, DaysNat
  <2>12. LeaveTypeOK'
    BY <1>0, <2>3, <2>6, <2>10, <2>11, LeaveTyped DEF LeaveTypeOK, LeaveCalls
  <2>13. ASSUME NEW d \in Clients PROVE LeaveKnows(leaveReq[d])'
    <3>1. CASE d = c
      <4>1. LeaveKnows(n)'
        BY <2>3, <2>4, <2>5 DEF LeaveKnows
      <4>2. QED
        BY <2>9, <3>1, <4>1 DEF LeaveKnows
    <3>2. CASE d # c
      <4>1. PICK p : p = leaveReq[d]
        OBVIOUS
      <4>2. SUFFICES ASSUME leaveReq'[d] # Idle, ~ leaveReq'[d].stale PROVE LeaveKnows(leaveReq[d])'
        BY DEF LeaveKnows
      <4>3. leaveReq'[d] = p /\ LeaveKnows(p)
        BY <2>8, <3>2, <4>1, <4>2 DEF LeaveInv
      <4>4. LeaveKnows(p)'
        BY <2>3, <2>6, <4>3 DEF LeaveKnows, Overlaps
      <4>5. QED
        BY <4>3, <4>4 DEF LeaveKnows
    <3>3. QED
      BY <3>1, <3>2
  <2>14. ReturnsAlone'
    <3>1. SUFFICES ASSUME NEW b \in Clients, NEW d \in Clients, b # d, leaveReq'[b].op = "returned",
                          leaveReq'[d] # Idle, leaveReq'[d].row = leaveReq'[b].row
                   PROVE  leaveReq'[d].stale
      BY DEF ReturnsAlone
    <3>2. CASE b = c
      BY <2>5, <2>8, <2>9, <3>1, <3>2
    <3>3. CASE b # c /\ d = c
      <4>1. leaveReq[c].stale
        BY <2>1, <2>4, <2>5, <2>8, <2>9, <3>1, <3>3 DEF LeaveInv, ReturnsAlone
      <4>2. QED
        BY <2>1, <2>5, <2>9, <3>3, <4>1
    <3>4. CASE b # c /\ d # c
      <4>1. leaveReq[d].stale
        BY <2>8, <3>1, <3>4 DEF LeaveInv, ReturnsAlone
      <4>2. QED
        BY <2>8, <3>4, <4>1
    <3>5. QED
      BY <3>2, <3>3, <3>4
  <2>15. leaveDisturbed' = {} =>
           \A d \in Clients : d # c /\ leaveReq[d].op = "returned" => leaveReq[d].row # q.row
    BY <2>1, <2>4, <2>6 DEF LeaveInv, ReturnsAlone
  <2>16. ReturnsLast'
    <3>1. SUFFICES ASSUME leaveDisturbed' = {}, NEW d \in Clients, leaveReq'[d].op = "returned"
                   PROVE  ~ leaveReq'[d].stale
      BY DEF ReturnsLast
    <3>2. CASE d = c
      BY <2>5, <2>6, <2>9, <3>1, <3>2
    <3>3. CASE d # c
      BY <2>6, <2>8, <2>15, <3>1, <3>3 DEF LeaveInv, ReturnsLast
    <3>4. QED
      BY <3>2, <3>3
  <2>17. LeavesDoNotOverlap'
    BY <2>3, <2>6 DEF LeaveInv, LeavesDoNotOverlap
  <2>18. ASSUME leaveDisturbed' = {} PROVE balance'.used = SumFunctionOnSet(Days, TakenDays)'
    <3>1. ~ q.stale /\ leave[q.row] = "hr_approved"
      BY <2>3, <2>4, <2>6, <2>18 DEF LeaveKnows
    <3>2. q.row \in TakenDays
      BY <2>1, <2>3, <2>4, <2>15, <2>18, <3>1 DEF TakenDays, Returning
    <3>3. \A p \in LeaveRequests : p # q.row => Returning(p)' = Returning(p)
      <4>1. SUFFICES ASSUME NEW p \in LeaveRequests, p # q.row
                     PROVE  \A d \in Clients :
                              (leaveReq'[d].op = "returned" /\ leaveReq'[d].row = p)
                                <=> (leaveReq[d].op = "returned" /\ leaveReq[d].row = p)
        BY DEF Returning
      <4>2. q = leaveReq[c] /\ q.op = "giveBack"
        BY <2>1, <2>3
      <4>3. QED
        <5>1. ASSUME NEW d \in Clients
              PROVE  (leaveReq'[d].op = "returned" /\ leaveReq'[d].row = p)
                       <=> (leaveReq[d].op = "returned" /\ leaveReq[d].row = p)
          <6>1. CASE d = c
            BY <2>5, <2>9, <4>1, <4>2, <6>1
          <6>2. CASE d # c
            BY <2>8, <6>2
          <6>3. QED
            BY <6>1, <6>2
        <5>2. QED
          BY <4>1, <5>1
    <3>4. c \in Returning(q.row)'
      BY <2>5, <2>9 DEF Returning
    <3>5. TakenDays' = TakenDays \ {q.row}
      BY <2>3, <2>4, <3>3, <3>4 DEF TakenDays
    <3>6. balance.used = SumFunctionOnSet(Days, TakenDays)
      BY <1>0, <2>6, <2>18, UsedSum
    <3>7. PICK D : D = Days
      OBVIOUS
    <3>8. \A y \in TakenDays : D[y] \in Int
      BY <3>7, TakenFinite, DaysNat
    <3>9. SumFunctionOnSet(D, TakenDays) = D[q.row] + SumFunctionOnSet(D, TakenDays \ {q.row})
      BY <3>2, <3>8, TakenFinite, SumElement
    <3>10. SumFunctionOnSet(D, TakenDays \ {q.row}) \in Int
      <4>1. IsFiniteSet(TakenDays \ {q.row}) /\ \A y \in TakenDays \ {q.row} : D[y] \in Int
        BY <3>8, TakenFinite, FS_Subset
      <4>2. QED
        BY <4>1, SumType
    <3>11. D[q.row] = TotalDays(q.row) /\ Days' = D /\ D[q.row] \in Int
      BY <2>4, <3>7, DaysNat DEF Days, TotalDays
    <3>12. QED
      BY <2>11, <3>5, <3>6, <3>7, <3>9, <3>10, <3>11
  <2>19. UsedIsApproved'
    BY <2>18 DEF UsedIsApproved, Days, TakenDays
  <2>20. QED
    BY <2>12, <2>13, <2>14, <2>16, <2>17, <2>19 DEF LeaveInv
<1>9. ASSUME NEW c \in Clients, DropLeaveRequest(c) PROVE LeaveInv'
  <2>1. PICK q : q = leaveReq[c]
    OBVIOUS
  <2>2. /\ q # Idle /\ leaveReq' = [leaveReq EXCEPT ![c] = Idle]
        /\ leaveDisturbed' = IF q.op = "returned" THEN leaveDisturbed \cup {q.row} ELSE leaveDisturbed
        /\ UNCHANGED <<leave, balance, nextOpening, leaveRuns>>
    BY <1>9, <2>1 DEF DropLeaveRequest
  <2>3. q \in LeaveCalls /\ q.row \in LeaveRequests
    BY <1>0, <2>1, <2>2 DEF LeaveCalls
  <2>4. leaveDisturbed \subseteq leaveDisturbed' /\ leaveDisturbed' \subseteq LeaveRequests
    BY <1>0, <2>2, <2>3
  <2>5. /\ leaveReq' \in [Clients -> {Idle} \cup LeaveCalls] /\ leaveReq'[c] = Idle
        /\ \A d \in Clients : d # c => leaveReq'[d] = leaveReq[d]
    BY <1>0, <2>2
  <2>6. LeaveTypeOK'
    BY <1>0, <2>2, <2>4, <2>5, LeaveTyped DEF LeaveTypeOK, LeaveCalls
  <2>7. \A d \in Clients : LeaveKnows(leaveReq[d])'
    BY <2>2, <2>4, <2>5 DEF LeaveInv, LeaveKnows, Overlaps
  <2>8. ReturnsAlone' /\ ReturnsLast'
    BY <2>4, <2>5 DEF LeaveInv, ReturnsAlone, ReturnsLast, Idle
  <2>9. LeavesDoNotOverlap'
    BY <2>2, <2>4 DEF LeaveInv, LeavesDoNotOverlap
  <2>10. ASSUME leaveDisturbed' = {} PROVE TakenDays' = TakenDays /\ leaveDisturbed = {}
    <3>1. q.op # "returned"
      BY <2>2, <2>10
    <3>2. \A p \in LeaveRequests : Returning(p)' = Returning(p)
      BY <2>1, <2>5, <3>1 DEF Returning, Idle
    <3>3. QED
      BY <2>2, <2>4, <2>10, <3>2 DEF TakenDays
  <2>11. UsedIsApproved'
    BY <1>0, <2>2, <2>10 DEF UsedIsApproved, TakenDays
  <2>12. QED
    BY <2>6, <2>7, <2>8, <2>9, <2>11 DEF LeaveInv
<1>10. QED
  BY <1>1, <1>2, <1>3, <1>4, <1>5, <1>6, <1>7, <1>8, <1>9 DEF LeaveNext

(*************************************************************************)
(* The provident fund.                                                   *)
(* A credit that nothing has overtaken holds the balance; a run of the   *)
(* interest holds the lock unless it expired.                            *)
(*************************************************************************)

\* A sequence with another appended.
LEMMA AppendedSeq ==
  ASSUME NEW T, NEW s \in Seq(T), NEW t \in Seq(T)
  PROVE  /\ s \o t \in Seq(T) /\ Len(s \o t) = Len(s) + Len(t)
         /\ \A k \in 1..Len(s) : (s \o t)[k] = s[k]
         /\ \A k \in 1..Len(t) : (s \o t)[Len(s) + k] = t[k]
OBVIOUS

\* The requests of the provident fund, by what they have read.
PfCredits ==
  [op : {"contribute", "interest"}, row : {"account"}, balance : Nat,
   credits : Seq(Nat) \ {<<>>}, stale : BOOLEAN]
PfLocked == [op : {"locked"}, row : {"account"}, stale : BOOLEAN]
PfRequests == {Idle} \cup PfCredits \cup PfLocked

\* A request knows the balance unless it has been overtaken, and the run of a scheduler has
\* the lock unless one expired under its holder.
PfKnown(c, r) ==
  /\ r.op \in {"contribute", "interest"} /\ ~ r.stale => r.balance = pfAccount.balance
  /\ r.op \in {"locked", "interest"} => pfLock = c \/ pfLockLost

ProvidentInv ==
  /\ ProvidentTypeOK
  /\ pfReq \in [Clients -> PfRequests]
  /\ \A c \in Clients : PfKnown(c, pfReq[c])
  /\ BalanceIsCredits

\* Two runs at once have one lock.
LEMMA ProvidentRunsAlone == ProvidentInv => InterestRunsAlone
<1> SUFFICES ASSUME ProvidentInv, NEW c \in Clients, NEW d \in Clients, c # d,
                    {pfReq[c].op, pfReq[d].op} \subseteq {"locked", "interest"}
             PROVE  pfLockLost
  BY DEF InterestRunsAlone
<1>1. (pfLock = c \/ pfLockLost) /\ (pfLock = d \/ pfLockLost)
  BY DEF ProvidentInv, PfKnown
<1>2. QED
  BY <1>1

\* A percentage of an amount is a natural number.
LEMMA PercentNat ==
  ASSUME NEW amount \in Nat, NEW pct \in 0..100
  PROVE  Percent(amount, pct) \in Nat
<1>1. PICK p \in Nat : p = amount * pct
  OBVIOUS
<1>2. (p + 50) \div 100 \in Nat
  OBVIOUS
<1>3. QED
  BY <1>1, <1>2 DEF Percent

\* What is credited is a natural number.
LEMMA CreditedNat ==
  ASSUME NEW r \in PfCredits
  PROVE  /\ SumFunctionOnSet(r.credits, DOMAIN r.credits) \in Nat
         /\ Credited(r) \in Nat /\ Credited(r) = r.balance + SumFunctionOnSet(r.credits, 1..Len(r.credits))
<1>1. r.credits \in Seq(Nat) /\ r.balance \in Nat
  BY DEF PfCredits
<1>2. PICK s \in Seq(Nat) : s = r.credits
  BY <1>1
<1>3. DOMAIN s = 1..Len(s) /\ Len(s) \in Nat /\ \A k \in 1..Len(s) : s[k] \in Nat
  OBVIOUS
<1>4. IsFiniteSet(1..Len(s))
  BY <1>3, FS_Interval
<1>5. SumFunctionOnSet(s, 1..Len(s)) \in Nat
  BY <1>3, <1>4, SumNat
<1>6. QED
  BY <1>1, <1>2, <1>3, <1>5 DEF Credited

\* Nobody is enrolled at the start.
LEMMA ProvidentStart == ASSUME ProvidentInit PROVE ProvidentInv
<1> USE ProvidentAssumption DEF ProvidentInit
<1>1. ProvidentTypeOK
  <2>1. <<>> \in Seq([amount : Nat, after : Nat]) /\ Len(<<>>) = 0
    OBVIOUS
  <2>2. pfAccount \in [enrolled : BOOLEAN, balance : Nat]
    OBVIOUS
  <2>3. pfTxns \in Seq([amount : Nat, after : Nat]) /\ Len(pfTxns) <= MaxPfTxns
    BY <2>1
  <2>4. QED
    BY <2>2, <2>3 DEF ProvidentTypeOK
<1>2. pfReq \in [Clients -> PfRequests]
  BY DEF PfRequests
<1>3. \A c \in Clients : PfKnown(c, pfReq[c])
  BY DEF PfKnown, Idle
<1>4. BalanceIsCredits
  <2>1. PICK w : w = [k \in DOMAIN pfTxns |-> pfTxns[k].amount]
    OBVIOUS
  <2>2. DOMAIN pfTxns = {}
    OBVIOUS
  <2>3. \A x \in {} : w[x] \in Int
    OBVIOUS
  <2>4. SumFunctionOnSet(w, {}) = 0
    BY <2>3, SumType, FS_EmptySet
  <2>5. QED
    BY <2>1, <2>2, <2>4 DEF BalanceIsCredits
<1>5. QED
  BY <1>1, <1>2, <1>3, <1>4 DEF ProvidentInv

\* The parts of the type invariant, with the requests.
LEMMA ProvidentTyped ==
  ASSUME ProvidentInv
  PROVE  /\ pfAccount \in [enrolled : BOOLEAN, balance : Nat]
         /\ pfTxns \in Seq([amount : Nat, after : Nat]) /\ Len(pfTxns) <= MaxPfTxns
         /\ pfLock \in Clients \cup {NoRow}
         /\ pfReq \in [Clients -> PfRequests]
         /\ pfOvertaken \in BOOLEAN /\ pfLockLost \in BOOLEAN
BY DEF ProvidentInv, ProvidentTypeOK

\* What the requests are follows from the types.
LEMMA PfOps ==
  ASSUME NEW r \in PfRequests, r # Idle
  PROVE  r.op \in {"contribute", "locked", "interest"}
BY DEF PfRequests, PfCredits, PfLocked

\* A step that stores no credit keeps the invariant when the request it leaves knows the
\* balance, and the lock is taken from nobody who runs.
LEMMA NoCredit ==
  ASSUME ProvidentInv, NEW c \in Clients, NEW r \in PfRequests,
         pfReq' = [pfReq EXCEPT ![c] = r],
         pfAccount' \in [enrolled : BOOLEAN, balance : Nat], pfAccount'.balance = pfAccount.balance,
         UNCHANGED <<pfTxns, pfOvertaken, pfLockLost>>,
         pfLock' \in Clients \cup {NoRow},
         PfKnown(c, r)',
         \A d \in Clients : d # c /\ pfReq[d].op \in {"locked", "interest"} => pfLock' = d \/ pfLockLost
  PROVE  ProvidentInv'
<1>1. /\ pfReq' \in [Clients -> PfRequests] /\ pfReq'[c] = r
      /\ \A d \in Clients : d # c => pfReq'[d] = pfReq[d]
  BY ProvidentTyped
<1>2. ProvidentTypeOK'
  BY <1>1, ProvidentTyped, PfOps DEF ProvidentTypeOK
<1>3. \A d \in Clients : PfKnown(d, pfReq[d])'
  BY <1>1 DEF ProvidentInv, PfKnown
<1>4. BalanceIsCredits'
  BY DEF ProvidentInv, BalanceIsCredits
<1>5. QED
  BY <1>1, <1>2, <1>3, <1>4 DEF ProvidentInv

\* Who runs without the lock has lost it.
LEMMA OthersLost ==
  ASSUME ProvidentInv, NEW c \in Clients, pfReq[c].op \in {"locked", "interest"},
         NEW d \in Clients, d # c, pfReq[d].op \in {"locked", "interest"}
  PROVE  pfLockLost
BY ProvidentRunsAlone DEF InterestRunsAlone

\* The requests after a credit: the others that were to credit have read an old balance.
LEMMA CreditOvertakes ==
  ASSUME ProvidentInv, NEW c \in Clients,
         pfReq' = Overtake(pfReq, c, Idle, LAMBDA d : pfReq[d].op \in {"contribute", "interest"})
  PROVE  /\ pfReq' \in [Clients -> PfRequests]
         /\ pfReq'[c] = Idle
         /\ \A d \in Clients : d # c =>
              /\ pfReq'[d].op = pfReq[d].op
              /\ pfReq'[d].op \in {"contribute", "interest"} => pfReq'[d].stale
<1>1. \A d \in Clients :
        pfReq'[d] = IF d = c THEN Idle
                    ELSE IF pfReq[d] # Idle /\ pfReq[d].op \in {"contribute", "interest"}
                         THEN [pfReq[d] EXCEPT !.stale = TRUE] ELSE pfReq[d]
  BY DEF Overtake
<1>2. ASSUME NEW d \in Clients, d # c
      PROVE  /\ pfReq'[d] \in PfRequests
             /\ pfReq'[d].op = pfReq[d].op
             /\ pfReq'[d].op \in {"contribute", "interest"} => pfReq'[d].stale
  <2>1. PICK q \in PfRequests : q = pfReq[d]
    BY ProvidentTyped
  <2>2. CASE q # Idle /\ q.op \in {"contribute", "interest"}
    <3>1. q \in PfCredits
      BY <2>2 DEF PfRequests, PfLocked
    <3>2. PICK p : p = [q EXCEPT !.stale = TRUE]
      OBVIOUS
    <3>3. p \in PfCredits /\ p.op = q.op /\ p.stale
      BY <3>1, <3>2 DEF PfCredits
    <3>4. pfReq'[d] = p
      BY <1>1, <1>2, <2>1, <2>2, <3>2
    <3>5. QED
      BY <2>1, <3>3, <3>4 DEF PfRequests
  <2>3. CASE ~ (q # Idle /\ q.op \in {"contribute", "interest"})
    <3>1. pfReq'[d] = q
      BY <1>1, <1>2, <2>1, <2>3
    <3>2. q.op \notin {"contribute", "interest"}
      BY <2>3 DEF Idle
    <3>3. QED
      BY <2>1, <3>1, <3>2
  <2>4. QED
    BY <2>2, <2>3
<1>3. pfReq'[c] = Idle /\ Idle \in PfRequests
  BY <1>1 DEF PfRequests
<1>4. pfReq' = [d \in Clients |-> pfReq'[d]]
  BY DEF Overtake
<1>5. QED
  BY <1>2, <1>3, <1>4

\* Every step of the provident fund keeps the invariant: a credit by a request that knew
\* the balance makes it the sum of the transactions with those it inserts.
LEMMA ProvidentStep == ASSUME ProvidentInv, [ProvidentNext]_pfVars PROVE ProvidentInv'
<1>0. /\ pfAccount \in [enrolled : BOOLEAN, balance : Nat]
      /\ pfTxns \in Seq([amount : Nat, after : Nat]) /\ Len(pfTxns) <= MaxPfTxns
      /\ pfLock \in Clients \cup {NoRow}
      /\ pfReq \in [Clients -> PfRequests]
      /\ pfOvertaken \in BOOLEAN /\ pfLockLost \in BOOLEAN
      /\ \A c \in Clients : PfKnown(c, pfReq[c])
      /\ BalanceIsCredits
      /\ NoRow \notin Clients
  BY ProvidentTyped, RequestsAssumption DEF ProvidentInv
<1>1. CASE UNCHANGED pfVars
  BY <1>1 DEF pfVars, ProvidentInv, ProvidentTypeOK, PfKnown, BalanceIsCredits
<1>2. CASE EnrollPf
  <2>1. /\ pfAccount' = [pfAccount EXCEPT !.enrolled = TRUE]
        /\ UNCHANGED <<pfTxns, pfLock, pfReq, pfOvertaken, pfLockLost>>
    BY <1>2 DEF EnrollPf
  <2>2. pfAccount' \in [enrolled : BOOLEAN, balance : Nat] /\ pfAccount'.balance = pfAccount.balance
    BY <1>0, <2>1
  <2>3. ProvidentTypeOK'
    BY <2>1, <2>2 DEF ProvidentInv, ProvidentTypeOK
  <2>4. QED
    BY <1>0, <2>1, <2>2, <2>3 DEF ProvidentInv, PfKnown, BalanceIsCredits
<1>3. CASE ExpirePfLock
  <2>1. /\ pfLock # NoRow /\ pfLock' = NoRow
        /\ pfLockLost' = (pfLockLost \/ pfReq[pfLock].op \in {"locked", "interest"})
        /\ UNCHANGED <<pfAccount, pfTxns, pfReq, pfOvertaken>>
    BY <1>3 DEF ExpirePfLock
  <2>2. ProvidentTypeOK'
    BY <1>0, <2>1 DEF ProvidentInv, ProvidentTypeOK
  <2>3. \A c \in Clients : PfKnown(c, pfReq[c])'
    BY <1>0, <2>1 DEF PfKnown
  <2>4. QED
    BY <1>0, <2>1, <2>2, <2>3 DEF ProvidentInv, BalanceIsCredits
<1>4. ASSUME NEW c \in Clients, ReadPfAccount(c) PROVE ProvidentInv'
  <2>1. PICK basic \in BasicSalaries :
          pfReq' = [pfReq EXCEPT ![c] =
            [op |-> "contribute", row |-> "account", balance |-> pfAccount.balance,
             credits |-> <<Percent(basic, ContributionPct), Percent(basic, ContributionPct)>>, stale |-> FALSE]]
    BY <1>4 DEF ReadPfAccount
  <2>2. PICK share \in Nat : share = Percent(basic, ContributionPct)
    BY PercentNat, ProvidentAssumption
  <2>3. PICK r : r = [op |-> "contribute", row |-> "account", balance |-> pfAccount.balance,
                      credits |-> <<share, share>>, stale |-> FALSE]
    OBVIOUS
  <2>4. r \in PfCredits /\ r.op = "contribute" /\ r.balance = pfAccount.balance
    <3>1. <<share, share>> \in Seq(Nat) \ {<<>>}
      OBVIOUS
    <3>2. pfAccount.balance \in Nat
      BY <1>0
    <3>3. QED
      BY <2>3, <3>1, <3>2 DEF PfCredits
  <2>5. pfReq' = [pfReq EXCEPT ![c] = r] /\ r \in PfRequests
    BY <2>1, <2>2, <2>3, <2>4 DEF PfRequests
  <2>6. UNCHANGED <<pfAccount, pfTxns, pfLock, pfOvertaken, pfLockLost>>
    BY <1>4 DEF ReadPfAccount
  <2>7. PfKnown(c, r)'
    BY <2>4, <2>6 DEF PfKnown
  <2>8. \A d \in Clients : d # c /\ pfReq[d].op \in {"locked", "interest"} => pfLock' = d \/ pfLockLost
    BY <1>0, <2>6 DEF PfKnown
  <2>9. QED
    BY <1>0, <2>5, <2>6, <2>7, <2>8, NoCredit
<1>5. ASSUME NEW c \in Clients, TakePfLock(c) PROVE ProvidentInv'
  <2>1. PICK r : r = [op |-> "locked", row |-> "account", stale |-> FALSE]
    OBVIOUS
  <2>2. r \in PfRequests /\ r.op = "locked"
    BY <2>1 DEF PfRequests, PfLocked
  <2>3. /\ pfLock = NoRow /\ pfLock' = c /\ pfReq' = [pfReq EXCEPT ![c] = r]
        /\ UNCHANGED <<pfAccount, pfTxns, pfOvertaken, pfLockLost>>
    BY <1>5, <2>1 DEF TakePfLock, LockFree
  <2>4. PfKnown(c, r)'
    BY <2>2, <2>3 DEF PfKnown
  <2>5. \A d \in Clients : d # c /\ pfReq[d].op \in {"locked", "interest"} => pfLock' = d \/ pfLockLost
    BY <1>0, <2>3 DEF PfKnown
  <2>6. QED
    BY <1>0, <2>2, <2>3, <2>4, <2>5, NoCredit
<1>6. ASSUME NEW c \in Clients, ReadPfAccounts(c) PROVE ProvidentInv'
  <2>1. PICK interest \in Nat : interest = Percent(pfAccount.balance, InterestPct)
    BY <1>0, PercentNat, ProvidentAssumption
  <2>2. PICK r : r = [op |-> "interest", row |-> "account", balance |-> pfAccount.balance,
                      credits |-> <<interest>>, stale |-> FALSE]
    OBVIOUS
  <2>3. r \in PfCredits /\ r.op = "interest" /\ r.balance = pfAccount.balance
    <3>1. <<interest>> \in Seq(Nat) \ {<<>>}
      OBVIOUS
    <3>2. pfAccount.balance \in Nat
      BY <1>0
    <3>3. QED
      BY <2>2, <3>1, <3>2 DEF PfCredits
  <2>4. /\ pfReq' = [pfReq EXCEPT ![c] = r] /\ r \in PfRequests
        /\ UNCHANGED <<pfAccount, pfTxns, pfLock, pfOvertaken, pfLockLost>>
        /\ pfReq[c].op = "locked"
    BY <1>6, <2>1, <2>2, <2>3 DEF ReadPfAccounts, PfRequests
  <2>5. PfKnown(c, r)'
    BY <1>0, <2>3, <2>4 DEF PfKnown
  <2>6. \A d \in Clients : d # c /\ pfReq[d].op \in {"locked", "interest"} => pfLock' = d \/ pfLockLost
    BY <1>0, <2>4 DEF PfKnown
  <2>7. QED
    BY <1>0, <2>4, <2>5, <2>6, NoCredit
<1>7. ASSUME NEW c \in Clients, EndPfRequest(c) \/ CrashPfRequest(c) PROVE ProvidentInv'
  <2>1. /\ pfReq' = [pfReq EXCEPT ![c] = Idle] /\ Idle \in PfRequests
        /\ UNCHANGED <<pfAccount, pfTxns, pfOvertaken, pfLockLost>>
        /\ pfLock' = pfLock \/ (pfReq[c].op \in {"locked", "interest"} /\ pfLock' = NoRow)
    BY <1>7 DEF EndPfRequest, CrashPfRequest, PfRequests
  <2>2. PfKnown(c, Idle)'
    BY DEF PfKnown, Idle
  <2>3. \A d \in Clients : d # c /\ pfReq[d].op \in {"locked", "interest"} => pfLock' = d \/ pfLockLost
    BY <1>0, <2>1, OthersLost DEF PfKnown
  <2>4. QED
    BY <1>0, <2>1, <2>2, <2>3, NoCredit
<1>8. ASSUME NEW c \in Clients, CommitCredits(c) PROVE ProvidentInv'
  <2>1. PICK r : r = pfReq[c]
    OBVIOUS
  <2>2. r.op \in {"contribute", "interest"}
    BY <1>8, <2>1 DEF CommitCredits
  <2>3. r \in PfCredits
    BY <1>0, <2>1, <2>2 DEF PfRequests, PfLocked, Idle
  <2>4. PICK credits \in Seq(Nat) : credits = r.credits /\ credits # <<>>
    BY <2>3 DEF PfCredits
  <2>5. PICK n \in Nat : n = Len(credits) /\ n # 0 /\ DOMAIN credits = 1..n
    BY <2>4
  <2>6. PICK m \in Nat : m = Len(pfTxns)
    BY <1>0
  <2>7. PICK b \in Nat : b = Credited(r)
    BY <2>3, CreditedNat
  <2>8. PICK new : new = [k \in 1..n |-> [amount |-> credits[k], after |-> b]]
    OBVIOUS
  <2>9. /\ m + n <= MaxPfTxns /\ pfTxns' = pfTxns \o new
        /\ pfAccount' = [pfAccount EXCEPT !.balance = b]
        /\ pfLock' = IF r.op = "interest" THEN NoRow ELSE pfLock
        /\ pfReq' = Overtake(pfReq, c, Idle, LAMBDA d : pfReq[d].op \in {"contribute", "interest"})
        /\ pfOvertaken' = (pfOvertaken \/ r.stale)
        /\ pfLockLost' = pfLockLost
    BY <1>8, <2>1, <2>4, <2>5, <2>6, <2>7, <2>8 DEF CommitCredits, StoredBalance
  <2>10. new \in Seq([amount : Nat, after : Nat]) /\ Len(new) = n
    BY <2>4, <2>5, <2>7, <2>8
  <2>11. /\ pfTxns' \in Seq([amount : Nat, after : Nat]) /\ Len(pfTxns') = m + n
         /\ \A k \in 1..m : pfTxns'[k] = pfTxns[k]
         /\ \A k \in 1..n : pfTxns'[m + k] = new[k]
    <3>1. PICK T : T = [amount : Nat, after : Nat]
      OBVIOUS
    <3>2. PICK old \in Seq(T) : old = pfTxns /\ Len(old) = m
      BY <1>0, <2>6, <3>1
    <3>3. new \in Seq(T) /\ Len(new) = n
      BY <2>10, <3>1
    <3>4. PICK all : all = old \o new
      OBVIOUS
    <3>5. /\ all \in Seq(T) /\ Len(all) = m + n
          /\ \A k \in 1..m : all[k] = old[k]
          /\ \A k \in 1..n : all[m + k] = new[k]
      <4>1. old \in Seq(T) /\ new \in Seq(T)
        BY <3>2, <3>3
      <4>2. /\ old \o new \in Seq(T) /\ Len(old \o new) = Len(old) + Len(new)
            /\ \A k \in 1..Len(old) : (old \o new)[k] = old[k]
            /\ \A k \in 1..Len(new) : (old \o new)[Len(old) + k] = new[k]
        BY ONLY <4>1, AppendedSeq
      <4>3. Len(old) = m /\ Len(new) = n
        BY <3>2, <3>3
      <4>4. QED
        BY ONLY <3>4, <4>2, <4>3
    <3>6. pfTxns' = all
      BY <2>9, <3>2, <3>4
    <3>7. QED
      BY <3>1, <3>2, <3>5, <3>6
  <2>12. /\ pfReq' \in [Clients -> PfRequests] /\ pfReq'[c] = Idle
         /\ \A d \in Clients : d # c =>
              /\ pfReq'[d].op = pfReq[d].op
              /\ pfReq'[d].op \in {"contribute", "interest"} => pfReq'[d].stale
    BY <2>9, CreditOvertakes
  <2>13. pfAccount' \in [enrolled : BOOLEAN, balance : Nat] /\ pfAccount'.balance = b
    BY <1>0, <2>7, <2>9
  <2>14. ProvidentTypeOK'
    <3>1. pfOvertaken' \in BOOLEAN
      BY <1>0, <2>3, <2>9 DEF PfCredits
    <3>2. \A d \in Clients : pfReq'[d] # Idle => pfReq'[d].op \in {"contribute", "locked", "interest"}
      BY <2>12, PfOps
    <3>3. pfLock' \in Clients \cup {NoRow} /\ pfLockLost' \in BOOLEAN
      BY <1>0, <2>9
    <3>4. Len(pfTxns') <= MaxPfTxns
      BY <2>9, <2>11
    <3>5. QED
      BY <2>11, <2>13, <3>1, <3>2, <3>3, <3>4 DEF ProvidentTypeOK
  <2>15. ASSUME NEW d \in Clients PROVE PfKnown(d, pfReq[d])'
    <3>1. CASE d = c
      BY <2>12, <3>1 DEF PfKnown, Idle
    <3>2. CASE d # c
      <4>1. pfReq'[d].op = pfReq[d].op
            /\ (pfReq'[d].op \in {"contribute", "interest"} => pfReq'[d].stale)
        BY <2>12, <3>2
      <4>2. pfReq[d].op \in {"locked", "interest"} => pfLock' = d \/ pfLockLost
        BY <1>0, <2>1, <2>9, <3>2, OthersLost DEF PfKnown
      <4>3. QED
        BY <2>9, <4>1, <4>2 DEF PfKnown
    <3>3. QED
      BY <3>1, <3>2
  <2>16. BalanceIsCredits'
    <3>1. CASE pfOvertaken \/ r.stale
      BY <2>9, <3>1 DEF BalanceIsCredits
    <3>2. CASE ~ pfOvertaken /\ ~ r.stale
      <4>1. PICK w : w = [k \in DOMAIN pfTxns |-> pfTxns[k].amount]
        OBVIOUS
      <4>2. PICK v : v = [k \in DOMAIN pfTxns' |-> pfTxns'[k].amount]
        OBVIOUS
      <4>3. DOMAIN pfTxns = 1..m /\ DOMAIN pfTxns' = 1..(m + n)
        BY <1>0, <2>6, <2>11
      <4>4. pfAccount.balance = SumFunctionOnSet(w, 1..m)
        BY <1>0, <3>2, <4>1, <4>3 DEF BalanceIsCredits
      <4>5. \A k \in 1..(m + n) : v[k] \in Int
        <5>1. \A k \in 1..(m + n) : pfTxns'[k] \in [amount : Nat, after : Nat]
          <6>1. PICK T : T = [amount : Nat, after : Nat]
            OBVIOUS
          <6>2. pfTxns' \in Seq(T) /\ Len(pfTxns') = m + n
            BY <2>11, <6>1
          <6>3. \A k \in 1..(m + n) : pfTxns'[k] \in T
            BY <6>2
          <6>4. QED
            BY <6>1, <6>3
        <5>2. QED
          BY <4>2, <4>3, <5>1
      <4>6. \A k \in 1..n : credits[k] = v[m + k]
        <5>1. ASSUME NEW k \in 1..n PROVE credits[k] = v[m + k]
          <6>1. m + k \in 1..(m + n)
            OBVIOUS
          <6>2. v[m + k] = pfTxns'[m + k].amount
            BY <4>2, <4>3, <6>1
          <6>3. pfTxns'[m + k] = new[k]
            BY ONLY <2>11
          <6>4. new[k].amount = credits[k]
            BY <2>8
          <6>5. QED
            BY ONLY <6>2, <6>3, <6>4
        <5>2. QED
          BY <5>1
      <4>7. SumFunctionOnSet(v, 1..(m + n)) = SumFunctionOnSet(v, 1..m) + SumFunctionOnSet(credits, 1..n)
        BY <4>5, <4>6, SumAppend
      <4>8. \A k \in 1..m : w[k] \in Int /\ v[k] = w[k]
        <5>1. ASSUME NEW k \in 1..m PROVE w[k] \in Int /\ v[k] = w[k]
          <6>1. k \in 1..(m + n)
            OBVIOUS
          <6>2. v[k] = pfTxns'[k].amount /\ w[k] = pfTxns[k].amount
            BY <4>1, <4>2, <4>3, <6>1
          <6>3. QED
            BY <2>11, <4>5, <6>1, <6>2
        <5>2. QED
          BY <5>1
      <4>9. SumFunctionOnSet(v, 1..m) = SumFunctionOnSet(w, 1..m)
        <5>1. IsFiniteSet(1..m)
          BY FS_Interval
        <5>2. QED
          BY <4>8, <5>1, SumSame
      <4>10. r.balance = pfAccount.balance
        BY <1>0, <2>1, <2>2, <3>2 DEF PfKnown
      <4>11. b = pfAccount.balance + SumFunctionOnSet(credits, 1..n)
        BY <2>3, <2>4, <2>5, <2>7, <4>10, CreditedNat
      <4>12. pfAccount'.balance = SumFunctionOnSet(v, DOMAIN pfTxns')
        BY <2>13, <4>3, <4>4, <4>7, <4>9, <4>11
      <4>13. pfTxns'[Len(pfTxns')].after = b
        <5>1. n \in 1..n
          BY <2>5
        <5>2. pfTxns'[m + n] = new[n] /\ new[n].after = b
          BY <2>8, <2>11, <5>1
        <5>3. QED
          BY <2>11, <5>2
      <4>14. QED
        BY <2>13, <4>2, <4>12, <4>13 DEF BalanceIsCredits
    <3>3. QED
      BY <3>1, <3>2
  <2>17. QED
    BY <2>12, <2>14, <2>15, <2>16 DEF ProvidentInv
<1>9. QED
  BY <1>1, <1>2, <1>3, <1>4, <1>5, <1>6, <1>7, <1>8 DEF ProvidentNext

(*************************************************************************)
(* Gratuity.                                                             *)
(* What was charged and what is still to be posted is never more than the *)
(* latest provision, which is the highest.                               *)
(*************************************************************************)

\* The greatest element of a set.
LEMMA MaxOf ==
  ASSUME NEW S, S \subseteq Nat, IsFiniteSet(S), S # {}
  PROVE  Max(S) \in S /\ \A y \in S : y <= Max(S)
<1>1. PICK m \in S : \A y \in S : y <= m
  <2>1. S \subseteq Int
    OBVIOUS
  <2>2. QED
    BY <2>1, LargestExists
<1>2. m >= m /\ \A y \in S : m >= y
  BY <1>1
<1>3. QED
  BY <1>2 DEF Max

\* The greater of two numbers.
LEMMA MaxOfTwo ==
  ASSUME NEW a \in Int, NEW b \in Int
  PROVE  Max({a, b}) = IF a >= b THEN a ELSE b
<1>1. PICK m : m = IF a >= b THEN a ELSE b
  OBVIOUS
<1>2. m \in {a, b} /\ \A y \in {a, b} : m >= y
  BY <1>1
<1>3. \A x \in {a, b} : (\A y \in {a, b} : x >= y) => x = m
  BY <1>1
<1>4. QED
  BY <1>1, <1>2, <1>3 DEF Max

\* The provision of the latest date there is one for.
LatestIn(p) ==
  LET stored == {x \in AsOfDates : p[x].stored}
  IN IF stored = {} THEN 0 ELSE p[Max(stored)].cumulative

\* Requests of accrueMonth.
GratuityCalls ==
  [op : {"store", "post", "link"}, row : AsOfDates, cumulative : Nat, charge : Nat, stale : BOOLEAN]

\* What the ledger is still to be charged by each request.
Charging == [c \in Clients |-> IF gratuityReq[c].op = "post" THEN gratuityReq[c].charge ELSE 0]

\* A request that was not overtaken has the difference to the latest provision.
ChargeKnown(r) ==
  r.op = "store" /\ ~ r.stale
    => r.charge = IF r.cumulative >= LatestIn(provision) THEN r.cumulative - LatestIn(provision) ELSE 0

\* Unless disturbed the latest provision is the highest, and what was charged and is still
\* to be charged is no more.
ChargesInOrder ==
  \/ gratuityHistory.disturbed
  \/ /\ LatestIn(provision) = gratuityHistory.highest
     /\ SumFunctionOnSet(gratuityPosted, AsOfDates) + SumFunctionOnSet(Charging, Clients)
          <= gratuityHistory.highest

\* The invariant.
GratuityInv ==
  /\ GratuityTypeOK
  /\ \A c \in Clients : ChargeKnown(gratuityReq[c])
  /\ ChargesInOrder

\* Dates are numbers, and there are finitely many.
LEMMA DatesNat == IsFiniteSet(AsOfDates) /\ \A x \in AsOfDates : x \in Nat
BY GratuityAssumption

\* The provision of a date before there is one.
LEMMA NoProvisionTyped == NoProvision.stored = FALSE /\ NoProvision.cumulative = 0 /\
  NoProvision \in [stored : BOOLEAN, cumulative : Nat, charge : Nat, linked : BOOLEAN]
BY DEF NoProvision

\* What the latest provision comes to.
LEMMA LatestProvision ==
  ASSUME NEW p, \A x \in AsOfDates : p[x].stored \in BOOLEAN /\ p[x].cumulative \in Nat
  PROVE  /\ LatestIn(p) \in Nat
         /\ (\A x \in AsOfDates : ~ p[x].stored) => LatestIn(p) = 0
         /\ \A x \in AsOfDates :
              p[x].stored /\ (\A y \in AsOfDates : p[y].stored => y <= x) => LatestIn(p) = p[x].cumulative
         /\ (\E x \in AsOfDates : p[x].stored) =>
              \E x \in AsOfDates : p[x].stored /\ \A y \in AsOfDates : p[y].stored => y <= x
<1>1. PICK P : P = {x \in AsOfDates : p[x].stored}
  OBVIOUS
<1>2. P \subseteq AsOfDates /\ IsFiniteSet(P) /\ P \subseteq Nat
  BY <1>1, GratuityAssumption, FS_Subset
<1>3. LatestIn(p) = IF P = {} THEN 0 ELSE p[Max(P)].cumulative
  BY <1>1 DEF LatestIn
<1>4. P # {} => Max(P) \in P /\ \A y \in P : y <= Max(P)
  BY <1>2, MaxOf
<1>5. LatestIn(p) \in Nat
  <2>1. P # {} => Max(P) \in AsOfDates
    BY <1>2, <1>4
  <2>2. QED
    BY <1>3, <2>1
<1>6. ASSUME \A x \in AsOfDates : ~ p[x].stored PROVE LatestIn(p) = 0
  <2>1. P = {}
    BY <1>1, <1>6
  <2>2. QED
    BY <1>3, <2>1
<1>7. ASSUME NEW x \in AsOfDates, p[x].stored, \A y \in AsOfDates : p[y].stored => y <= x
      PROVE  LatestIn(p) = p[x].cumulative
  <2>1. x \in P /\ \A y \in P : y <= x
    BY <1>1, <1>7
  <2>2. Max(P) \in P /\ x <= Max(P) /\ Max(P) <= x
    BY <1>4, <2>1
  <2>3. Max(P) \in Nat /\ x \in Nat
    BY <1>2, <2>1, <2>2
  <2>4. Max(P) = x
    BY <2>2, <2>3
  <2>5. QED
    BY <1>3, <2>1, <2>4
<1>8. ASSUME NEW x \in AsOfDates, p[x].stored
      PROVE \E z \in AsOfDates : p[z].stored /\ \A y \in AsOfDates : p[y].stored => y <= z
  <2>1. P # {}
    BY <1>1, <1>8
  <2>2. Max(P) \in AsOfDates /\ p[Max(P)].stored
    BY <1>1, <1>4, <2>1
  <2>3. \A y \in AsOfDates : p[y].stored => y <= Max(P)
    BY <1>1, <1>4, <2>1
  <2>4. QED
    BY <2>2, <2>3
<1>9. QED
  BY <1>5, <1>6, <1>7, <1>8

\* Provisions whose dates and amounts are the same have one latest.
LEMMA SameLatest ==
  ASSUME NEW p, NEW o, \A x \in AsOfDates : p[x].stored \in BOOLEAN /\ p[x].cumulative \in Nat,
         \A x \in AsOfDates : o[x].stored = p[x].stored /\ o[x].cumulative = p[x].cumulative
  PROVE  LatestIn(o) = LatestIn(p)
<1>1. \A x \in AsOfDates : o[x].stored \in BOOLEAN /\ o[x].cumulative \in Nat
  OBVIOUS
<1>2. CASE \A x \in AsOfDates : ~ p[x].stored
  BY <1>1, <1>2, LatestProvision
<1>3. CASE \E x \in AsOfDates : p[x].stored
  <2>1. PICK x \in AsOfDates : p[x].stored /\ \A y \in AsOfDates : p[y].stored => y <= x
    BY <1>3, LatestProvision
  <2>2. LatestIn(p) = p[x].cumulative /\ LatestIn(o) = o[x].cumulative
    BY <1>1, <2>1, LatestProvision
  <2>3. QED
    BY <2>2
<1>4. QED
  BY <1>2, <1>3

\* A run of any date looks at the latest.
LEMMA PreviousIsLatest == ASSUME NEW d PROVE PreviousCumulative(d) = LatestIn(provision)
BY DEF PreviousCumulative, Previous, LatestIn

\* The charges under way are numbers.
LEMMA ChargingNat ==
  ASSUME GratuityTypeOK
  PROVE  \A c \in Clients : Charging[c] \in Nat
<1>1. SUFFICES ASSUME NEW c \in Clients PROVE Charging[c] \in Nat
  OBVIOUS
<1>2. gratuityReq[c] \in {Idle} \cup GratuityCalls
  BY DEF GratuityTypeOK, GratuityCalls
<1>3. gratuityReq[c].op = "post" => gratuityReq[c].charge \in Nat
  BY <1>2 DEF Idle, GratuityCalls
<1>4. QED
  BY <1>3 DEF Charging

\* The sums that ChargesInOrder compares.
LEMMA ChargesTyped ==
  ASSUME GratuityTypeOK
  PROVE  SumFunctionOnSet(gratuityPosted, AsOfDates) \in Nat /\ SumFunctionOnSet(Charging, Clients) \in Nat
<1>1. SumFunctionOnSet(gratuityPosted, AsOfDates) \in Nat
  BY GratuityAssumption, SumNat DEF GratuityTypeOK
<1>2. PICK w : w = Charging
  OBVIOUS
<1>3. \A c \in Clients : w[c] \in Nat
  BY <1>2, ChargingNat
<1>4. SumFunctionOnSet(w, Clients) \in Nat
  BY <1>3, RequestsAssumption, SumNat
<1>5. QED
  BY <1>1, <1>2, <1>4

\* What is to be charged when one request changes.
LEMMA ChargingChanges ==
  ASSUME GratuityTypeOK, NEW c \in Clients,
         \A d \in Clients \ {c} : Charging'[d] = Charging[d], Charging'[c] \in Int
  PROVE  SumFunctionOnSet(Charging, Clients)' = SumFunctionOnSet(Charging, Clients) - Charging[c] + Charging'[c]
<1>1. PICK w, v : w = Charging /\ v = Charging'
  OBVIOUS
<1>2. \A d \in Clients : w[d] \in Int
  BY <1>1, ChargingNat
<1>3. v[c] \in Int /\ \A d \in Clients \ {c} : v[d] = w[d]
  BY <1>1
<1>4. SumFunctionOnSet(v, Clients) = SumFunctionOnSet(w, Clients) - w[c] + v[c]
  BY <1>2, <1>3, RequestsAssumption, SumChange
<1>5. QED
  BY <1>1, <1>4

\* The invariant holds at the start.
LEMMA GratuityStart == GratuityInit => GratuityInv
<1>1. SUFFICES ASSUME GratuityInit PROVE GratuityInv
  OBVIOUS
<1>2. \A d \in AsOfDates : provision[d] = NoProvision
  BY <1>1 DEF GratuityInit
<1>3. \A c \in Clients : gratuityReq[c] = Idle
  BY <1>1 DEF GratuityInit
<1>4. GratuityTypeOK
  BY <1>1, NoProvisionTyped DEF GratuityInit, GratuityTypeOK
<1>5. LatestIn(provision) = 0
  BY <1>2, LatestProvision, NoProvisionTyped
<1>6. SumFunctionOnSet(gratuityPosted, AsOfDates) <= 0 * Cardinality(AsOfDates)
  <2>1. \A d \in AsOfDates : gratuityPosted[d] \in 0..0
    BY <1>1 DEF GratuityInit
  <2>2. QED
    BY <2>1, GratuityAssumption, SumAtMost
<1>7. SumFunctionOnSet(Charging, Clients) <= 0 * Cardinality(Clients)
  <2>1. PICK w : w = Charging
    OBVIOUS
  <2>2. \A c \in Clients : w[c] \in 0..0
    BY <1>3, <2>1 DEF Charging, Idle
  <2>3. SumFunctionOnSet(w, Clients) <= 0 * Cardinality(Clients)
    BY <2>2, RequestsAssumption, SumAtMost
  <2>4. QED
    BY <2>1, <2>3
<1>8. Cardinality(AsOfDates) \in Nat /\ Cardinality(Clients) \in Nat
  BY GratuityAssumption, RequestsAssumption, FS_CardinalityType
<1>9. gratuityHistory.highest = 0
  BY <1>1 DEF GratuityInit
<1>10. ChargesInOrder
  BY <1>5, <1>6, <1>7, <1>8, <1>9, <1>4, ChargesTyped DEF ChargesInOrder
<1>11. QED
  BY <1>3, <1>4, <1>10 DEF GratuityInv, ChargeKnown, Idle

\* Steps that change neither a provision nor what was charged, nor what is still to be.
LEMMA ChargesStay ==
  ASSUME GratuityInv, GratuityTypeOK', gratuityHistory' = gratuityHistory, gratuityPosted' = gratuityPosted,
         LatestIn(provision)' = LatestIn(provision),
         \A d \in Clients : Charging'[d] = Charging[d] \/ Charging'[d] = 0
  PROVE  ChargesInOrder'
<1>1. PICK w, v : w = Charging /\ v = Charging'
  OBVIOUS
<1>2. \A d \in Clients : w[d] \in Nat
  BY <1>1, ChargingNat DEF GratuityInv
<1>3. \A d \in Clients : v[d] \in Nat /\ v[d] <= w[d]
  BY <1>1, <1>2
<1>4. SumFunctionOnSet(v, Clients) <= SumFunctionOnSet(w, Clients)
  BY <1>2, <1>3, RequestsAssumption, SumMonotone
<1>5. SumFunctionOnSet(v, Clients) \in Nat
  BY <1>3, RequestsAssumption, SumNat
<1>6. SumFunctionOnSet(w, Clients) \in Nat /\ SumFunctionOnSet(gratuityPosted, AsOfDates) \in Nat
  BY <1>1, ChargesTyped DEF GratuityInv
<1>7. gratuityHistory.highest \in Nat
  BY DEF GratuityInv, GratuityTypeOK
<1>8. QED
  BY <1>1, <1>4, <1>5, <1>6, <1>7 DEF GratuityInv, ChargesInOrder

\* Every step preserves the invariant.
LEMMA GratuityStep == ASSUME GratuityInv, [GratuityNext]_gratuityVars PROVE GratuityInv'
<1>0. /\ gratuityReq \in [Clients -> {Idle} \cup GratuityCalls]
      /\ GratuityTypeOK /\ \A d \in Clients : ChargeKnown(gratuityReq[d])
  BY DEF GratuityInv, GratuityTypeOK, GratuityCalls
<1>1. /\ provision \in [AsOfDates -> [stored : BOOLEAN, cumulative : Nat, charge : Nat, linked : BOOLEAN]]
      /\ gratuityPosted \in [AsOfDates -> Nat] /\ gratuityPeriod \in BOOLEAN
      /\ gratuityHistory \in [highest : Nat, disturbed : BOOLEAN]
  BY <1>0 DEF GratuityTypeOK
<1>2. LatestIn(provision) \in Nat
  BY <1>1, LatestProvision
<1>3. CASE UNCHANGED gratuityVars
  <2>1. GratuityTypeOK'
    BY <1>0, <1>3 DEF GratuityTypeOK, gratuityVars
  <2>2. Charging' = Charging /\ LatestIn(provision)' = LatestIn(provision)
    BY <1>3 DEF Charging, gratuityVars
  <2>3. ChargesInOrder'
    BY <1>3, <2>1, <2>2, ChargesStay DEF gratuityVars
  <2>4. QED
    BY <1>0, <1>3, <2>1, <2>3 DEF GratuityInv, ChargeKnown, gratuityVars
<1>4. CASE ChangeGratuityPeriod
  <2>1. gratuityPeriod' = ~gratuityPeriod /\ UNCHANGED <<provision, gratuityPosted, gratuityReq, gratuityHistory>>
    BY <1>4 DEF ChangeGratuityPeriod
  <2>2. GratuityTypeOK'
    BY <1>0, <2>1 DEF GratuityTypeOK
  <2>3. Charging' = Charging /\ LatestIn(provision)' = LatestIn(provision)
    BY <2>1 DEF Charging
  <2>4. ChargesInOrder'
    BY <2>1, <2>2, <2>3, ChargesStay
  <2>5. QED
    BY <1>0, <2>1, <2>2, <2>4 DEF GratuityInv, ChargeKnown
<1>5. ASSUME NEW c \in Clients, ReadProvision(c) PROVE GratuityInv'
  <2>0. PICK date \in AsOfDates : \E cumulative \in Entitlements[date] :
          gratuityReq' = [gratuityReq EXCEPT ![c] =
            [op |-> "store", row |-> date, cumulative |-> cumulative,
             charge |-> Max({cumulative - PreviousCumulative(date), 0}), stale |-> FALSE]]
    BY <1>5 DEF ReadProvision
  <2>1. PICK cumulative \in Entitlements[date] :
          gratuityReq' = [gratuityReq EXCEPT ![c] =
            [op |-> "store", row |-> date, cumulative |-> cumulative,
             charge |-> Max({cumulative - PreviousCumulative(date), 0}), stale |-> FALSE]]
    BY <2>0
  <2> DEFINE charge == Max({cumulative - PreviousCumulative(date), 0})
  <2>2. gratuityReq[c] = Idle /\ UNCHANGED <<provision, gratuityPosted, gratuityPeriod, gratuityHistory>>
    BY <1>5 DEF ReadProvision
  <2>3. cumulative \in Nat
    BY <2>0, <2>1, GratuityAssumption
  <2>4. PreviousCumulative(date) = LatestIn(provision)
    BY PreviousIsLatest
  <2>5. charge = IF cumulative >= LatestIn(provision) THEN cumulative - LatestIn(provision) ELSE 0
    BY <1>2, <2>1, <2>3, <2>4, MaxOfTwo
  <2>6. charge \in Nat
    BY <1>2, <2>3, <2>5
  <2>50. gratuityReq' = [gratuityReq EXCEPT ![c] =
           [op |-> "store", row |-> date, cumulative |-> cumulative, charge |-> charge, stale |-> FALSE]]
    BY <2>1
  <2> HIDE DEF charge
  <2>7. PICK n : n = [op |-> "store", row |-> date, cumulative |-> cumulative, charge |-> charge, stale |-> FALSE]
    OBVIOUS
  <2>8. n \in GratuityCalls /\ n.op = "store" /\ n.charge = charge /\ n.cumulative = cumulative
    BY <2>0, <2>3, <2>6, <2>7 DEF GratuityCalls
  <2>9. \A d \in Clients : gratuityReq'[d] = IF d = c THEN n ELSE gratuityReq[d]
    BY <1>0, <2>50, <2>7
  <2>10. gratuityReq' \in [Clients -> {Idle} \cup GratuityCalls]
    BY <1>0, <2>50, <2>7, <2>8
  <2>11. GratuityTypeOK'
    BY <1>1, <2>2, <2>10 DEF GratuityTypeOK, GratuityCalls
  <2>12. LatestIn(provision)' = LatestIn(provision)
    BY <2>2
  <2>13. \A d \in Clients : ChargeKnown(gratuityReq[d])'
    BY <1>0, <2>2, <2>5, <2>8, <2>9 DEF ChargeKnown
  <2>14. \A d \in Clients : Charging'[d] = Charging[d] \/ Charging'[d] = 0
    BY <2>8, <2>9 DEF Charging
  <2>15. ChargesInOrder'
    BY <2>2, <2>11, <2>12, <2>14, ChargesStay
  <2>16. QED
    BY <2>11, <2>13, <2>15 DEF GratuityInv
<1>6. ASSUME NEW c \in Clients, StoreProvision(c) PROVE GratuityInv'
  <2>1. PICK q : q = gratuityReq[c]
    OBVIOUS
  <2>2. PICK o : o = [q EXCEPT !.op = "post"]
    OBVIOUS
  <2>3. PICK n : n = IF q.charge > 0 THEN o ELSE Idle
    OBVIOUS
  <2>4. /\ q.op = "store"
        /\ provision' = [provision EXCEPT ![q.row] =
             [@ EXCEPT !.stored = TRUE, !.cumulative = q.cumulative, !.charge = q.charge]]
        /\ gratuityReq' = Overtake(gratuityReq, c, n, LAMBDA d : gratuityReq[d].op = "store")
        /\ gratuityHistory' = [highest |-> Max({gratuityHistory.highest, q.cumulative}),
                               disturbed |-> gratuityHistory.disturbed \/ Disturbing(q)]
        /\ UNCHANGED <<gratuityPosted, gratuityPeriod>>
    BY <1>6, <2>1, <2>2, <2>3 DEF StoreProvision
  <2>5. q \in GratuityCalls /\ q # Idle /\ ChargeKnown(q)
    BY <1>0, <2>1, <2>4 DEF Idle, GratuityCalls
  <2>6. q.row \in AsOfDates /\ q.cumulative \in Nat /\ q.charge \in Nat /\ q.stale \in BOOLEAN
    BY <2>5 DEF GratuityCalls
  <2>7. o \in GratuityCalls /\ o.op = "post" /\ o.charge = q.charge
    BY <2>2, <2>5 DEF GratuityCalls
  <2>8. n \in {Idle} \cup GratuityCalls /\ n.op # "store"
    BY <2>3, <2>7 DEF Idle
  <2>9. (IF n.op = "post" THEN n.charge ELSE 0) = q.charge
    BY <2>3, <2>6, <2>7 DEF Idle
  <2>10. /\ gratuityReq' = [d \in Clients |-> gratuityReq'[d]]
         /\ gratuityReq'[c] = n
         /\ \A d \in Clients \ {c} :
              gratuityReq'[d] = IF gratuityReq[d] # Idle /\ gratuityReq[d].op = "store"
                                THEN [gratuityReq[d] EXCEPT !.stale = TRUE] ELSE gratuityReq[d]
    BY <2>4 DEF Overtake
  <2>11. ASSUME NEW d \in Clients \ {c}
         PROVE  /\ gratuityReq'[d] \in {Idle} \cup GratuityCalls
                /\ IF gratuityReq[d].op = "store"
                   THEN gratuityReq'[d].op = "store" /\ gratuityReq'[d].stale
                   ELSE gratuityReq'[d] = gratuityReq[d]
    <3>1. PICK p \in {Idle} \cup GratuityCalls : p = gratuityReq[d]
      BY <1>0
    <3>2. CASE p.op = "store"
      <4>1. p \in GratuityCalls /\ p # Idle
        BY <3>1, <3>2 DEF Idle, GratuityCalls
      <4>2. PICK u : u = [p EXCEPT !.stale = TRUE]
        OBVIOUS
      <4>3. u \in GratuityCalls /\ u.op = "store" /\ u.stale
        BY <3>2, <4>1, <4>2 DEF GratuityCalls
      <4>4. gratuityReq'[d] = u
        BY <2>10, <3>1, <3>2, <4>1, <4>2
      <4>5. QED
        BY <3>1, <3>2, <4>3, <4>4
    <3>3. CASE p.op # "store"
      BY <2>10, <3>1, <3>3
    <3>4. QED
      BY <3>2, <3>3
  <2>12. gratuityReq' \in [Clients -> {Idle} \cup GratuityCalls]
    <3>1. \A d \in Clients : gratuityReq'[d] \in {Idle} \cup GratuityCalls
      BY <2>8, <2>10, <2>11
    <3>2. QED
      BY <2>10, <3>1
  <2>13. PICK w : w = [provision[q.row] EXCEPT !.stored = TRUE, !.cumulative = q.cumulative, !.charge = q.charge]
    OBVIOUS
  <2>14. /\ w \in [stored : BOOLEAN, cumulative : Nat, charge : Nat, linked : BOOLEAN]
         /\ w.stored = TRUE /\ w.cumulative = q.cumulative
    <3>1. PICK v \in [stored : BOOLEAN, cumulative : Nat, charge : Nat, linked : BOOLEAN] : v = provision[q.row]
      BY <1>1, <2>6
    <3>2. QED
      BY <2>6, <2>13, <3>1
  <2>15. /\ provision' \in [AsOfDates -> [stored : BOOLEAN, cumulative : Nat, charge : Nat, linked : BOOLEAN]]
         /\ provision'[q.row] = w /\ \A x \in AsOfDates : x # q.row => provision'[x] = provision[x]
    BY <1>1, <2>4, <2>6, <2>13, <2>14
  <2>16. /\ gratuityHistory'.highest
              = IF gratuityHistory.highest >= q.cumulative THEN gratuityHistory.highest ELSE q.cumulative
         /\ gratuityHistory'.disturbed <=> gratuityHistory.disturbed \/ Disturbing(q)
         /\ gratuityHistory' \in [highest : Nat, disturbed : BOOLEAN]
    <3>1. Max({gratuityHistory.highest, q.cumulative})
            = IF gratuityHistory.highest >= q.cumulative THEN gratuityHistory.highest ELSE q.cumulative
      BY <1>1, <2>6, MaxOfTwo
    <3>2. PICK m \in Nat : m = Max({gratuityHistory.highest, q.cumulative})
      BY <1>1, <2>6, <3>1
    <3>3. PICK b \in BOOLEAN : b <=> gratuityHistory.disturbed \/ Disturbing(q)
      OBVIOUS
    <3>4. gratuityHistory' = [highest |-> m, disturbed |-> b]
      <4>1. (gratuityHistory.disturbed \/ Disturbing(q)) = b
        BY <3>3, Zenon
      <4>2. QED
        BY <2>4, <3>2, <4>1
    <3>5. QED
      BY <3>1, <3>2, <3>3, <3>4
  <2>17. GratuityTypeOK'
    BY <1>1, <2>4, <2>12, <2>15, <2>16 DEF GratuityTypeOK, GratuityCalls
  <2>18. \A d \in Clients : ChargeKnown(gratuityReq[d])'
    BY <1>0, <2>8, <2>10, <2>11 DEF ChargeKnown
  <2>19. ASSUME ~ gratuityHistory'.disturbed PROVE ChargesInOrder'
    <3>1. /\ ~ gratuityHistory.disturbed /\ ~ q.stale /\ q.cumulative >= gratuityHistory.highest
          /\ \A x \in AsOfDates : x > q.row /\ provision[x].stored => provision[x].cumulative >= q.cumulative
      BY <1>1, <2>6, <2>16, <2>19 DEF Disturbing
    <3>2. /\ LatestIn(provision) = gratuityHistory.highest
          /\ SumFunctionOnSet(gratuityPosted, AsOfDates) + SumFunctionOnSet(Charging, Clients)
               <= gratuityHistory.highest
      BY <3>1 DEF GratuityInv, ChargesInOrder
    <3>3. q.charge = q.cumulative - gratuityHistory.highest
      BY <2>4, <2>5, <2>6, <3>1, <3>2 DEF ChargeKnown
    <3>4. gratuityHistory'.highest = q.cumulative
      BY <1>1, <2>6, <2>16, <3>1
    <3>5. LatestIn(provision') = q.cumulative
      <4>1. \A x \in AsOfDates : provision[x].stored \in BOOLEAN /\ provision[x].cumulative \in Nat
        BY <1>1
      <4>2. \A x \in AsOfDates : provision'[x].stored \in BOOLEAN /\ provision'[x].cumulative \in Nat
        BY <2>15
      <4>3. CASE \A x \in AsOfDates : provision[x].stored => x <= q.row
        <5>1. q.row <= q.row
          <6>1. q.row \in Nat
            BY <2>6, DatesNat
          <6>2. QED
            BY <6>1
        <5>2. provision'[q.row].stored /\ \A y \in AsOfDates : provision'[y].stored => y <= q.row
          BY <2>6, <2>14, <2>15, <4>3, <5>1
        <5>3. QED
          BY <2>6, <2>14, <2>15, <4>2, <5>2, LatestProvision
      <4>4. CASE \E x \in AsOfDates : provision[x].stored /\ ~ (x <= q.row)
        <5>1. PICK x \in AsOfDates : provision[x].stored /\ \A y \in AsOfDates : provision[y].stored => y <= x
          BY <4>1, <4>4, LatestProvision
        <5>2. LatestIn(provision) = provision[x].cumulative
          BY <4>1, <5>1, LatestProvision
        <5>3. PICK y \in AsOfDates : provision[y].stored /\ ~ (y <= q.row) /\ y <= x
          BY <4>4, <5>1
        <5>4. x > q.row /\ x # q.row
          <6>1. q.row \in Nat /\ x \in Nat /\ y \in Nat
            BY <2>6, <5>3, DatesNat
          <6>2. QED
            BY <5>3, <6>1
        <5>5. provision[x].cumulative = q.cumulative
          BY <1>1, <2>6, <3>1, <3>2, <5>1, <5>2, <5>4
        <5>6. provision'[x].stored /\ \A z \in AsOfDates : provision'[z].stored => z <= x
          <6>1. q.row <= x
            BY <2>6, <5>4, DatesNat
          <6>2. ASSUME NEW z \in AsOfDates, provision'[z].stored PROVE z <= x
            BY <2>15, <5>1, <6>1, <6>2
          <6>3. QED
            BY <2>15, <5>1, <5>4, <6>2
        <5>7. QED
          BY <2>15, <4>2, <5>4, <5>5, <5>6, LatestProvision
      <4>5. QED
        BY <4>3, <4>4
    <3>6. Charging[c] = 0 /\ Charging'[c] = q.charge
      BY <2>1, <2>4, <2>9, <2>10 DEF Charging
    <3>7. \A d \in Clients \ {c} : Charging'[d] = Charging[d]
      BY <2>11 DEF Charging
    <3>8. SumFunctionOnSet(Charging, Clients)' = SumFunctionOnSet(Charging, Clients) - Charging[c] + Charging'[c]
      BY <1>0, <2>6, <3>6, <3>7, ChargingChanges
    <3>9. SumFunctionOnSet(Charging, Clients) \in Nat /\ SumFunctionOnSet(gratuityPosted, AsOfDates) \in Nat
      BY <1>0, ChargesTyped
    <3>10. QED
      BY <1>1, <2>4, <2>6, <3>2, <3>3, <3>4, <3>5, <3>6, <3>8, <3>9 DEF ChargesInOrder
  <2>20. QED
    BY <2>17, <2>18, <2>19 DEF GratuityInv, ChargesInOrder
<1>7. ASSUME NEW c \in Clients, PostProvision(c) PROVE GratuityInv'
  <2>1. PICK q : q = gratuityReq[c]
    OBVIOUS
  <2>2. PICK n : n = [q EXCEPT !.op = "link"]
    OBVIOUS
  <2>3. /\ q.op = "post" /\ gratuityPosted' = [gratuityPosted EXCEPT ![q.row] = @ + q.charge]
        /\ gratuityReq' = [gratuityReq EXCEPT ![c].op = "link"]
        /\ UNCHANGED <<provision, gratuityPeriod, gratuityHistory>>
    BY <1>7, <2>1 DEF PostProvision
  <2>4. q \in GratuityCalls /\ q.row \in AsOfDates /\ q.charge \in Nat
    BY <1>0, <2>1, <2>3 DEF Idle, GratuityCalls
  <2>5. n \in GratuityCalls /\ n.op = "link"
    BY <2>2, <2>4 DEF GratuityCalls
  <2>6. gratuityReq' \in [Clients -> {Idle} \cup GratuityCalls] /\ gratuityReq'[c] = n
        /\ \A d \in Clients \ {c} : gratuityReq'[d] = gratuityReq[d]
    BY <1>0, <2>1, <2>2, <2>3, <2>5
  <2>7. gratuityPosted' \in [AsOfDates -> Nat] /\ gratuityPosted'[q.row] = gratuityPosted[q.row] + q.charge
        /\ \A x \in AsOfDates \ {q.row} : gratuityPosted'[x] = gratuityPosted[x]
    BY <1>1, <2>3, <2>4
  <2>8. GratuityTypeOK'
    BY <1>1, <2>3, <2>6, <2>7 DEF GratuityTypeOK, GratuityCalls
  <2>9. \A d \in Clients : ChargeKnown(gratuityReq[d])'
    BY <1>0, <2>3, <2>5, <2>6 DEF ChargeKnown
  <2>10. Charging[c] = q.charge /\ Charging'[c] = 0 /\ \A d \in Clients \ {c} : Charging'[d] = Charging[d]
    BY <2>1, <2>3, <2>5, <2>6 DEF Charging
  <2>11. SumFunctionOnSet(Charging, Clients)' = SumFunctionOnSet(Charging, Clients) - q.charge
    <3>1. SumFunctionOnSet(Charging, Clients)' = SumFunctionOnSet(Charging, Clients) - Charging[c] + Charging'[c]
      BY <1>0, <2>10, ChargingChanges
    <3>2. QED
      BY <1>0, <2>4, <2>10, <3>1, ChargesTyped
  <2>12. SumFunctionOnSet(gratuityPosted', AsOfDates)
           = SumFunctionOnSet(gratuityPosted, AsOfDates) - gratuityPosted[q.row] + gratuityPosted'[q.row]
    <3>1. \A x \in AsOfDates : gratuityPosted[x] \in Int
      BY <1>1
    <3>2. gratuityPosted'[q.row] \in Int
      BY <2>4, <2>7
    <3>3. QED
      BY <2>4, <2>7, <3>1, <3>2, DatesNat, SumChange
  <2>13. ChargesInOrder'
    <3>1. gratuityPosted[q.row] \in Nat /\ SumFunctionOnSet(Charging, Clients) \in Nat
          /\ SumFunctionOnSet(gratuityPosted, AsOfDates) \in Nat
      BY <1>0, <1>1, <2>4, ChargesTyped
    <3>2. SumFunctionOnSet(gratuityPosted', AsOfDates) = SumFunctionOnSet(gratuityPosted, AsOfDates) + q.charge
      BY <2>4, <2>7, <2>12, <3>1
    <3>3. LatestIn(provision)' = LatestIn(provision)
      BY <2>3
    <3>4. QED
      BY <1>1, <2>3, <2>4, <2>11, <3>1, <3>2, <3>3 DEF GratuityInv, ChargesInOrder
  <2>14. QED
    BY <2>8, <2>9, <2>13 DEF GratuityInv
<1>8. ASSUME NEW c \in Clients, SkipPosting(c) PROVE GratuityInv'
  <2>1. /\ gratuityReq' = [gratuityReq EXCEPT ![c] = Idle]
        /\ UNCHANGED <<provision, gratuityPosted, gratuityPeriod, gratuityHistory>>
    BY <1>8 DEF SkipPosting
  <2>2. gratuityReq' \in [Clients -> {Idle} \cup GratuityCalls]
        /\ \A d \in Clients : gratuityReq'[d] = IF d = c THEN Idle ELSE gratuityReq[d]
    BY <1>0, <2>1
  <2>3. GratuityTypeOK'
    BY <1>1, <2>1, <2>2 DEF GratuityTypeOK, GratuityCalls
  <2>4. \A d \in Clients : ChargeKnown(gratuityReq[d])'
    BY <1>0, <2>1, <2>2 DEF ChargeKnown, Idle
  <2>5. \A d \in Clients : Charging'[d] = Charging[d] \/ Charging'[d] = 0
    BY <2>2 DEF Charging, Idle
  <2>6. LatestIn(provision)' = LatestIn(provision)
    BY <2>1
  <2>7. ChargesInOrder'
    BY <2>1, <2>3, <2>5, <2>6, ChargesStay
  <2>8. QED
    BY <2>3, <2>4, <2>7 DEF GratuityInv
<1>9. ASSUME NEW c \in Clients, LinkJournal(c) PROVE GratuityInv'
  <2>1. PICK q : q = gratuityReq[c]
    OBVIOUS
  <2>2. /\ q.op = "link" /\ provision' = [provision EXCEPT ![q.row].linked = TRUE]
        /\ gratuityReq' = [gratuityReq EXCEPT ![c] = Idle]
        /\ UNCHANGED <<gratuityPosted, gratuityPeriod, gratuityHistory>>
    BY <1>9, <2>1 DEF LinkJournal
  <2>3. q.row \in AsOfDates
    BY <1>0, <2>1, <2>2 DEF Idle, GratuityCalls
  <2>4. gratuityReq' \in [Clients -> {Idle} \cup GratuityCalls]
        /\ \A d \in Clients : gratuityReq'[d] = IF d = c THEN Idle ELSE gratuityReq[d]
    BY <1>0, <2>2
  <2>5. /\ provision' \in [AsOfDates -> [stored : BOOLEAN, cumulative : Nat, charge : Nat, linked : BOOLEAN]]
        /\ \A x \in AsOfDates : /\ provision'[x].stored = provision[x].stored
                                /\ provision'[x].cumulative = provision[x].cumulative
    <3>1. PICK v \in [stored : BOOLEAN, cumulative : Nat, charge : Nat, linked : BOOLEAN] : v = provision[q.row]
      BY <1>1, <2>3
    <3>2. PICK u : u = [v EXCEPT !.linked = TRUE]
      OBVIOUS
    <3>3. /\ u \in [stored : BOOLEAN, cumulative : Nat, charge : Nat, linked : BOOLEAN]
          /\ u.stored = v.stored /\ u.cumulative = v.cumulative
      BY <3>1, <3>2
    <3>4. provision' = [provision EXCEPT ![q.row] = u]
      BY <1>1, <2>2, <3>1, <3>2
    <3>5. QED
      BY <1>1, <2>3, <3>1, <3>3, <3>4
  <2>6. GratuityTypeOK'
    BY <1>1, <2>2, <2>4, <2>5 DEF GratuityTypeOK, GratuityCalls
  <2>7. LatestIn(provision') = LatestIn(provision)
    <3>1. \A x \in AsOfDates : provision[x].stored \in BOOLEAN /\ provision[x].cumulative \in Nat
      BY <1>1
    <3>2. QED
      BY <2>5, <3>1, SameLatest
  <2>8. \A d \in Clients : ChargeKnown(gratuityReq[d])'
    BY <1>0, <2>4, <2>7 DEF ChargeKnown, Idle
  <2>9. \A d \in Clients : Charging'[d] = Charging[d] \/ Charging'[d] = 0
    BY <2>4 DEF Charging, Idle
  <2>10. ChargesInOrder'
    BY <2>2, <2>6, <2>7, <2>9, ChargesStay
  <2>11. QED
    BY <2>6, <2>8, <2>10 DEF GratuityInv
<1>10. QED
  BY <1>3, <1>4, <1>5, <1>6, <1>7, <1>8, <1>9 DEF GratuityNext

\* What is charged and not yet posted cannot be negative.
LEMMA GratuitySafe == ASSUME GratuityInv PROVE ChargedOnce
<1>1. SumFunctionOnSet(Charging, Clients) \in Nat /\ SumFunctionOnSet(gratuityPosted, AsOfDates) \in Nat
  BY ChargesTyped DEF GratuityInv
<1>2. gratuityHistory.highest \in Nat
  BY DEF GratuityInv, GratuityTypeOK
<1>3. QED
  BY <1>1, <1>2 DEF GratuityInv, ChargesInOrder, ChargedOnce

(*************************************************************************)
(* Employees and their events.                                           *)
(* An update that nothing has overtaken has read the row as it is, so that *)
(* the old value of its event is the new value of the one before.        *)
(*************************************************************************)

\* Rows of the employee, of the events, and updates that are under way.
EmployeeRows ==
  [department : Departments \cup {NoRow}, salary : Salaries \cup {0}, status : EmployeeStatus]
EventValues == Departments \cup {NoRow} \cup Salaries \cup {0} \cup [department : Departments, salary : Salaries]
EventRows == [type : {"hire", "transfer", "salary_revision"}, old : EventValues, new : EventValues]
EmployeeUpdates ==
  [op : {"update"}, row : {"employee"}, existing : EmployeeRows, department : Departments \cup {NoRow},
   salary : Salaries \cup {0}, status : EmployeeStatus, stale : BOOLEAN]

\* LastOf, Says and Told, of any sequence of events.
LastIn(e, type, k, n) ==
  /\ k \in DOMAIN e /\ k < n
  /\ e[k].type = type
  /\ \A j \in DOMAIN e : j < n /\ e[j].type = type => j <= k
SaysIn(e, type, n, hired, value) ==
  \/ \E k \in DOMAIN e : LastIn(e, type, k, n) /\ e[k].new = value
  \/ /\ \A k \in DOMAIN e : k < n => e[k].type # type
     /\ value = hired
ToldIn(e, type, hired, value) ==
  /\ \A n \in DOMAIN e : e[n].type = type => SaysIn(e, type, n, hired, e[n].old)
  /\ SaysIn(e, type, Len(e) + 1, hired, value)

\* They are the operators of the model.
LEMMA ToldIsToldIn ==
  ASSUME NEW type, NEW hired, NEW value
  PROVE  Told(type, hired, value) <=> ToldIn(events, type, hired, value)
BY DEF Told, Says, LastOf, ToldIn, SaysIn, LastIn

\* What was said before an event is said when there are more.
LEMMA SaidBefore ==
  ASSUME NEW T, NEW e \in Seq(T), NEW x \in T, NEW type, NEW n \in 1..(Len(e) + 1), NEW hired, NEW value,
         SaysIn(e, type, n, hired, value)
  PROVE  SaysIn(Append(e, x), type, n, hired, value)
<1>1. PICK f \in Seq(T) : f = Append(e, x)
  <2>1. Append(e, x) \in Seq(T)
    OBVIOUS
  <2>2. QED
    BY ONLY <2>1
<1>2. /\ Len(e) \in Nat /\ DOMAIN e = 1..Len(e) /\ DOMAIN f = 1..(Len(e) + 1)
      /\ \A k \in DOMAIN e : f[k] = e[k]
  BY <1>1
<1>3. \A j \in DOMAIN f : j < n => j \in DOMAIN e
  BY <1>2
<1>4. \A k \in DOMAIN e : k \in DOMAIN f
  BY <1>2
<1>5. CASE \E k \in DOMAIN e : LastIn(e, type, k, n) /\ e[k].new = value
  <2>1. PICK k \in DOMAIN e : LastIn(e, type, k, n) /\ e[k].new = value
    BY <1>5
  <2>2. LastIn(f, type, k, n)
    BY <1>2, <1>3, <1>4, <2>1 DEF LastIn
  <2>3. k \in DOMAIN f /\ f[k].new = value
    BY <1>2, <1>4, <2>1
  <2>4. QED
    BY <1>1, <2>2, <2>3 DEF SaysIn
<1>6. CASE (\A k \in DOMAIN e : k < n => e[k].type # type) /\ value = hired
  <2>1. \A k \in DOMAIN f : k < n => f[k].type # type
    BY <1>2, <1>3, <1>6
  <2>2. QED
    BY <1>1, <1>6, <2>1 DEF SaysIn
<1>7. QED
  BY <1>5, <1>6 DEF SaysIn

\* An event more: if it is of the type, its old value is what was said, and its new one is
\* what is.
LEMMA ToldLonger ==
  ASSUME NEW T, NEW e \in Seq(T), NEW x \in T, NEW type, NEW hired, NEW value, NEW next,
         ToldIn(e, type, hired, value),
         x.type = type => x.old = value /\ x.new = next,
         x.type # type => next = value
  PROVE  ToldIn(Append(e, x), type, hired, next)
<1>1. PICK f \in Seq(T) : f = Append(e, x)
  <2>1. Append(e, x) \in Seq(T)
    OBVIOUS
  <2>2. QED
    BY ONLY <2>1
<1>2. PICK m \in Nat : m = Len(e)
  OBVIOUS
<1>3. /\ DOMAIN e = 1..m /\ DOMAIN f = 1..(m + 1) /\ Len(f) = m + 1
      /\ f[m + 1] = x /\ \A k \in DOMAIN e : f[k] = e[k]
  BY <1>1, <1>2
<1>4. \A k \in DOMAIN f : k = m + 1 \/ k \in DOMAIN e
  BY <1>3
<1>5. m + 1 \in 1..(m + 1) /\ \A n \in DOMAIN e : n \in 1..(m + 1)
  BY <1>3
<1>6. ASSUME NEW n \in DOMAIN f, f[n].type = type PROVE SaysIn(f, type, n, hired, f[n].old)
  <2>1. CASE n \in DOMAIN e
    <3>1. SaysIn(e, type, n, hired, e[n].old)
      BY <1>3, <1>6, <2>1 DEF ToldIn
    <3>2. SaysIn(f, type, n, hired, e[n].old)
      BY <1>1, <1>2, <1>5, <2>1, <3>1, SaidBefore
    <3>3. QED
      BY <1>3, <2>1, <3>2
  <2>2. CASE n = m + 1
    <3>1. SaysIn(e, type, m + 1, hired, value)
      BY <1>2 DEF ToldIn
    <3>2. SaysIn(f, type, m + 1, hired, value)
      BY <1>1, <1>2, <1>5, <3>1, SaidBefore
    <3>3. QED
      BY <1>3, <1>6, <2>2, <3>2
  <2>3. QED
    BY <1>4, <1>6, <2>1, <2>2
<1>7. SaysIn(f, type, m + 2, hired, next)
  <2>1. CASE x.type = type
    <3>1. m + 1 \in DOMAIN f /\ m + 1 < m + 2 /\ f[m + 1].type = type /\ f[m + 1].new = next
      BY <1>3, <1>5, <2>1
    <3>2. \A j \in DOMAIN f : j <= m + 1
      BY <1>3
    <3>3. QED
      BY <3>1, <3>2 DEF SaysIn, LastIn
  <2>2. CASE x.type # type
    <3>1. SaysIn(e, type, m + 1, hired, next)
      BY <1>2, <2>2 DEF ToldIn
    <3>2. \A j \in DOMAIN e : j \in DOMAIN f /\ j < m + 1 /\ j < m + 2
      BY <1>3
    <3>3. CASE \E k \in DOMAIN e : LastIn(e, type, k, m + 1) /\ e[k].new = next
      <4>1. PICK k \in DOMAIN e : LastIn(e, type, k, m + 1) /\ e[k].new = next
        BY <3>3
      <4>2. \A j \in DOMAIN f : f[j].type = type => j <= k
        BY <1>3, <1>4, <2>2, <3>2, <4>1 DEF LastIn
      <4>3. k \in DOMAIN f /\ k < m + 2 /\ f[k].type = type /\ f[k].new = next
        BY <1>3, <3>2, <4>1 DEF LastIn
      <4>4. QED
        BY <4>2, <4>3 DEF SaysIn, LastIn
    <3>4. CASE (\A k \in DOMAIN e : k < m + 1 => e[k].type # type) /\ next = hired
      <4>1. \A k \in DOMAIN f : f[k].type # type
        BY <1>3, <1>4, <2>2, <3>2, <3>4
      <4>2. QED
        BY <3>4, <4>1 DEF SaysIn
    <3>5. QED
      BY <3>1, <3>3, <3>4 DEF SaysIn
  <2>3. QED
    BY <2>1, <2>2
<1>8. (m + 1) + 1 = m + 2
  OBVIOUS
<1>9. QED
  BY <1>1, <1>3, <1>6, <1>7, <1>8 DEF ToldIn

\* Nothing is told of a type before there is an event of it.
LEMMA ToldAtHire ==
  ASSUME NEW x, NEW type, x.type # type, NEW hired
  PROVE  ToldIn(<<x>>, type, hired, hired)
<1>1. DOMAIN <<x>> = {1} /\ <<x>>[1] = x
  OBVIOUS
<1>2. QED
  BY <1>1 DEF ToldIn, SaysIn

\* An update that has not been overtaken has read the row as it is; the first event is the
\* hire.
EmployeesInv ==
  /\ employee \in EmployeeRows
  /\ events \in Seq(EventRows) /\ Len(events) <= MaxEvents
  /\ Employed => events # <<>>
  /\ secrets \subseteq SecretFields
  /\ revealLogged \in BOOLEAN /\ employeeOvertaken \in BOOLEAN
  /\ employeeReq \in [Clients -> {Idle} \cup EmployeeUpdates]
  /\ \A c \in Clients : employeeReq[c] # Idle =>
       Employed /\ (~ employeeReq[c].stale => employeeReq[c].existing = employee)
  /\ EventsExplainEmployee

\* A request that runs is an update.
LEMMA EmployeeKinds ==
  /\ Idle.op = "idle" /\ Idle \notin EmployeeUpdates
  /\ \A r \in {Idle} \cup EmployeeUpdates : (r # Idle <=> r \in EmployeeUpdates) /\ (r # Idle <=> r.op = "update")
BY DEF Idle, EmployeeUpdates

\* Nobody is employed at the start.
LEMMA EmployeesStart == ASSUME EmployeesInit PROVE EmployeesInv
<1>1. employee = [department |-> NoRow, salary |-> 0, status |-> "active"] /\ events = <<>> /\ secrets = {}
      /\ revealLogged = FALSE /\ employeeOvertaken = FALSE /\ employeeReq = [c \in Clients |-> Idle]
  BY DEF EmployeesInit
<1>2. employee \in EmployeeRows /\ employee.department = NoRow
  BY <1>1 DEF EmployeeRows, EmployeeStatus
<1>3. ~ Employed
  BY <1>2 DEF Employed
<1>4. events \in Seq(EventRows) /\ Len(events) <= MaxEvents
  BY <1>1, EmployeesAssumption
<1>5. employeeReq \in [Clients -> {Idle} \cup EmployeeUpdates] /\ \A c \in Clients : employeeReq[c] = Idle
  BY <1>1
<1>6. QED
  BY <1>1, <1>2, <1>3, <1>4, <1>5 DEF EmployeesInv, EventsExplainEmployee

\* What the events explain, in terms of the sequence.
LEMMA Explained ==
  EventsExplainEmployee <=>
    (Employed /\ ~ employeeOvertaken =>
       /\ ToldIn(events, "salary_revision", events[1].new.salary, employee.salary)
       /\ ToldIn(events, "transfer", events[1].new.department, employee.department))
BY ToldIsToldIn DEF EventsExplainEmployee

\* Steps that change neither the row, nor the events, nor the history.
LEMMA EmployeeUntouched ==
  ASSUME EmployeesInv, UNCHANGED <<employee, events, employeeOvertaken>>,
         secrets' \subseteq SecretFields, revealLogged' \in BOOLEAN,
         employeeReq' \in [Clients -> {Idle} \cup EmployeeUpdates],
         \A c \in Clients : employeeReq'[c] = employeeReq[c] \/ employeeReq'[c] = Idle
                            \/ (Employed /\ employeeReq'[c].existing = employee)
  PROVE  EmployeesInv'
<1>1. Employed' = Employed
  BY DEF Employed
<1>2. EventsExplainEmployee'
  BY <1>1 DEF EmployeesInv, EventsExplainEmployee, Told, Says, LastOf
<1>3. \A c \in Clients : employeeReq'[c] # Idle =>
        Employed' /\ (~ employeeReq'[c].stale => employeeReq'[c].existing = employee')
  BY <1>1 DEF EmployeesInv
<1>4. QED
  BY <1>1, <1>2, <1>3 DEF EmployeesInv

\* The hire is the first event, and says what was agreed.
LEMMA HireStep == ASSUME EmployeesInv, Hire PROVE EmployeesInv'
<1>1. PICK dept \in Departments, salary \in Salaries, fields \in SUBSET SecretFields :
        /\ employee' = [department |-> dept, salary |-> salary, status |-> "active"]
        /\ secrets' = fields
        /\ events' = <<Event("hire", NoRow, [department |-> dept, salary |-> salary])>>
  BY DEF Hire
<1>2. ~ Employed /\ UNCHANGED <<revealLogged, employeeReq, employeeOvertaken>>
  BY DEF Hire
<1>3. PICK x : x = Event("hire", NoRow, [department |-> dept, salary |-> salary])
  OBVIOUS
<1>4. x \in EventRows /\ x.type = "hire" /\ x.new.department = dept /\ x.new.salary = salary
  <2>1. PICK V : V = EventValues
    OBVIOUS
  <2>2. NoRow \in V /\ [department |-> dept, salary |-> salary] \in V
    BY <2>1 DEF EventValues
  <2>3. QED
    BY <1>3, <2>1, <2>2 DEF EventRows, Event
<1>5. employee' \in EmployeeRows /\ employee'.department = dept /\ employee'.salary = salary
  BY <1>1 DEF EmployeeRows, EmployeeStatus
<1>6. events' = <<x>> /\ events'[1] = x /\ events' # <<>> /\ events' \in Seq(EventRows) /\ Len(events') = 1
  BY <1>1, <1>3, <1>4
<1>7. Len(events') <= MaxEvents
  BY <1>6, EmployeesAssumption
<1>8. \A c \in Clients : employeeReq'[c] = Idle
  BY <1>2 DEF EmployeesInv
<1>9. /\ ToldIn(events', "salary_revision", events'[1].new.salary, employee'.salary)
      /\ ToldIn(events', "transfer", events'[1].new.department, employee'.department)
  <2>1. x.type # "salary_revision" /\ x.type # "transfer"
    BY <1>4
  <2>2. ToldIn(<<x>>, "salary_revision", salary, salary) /\ ToldIn(<<x>>, "transfer", dept, dept)
    BY <2>1, ToldAtHire
  <2>3. QED
    BY <1>4, <1>5, <1>6, <2>2
<1>10. EventsExplainEmployee'
  BY <1>9 DEF EventsExplainEmployee, Told, Says, LastOf, ToldIn, SaysIn, LastIn
<1>11. QED
  BY <1>1, <1>2, <1>5, <1>6, <1>7, <1>8, <1>10 DEF EmployeesInv

\* An update appends the events that say what it changes.
LEMMA UpdateEmployeeStep == ASSUME EmployeesInv, NEW c \in Clients, UpdateEmployee(c) PROVE EmployeesInv'
<1>1. PICK q \in EmployeeUpdates : q = employeeReq[c]
  BY EmployeeKinds DEF EmployeesInv, UpdateEmployee
<1>2. PICK fields \in SUBSET SecretFields : secrets' = secrets \cup fields
  BY DEF UpdateEmployee
<1>3. PICK w : w = [department |-> IF q.department = NoRow THEN employee.department ELSE q.department,
                    salary |-> IF q.salary = 0 THEN employee.salary ELSE q.salary,
                    status |-> IF q.status = q.existing.status THEN employee.status ELSE q.status]
  OBVIOUS
<1>4. /\ employee' = w
      /\ events' = events \o Transfers(q) \o Revisions(q) /\ Len(events') <= MaxEvents
      /\ employeeReq' = Overtake(employeeReq, c, Idle, LAMBDA d : employeeReq[d].op = "update")
      /\ employeeOvertaken' = (employeeOvertaken \/ q.stale)
      /\ revealLogged' = revealLogged
  BY <1>1, <1>3 DEF UpdateEmployee
<1>5. /\ employee \in EmployeeRows /\ events \in Seq(EventRows) /\ Employed /\ events # <<>>
      /\ employeeReq \in [Clients -> {Idle} \cup EmployeeUpdates]
      /\ ~ q.stale => q.existing = employee
  BY <1>1, EmployeeKinds DEF EmployeesInv
<1>6. /\ q.department \in Departments \cup {NoRow} /\ q.salary \in Salaries \cup {0} /\ q.status \in EmployeeStatus
      /\ q.existing \in EmployeeRows /\ q.stale \in BOOLEAN
  BY <1>1 DEF EmployeeUpdates
<1>7. w \in EmployeeRows
  BY <1>3, <1>5, <1>6 DEF EmployeeRows
<1>8. /\ w.department = IF q.department = NoRow THEN employee.department ELSE q.department
      /\ w.salary = IF q.salary = 0 THEN employee.salary ELSE q.salary
  BY <1>3
<1>9. Employed'
  BY <1>4, <1>5, <1>8 DEF Employed
<1>10. PICK t : t = Event("transfer", q.existing.department, q.department)
  OBVIOUS
<1>11. PICK v : v = Event("salary_revision", q.existing.salary, q.salary)
  OBVIOUS
<1>12. t \in EventRows /\ t.type = "transfer" /\ t.old = q.existing.department /\ t.new = q.department
  <2>1. PICK V : V = EventValues
    OBVIOUS
  <2>2. q.existing.department \in V /\ q.department \in V
    BY <1>6, <2>1 DEF EventValues, EmployeeRows
  <2>3. QED
    BY <1>10, <2>1, <2>2 DEF EventRows, Event
<1>13. v \in EventRows /\ v.type = "salary_revision" /\ v.old = q.existing.salary /\ v.new = q.salary
  <2>1. PICK V : V = EventValues
    OBVIOUS
  <2>2. q.existing.salary \in V /\ q.salary \in V
    BY <1>6, <2>1 DEF EventValues, EmployeeRows
  <2>3. QED
    BY <1>11, <2>1, <2>2 DEF EventRows, Event
<1>14. PICK Recs : Recs = EventRows
  OBVIOUS
<1>15. events \in Seq(Recs) /\ t \in Recs /\ v \in Recs
  BY <1>5, <1>12, <1>13, <1>14
<1>16. PICK e : e = events \o Transfers(q)
  OBVIOUS
<1>17. e = (IF q.department # NoRow /\ q.department # q.existing.department THEN Append(events, t) ELSE events)
  <2>1. events \o <<>> = events /\ events \o <<t>> = Append(events, t)
    BY ONLY <1>15
  <2>2. QED
    BY <1>10, <1>16, <2>1 DEF Transfers
<1>18. e \in Seq(Recs) /\ e[1] = events[1] /\ e # <<>> /\ Len(e) \in Nat
  <2>1. events[1] = Append(events, t)[1] /\ Append(events, t) \in Seq(Recs) /\ Append(events, t) # <<>>
    BY <1>5, <1>15
  <2>2. QED
    BY <1>5, <1>15, <1>17, <2>1
<1>19. events' = (IF q.salary # 0 /\ q.salary # q.existing.salary THEN Append(e, v) ELSE e)
  <2>1. e \o <<>> = e /\ e \o <<v>> = Append(e, v)
    BY ONLY <1>15, <1>18
  <2>2. QED
    BY <1>4, <1>11, <1>16, <2>1 DEF Revisions
<1>20. events' \in Seq(Recs) /\ events'[1] = events[1] /\ events' # <<>>
  <2>1. e[1] = Append(e, v)[1] /\ Append(e, v) \in Seq(Recs) /\ Append(e, v) # <<>>
    BY <1>15, <1>18
  <2>2. QED
    BY <1>18, <1>19, <2>1
<1>21. ASSUME ~ employeeOvertaken'
       PROVE  /\ ToldIn(events', "salary_revision", events'[1].new.salary, employee'.salary)
              /\ ToldIn(events', "transfer", events'[1].new.department, employee'.department)
  <2>1. ~ employeeOvertaken /\ q.existing = employee
    BY <1>4, <1>5, <1>21
  <2>2. PICK hs : hs = events[1].new.salary
    OBVIOUS
  <2>3. PICK hd : hd = events[1].new.department
    OBVIOUS
  <2>4. ToldIn(events, "salary_revision", hs, employee.salary) /\ ToldIn(events, "transfer", hd, employee.department)
    BY <1>5, <2>1, <2>2, <2>3, Explained DEF EmployeesInv
  <2>5. ToldIn(e, "transfer", hd, w.department)
    <3>1. CASE q.department # NoRow /\ q.department # q.existing.department
      <4>1. w.department = t.new /\ t.old = employee.department
        BY <1>8, <1>12, <2>1, <3>1
      <4>2. ToldIn(Append(events, t), "transfer", hd, w.department)
        BY <1>12, <1>15, <2>4, <4>1, ToldLonger
      <4>3. QED
        BY <1>17, <3>1, <4>2
    <3>2. CASE ~ (q.department # NoRow /\ q.department # q.existing.department)
      BY <1>8, <1>17, <2>1, <2>4, <3>2
    <3>3. QED
      BY <3>1, <3>2
  <2>6. ToldIn(e, "salary_revision", hs, employee.salary)
    <3>1. ToldIn(Append(events, t), "salary_revision", hs, employee.salary)
      BY <1>12, <1>15, <2>4, ToldLonger
    <3>2. QED
      BY <1>17, <2>4, <3>1
  <2>7. ToldIn(events', "salary_revision", hs, w.salary)
    <3>1. CASE q.salary # 0 /\ q.salary # q.existing.salary
      <4>1. w.salary = v.new /\ v.old = employee.salary
        BY <1>8, <1>13, <2>1, <3>1
      <4>2. ToldIn(Append(e, v), "salary_revision", hs, w.salary)
        BY <1>13, <1>15, <1>18, <2>6, <4>1, ToldLonger
      <4>3. QED
        BY <1>19, <3>1, <4>2
    <3>2. CASE ~ (q.salary # 0 /\ q.salary # q.existing.salary)
      BY <1>8, <1>19, <2>1, <2>6, <3>2
    <3>3. QED
      BY <3>1, <3>2
  <2>8. ToldIn(events', "transfer", hd, w.department)
    <3>1. ToldIn(Append(e, v), "transfer", hd, w.department)
      BY <1>13, <1>15, <1>18, <2>5, ToldLonger
    <3>2. QED
      BY <1>19, <2>5, <3>1
  <2>9. QED
    BY <1>4, <1>20, <2>2, <2>3, <2>7, <2>8
<1>22. EventsExplainEmployee'
  BY <1>21 DEF EventsExplainEmployee, Told, Says, LastOf, ToldIn, SaysIn, LastIn
<1>23. ASSUME NEW d \in Clients
       PROVE  /\ employeeReq'[d] \in {Idle} \cup EmployeeUpdates
              /\ employeeReq'[d] # Idle => employeeReq'[d].stale
  <2>1. CASE d = c
    BY <1>4, <2>1 DEF Overtake
  <2>2. CASE d # c
    <3>1. PICK p \in {Idle} \cup EmployeeUpdates : p = employeeReq[d]
      BY <1>5
    <3>2. employeeReq'[d] = IF p # Idle /\ p.op = "update" THEN [p EXCEPT !.stale = TRUE] ELSE p
      BY <1>4, <2>2, <3>1 DEF Overtake
    <3>3. CASE p = Idle
      BY <3>2, <3>3
    <3>4. CASE p # Idle
      <4>1. p \in EmployeeUpdates /\ p.op = "update"
        BY <3>4, EmployeeKinds
      <4>2. PICK u : u = [p EXCEPT !.stale = TRUE]
        OBVIOUS
      <4>3. u \in EmployeeUpdates /\ u.stale
        BY <4>1, <4>2 DEF EmployeeUpdates
      <4>4. QED
        BY <3>2, <3>4, <4>1, <4>2, <4>3
    <3>5. QED
      BY <3>3, <3>4
  <2>3. QED
    BY <2>1, <2>2
<1>24. employeeReq' \in [Clients -> {Idle} \cup EmployeeUpdates]
  <2>1. employeeReq' = [d \in Clients |-> employeeReq'[d]]
    BY <1>4 DEF Overtake
  <2>2. QED
    BY <1>23, <2>1
<1>25. employeeOvertaken' \in BOOLEAN /\ revealLogged' \in BOOLEAN
  <2>1. employeeOvertaken \in BOOLEAN /\ revealLogged \in BOOLEAN
    BY DEF EmployeesInv
  <2>2. PICK b \in BOOLEAN : b = (employeeOvertaken \/ q.stale)
    BY <1>6, <2>1
  <2>3. QED
    BY <1>4, <2>1, <2>2
<1>26. secrets' \subseteq SecretFields
  BY <1>2 DEF EmployeesInv
<1>27. employee' \in EmployeeRows /\ events' \in Seq(EventRows)
  BY <1>4, <1>7, <1>14, <1>20
<1>28. QED
  BY <1>4, <1>9, <1>20, <1>22, <1>23, <1>24, <1>25, <1>26, <1>27 DEF EmployeesInv

\* Every step of the employees keeps the invariant.
LEMMA EmployeesStep == ASSUME EmployeesInv, [EmployeesNext]_employeeVars PROVE EmployeesInv'
<1>0. /\ employee \in EmployeeRows /\ secrets \subseteq SecretFields /\ revealLogged \in BOOLEAN
      /\ employeeReq \in [Clients -> {Idle} \cup EmployeeUpdates]
  BY DEF EmployeesInv
<1>1. CASE UNCHANGED employeeVars
  BY <1>0, <1>1, EmployeeUntouched DEF employeeVars
<1>2. CASE Hire
  BY <1>2, HireStep
<1>3. CASE UpdateSecrets
  BY <1>0, <1>3, EmployeeUntouched DEF UpdateSecrets
<1>4. CASE RevealSecrets
  BY <1>0, <1>4, EmployeeUntouched DEF RevealSecrets
<1>5. ASSUME NEW c \in Clients, ReadEmployee(c) PROVE EmployeesInv'
  <2>1. PICK dept \in Departments \cup {NoRow}, salary \in Salaries \cup {0},
             status \in {employee.status, "resigned", "terminated"} :
          employeeReq' = [employeeReq EXCEPT ![c] =
            [op |-> "update", row |-> "employee", existing |-> employee,
             department |-> dept, salary |-> salary, status |-> status, stale |-> FALSE]]
    BY <1>5 DEF ReadEmployee
  <2>2. Employed /\ UNCHANGED <<employee, events, secrets, revealLogged, employeeOvertaken>>
    BY <1>5 DEF ReadEmployee
  <2>3. PICK n : n = [op |-> "update", row |-> "employee", existing |-> employee,
                      department |-> dept, salary |-> salary, status |-> status, stale |-> FALSE]
    OBVIOUS
  <2>4. status \in EmployeeStatus
    BY <1>0 DEF EmployeeRows, EmployeeStatus
  <2>5. n \in EmployeeUpdates /\ n.existing = employee
    BY <1>0, <2>3, <2>4 DEF EmployeeUpdates
  <2>6. employeeReq' \in [Clients -> {Idle} \cup EmployeeUpdates]
        /\ \A d \in Clients : employeeReq'[d] = IF d = c THEN n ELSE employeeReq[d]
    BY <1>0, <2>1, <2>3, <2>5
  <2>7. QED
    BY <1>0, <2>2, <2>5, <2>6, EmployeeUntouched
<1>6. ASSUME NEW c \in Clients, UpdateEmployee(c) PROVE EmployeesInv'
  BY <1>6, UpdateEmployeeStep
<1>7. ASSUME NEW c \in Clients, DropEmployeeRequest(c) PROVE EmployeesInv'
  <2>1. employeeReq' = [employeeReq EXCEPT ![c] = Idle]
        /\ UNCHANGED <<employee, events, secrets, revealLogged, employeeOvertaken>>
    BY <1>7 DEF DropEmployeeRequest
  <2>2. employeeReq' \in [Clients -> {Idle} \cup EmployeeUpdates]
        /\ \A d \in Clients : employeeReq'[d] = IF d = c THEN Idle ELSE employeeReq[d]
    BY <1>0, <2>1
  <2>3. QED
    BY <1>0, <2>1, <2>2, EmployeeUntouched
<1>8. QED
  BY <1>1, <1>2, <1>3, <1>4, <1>5, <1>6, <1>7 DEF EmployeesNext

\* The types follow.
LEMMA EmployeesTyped == ASSUME EmployeesInv PROVE EmployeesTypeOK
<1>1. PICK Recs : Recs = EventRows
  OBVIOUS
<1>2. \A k \in DOMAIN events : events[k] \in Recs
  BY <1>1 DEF EmployeesInv
<1>3. \A k \in DOMAIN events : events[k].type \in {"hire", "transfer", "salary_revision"}
  BY <1>1, <1>2 DEF EventRows
<1>4. \A c \in Clients : employeeReq[c] # Idle => employeeReq[c].op = "update"
  BY EmployeeKinds DEF EmployeesInv
<1>5. QED
  BY <1>3, <1>4 DEF EmployeesInv, EmployeesTypeOK, EmployeeRows

(*************************************************************************)
(* Attendance.                                                           *)
(* A correction commits twice, the record and then its explanation; between *)
(* the two a single request knows what it has still to write.            *)
(*************************************************************************)

\* Batches and corrections that are under way, and what they leave.
SyncCalls ==
  [op : {"sync"}, row : Nat, left : SUBSET CheckDates, batch : SUBSET CheckDates]
CorrectCalls ==
  [op : {"correct", "explain"}, row : CheckDates, old : ClockTimes \cup {NoRow}, new : ClockTimes]
CorrectionRows == [date : CheckDates, old : ClockTimes \cup {NoRow}, new : ClockTimes]
SyncRows == [status : {"running", "completed", "failed"}, stored : 0..Cardinality(CheckDates)]
AttendanceRows == [source : {"none", "biometric", "manual"}, clock : ClockTimes \cup {NoRow}]

\* The last correction of a date has made the record what it is.
LastCorrection(d) ==
  \E k \in DOMAIN corrections :
    /\ corrections[k].date = d
    /\ corrections[k].new = attendance[d].clock
    /\ \A j \in DOMAIN corrections : corrections[j].date = d => j <= k

\* A request is between the two commits of a correction of a date.
Explaining(c, d) == attendanceReq[c].op = "explain" /\ attendanceReq[c].row = d

\* What is so of a date unless its corrections overlapped or were stopped: one request at
\* most is between its two commits, a record corrected by hand is what that request has
\* made it, and if there is none, what the last correction has.
DateExplained(d) ==
  /\ \A b, c \in Clients : Explaining(b, d) /\ Explaining(c, d) => b = c
  /\ attendance[d].source = "manual" =>
       /\ \A c \in Clients : Explaining(c, d) => attendance[d].clock = attendanceReq[c].new
       /\ (\A c \in Clients : ~ Explaining(c, d)) => LastCorrection(d)

\* The invariant.
AttendanceInv ==
  /\ attendance \in [CheckDates -> AttendanceRows]
  /\ corrections \in Seq(CorrectionRows) /\ Len(corrections) <= MaxCorrections
  /\ syncLog \in Seq(SyncRows)
  /\ attendanceReq \in [Clients -> {Idle} \cup SyncCalls \cup CorrectCalls]
  /\ \A c \in Clients : attendanceReq[c].op = "sync" => attendanceReq[c].row \in 1..Len(syncLog)
  /\ unexplained \subseteq CheckDates
  /\ \A d \in CheckDates \ unexplained : DateExplained(d)

\* The operations tell what a request is.
LEMMA AttendanceKinds ==
  /\ Idle.op = "idle"
  /\ \A r \in {Idle} \cup SyncCalls \cup CorrectCalls :
       /\ r.op \in {"idle", "sync", "correct", "explain"}
       /\ r.op = "sync" => r \in SyncCalls
       /\ r.op \in {"correct", "explain"} => r \in CorrectCalls
       /\ r # Idle => r.op # "idle"
BY DEF Idle, SyncCalls, CorrectCalls

\* One more row at the end of a table.
LEMMA OneMore ==
  ASSUME NEW T, NEW s \in Seq(T), NEW x \in T
  PROVE  /\ s \o <<x>> \in Seq(T) /\ Append(s, x) \in Seq(T)
         /\ Len(s \o <<x>>) = Len(s) + 1 /\ Len(Append(s, x)) = Len(s) + 1
         /\ \A k \in 1..Len(s) : (s \o <<x>>)[k] = s[k]
         /\ (s \o <<x>>)[Len(s) + 1] = x
OBVIOUS

\* One row of a table is written.
LEMMA OneChanged ==
  ASSUME NEW T, NEW s \in Seq(T), NEW i \in 1..Len(s), NEW x \in T
  PROVE  [s EXCEPT ![i] = x] \in Seq(T) /\ Len([s EXCEPT ![i] = x]) = Len(s)
<1>1. [s EXCEPT ![i] = x] \in [1..Len(s) -> T]
  OBVIOUS
<1>2. QED
  BY <1>1

\* A date stays explained while its record, its corrections and the request between the
\* commits of one stay.
LEMMA StaysExplained ==
  ASSUME NEW d \in CheckDates, DateExplained(d),
         attendance'[d] = attendance[d] \/ attendance'[d].source = "biometric",
         corrections' = corrections,
         \A c \in Clients : Explaining(c, d)' = Explaining(c, d),
         \A c \in Clients : Explaining(c, d) => attendanceReq'[c].new = attendanceReq[c].new
  PROVE  DateExplained(d)'
<1>1. \A b, c \in Clients : Explaining(b, d)' /\ Explaining(c, d)' => b = c
  BY DEF DateExplained
<1>2. ASSUME attendance'[d].source = "manual"
      PROVE  /\ \A c \in Clients : Explaining(c, d)' => attendance'[d].clock = attendanceReq'[c].new
             /\ (\A c \in Clients : ~ Explaining(c, d)') => LastCorrection(d)'
  <2>1. attendance'[d] = attendance[d]
    BY <1>2
  <2>2. LastCorrection(d)' <=> LastCorrection(d)
    BY <2>1 DEF LastCorrection
  <2>3. QED
    BY <1>2, <2>1, <2>2 DEF DateExplained
<1>3. QED
  BY <1>1, <1>2 DEF DateExplained

\* The tables are empty at the start.
LEMMA AttendanceStart == ASSUME AttendanceInit PROVE AttendanceInv
<1>1. \A c \in Clients : attendanceReq[c] = Idle
  BY DEF AttendanceInit
<1>2. \A d \in CheckDates : attendance[d].source = "none"
  BY DEF AttendanceInit, NoRecord
<1>3. attendance \in [CheckDates -> AttendanceRows] /\ attendanceReq \in [Clients -> {Idle} \cup SyncCalls \cup CorrectCalls]
  BY DEF AttendanceInit, NoRecord, AttendanceRows
<1>4. corrections \in Seq(CorrectionRows) /\ Len(corrections) <= MaxCorrections /\ syncLog \in Seq(SyncRows)
  BY AttendanceAssumption DEF AttendanceInit
<1>5. unexplained = {}
  BY DEF AttendanceInit
<1>6. \A d \in CheckDates : DateExplained(d)
  BY <1>1, <1>2, AttendanceKinds DEF DateExplained, Explaining
<1>7. QED
  BY <1>1, <1>3, <1>4, <1>5, <1>6, AttendanceKinds DEF AttendanceInv

\* Every step keeps the invariant.
LEMMA AttendanceStep == ASSUME AttendanceInv, [AttendanceNext]_attendanceVars PROVE AttendanceInv'
<1>0. /\ attendance \in [CheckDates -> AttendanceRows]
      /\ corrections \in Seq(CorrectionRows) /\ Len(corrections) <= MaxCorrections
      /\ syncLog \in Seq(SyncRows)
      /\ attendanceReq \in [Clients -> {Idle} \cup SyncCalls \cup CorrectCalls]
      /\ \A d \in Clients : attendanceReq[d].op = "sync" => attendanceReq[d].row \in 1..Len(syncLog)
      /\ unexplained \subseteq CheckDates
      /\ \A d \in CheckDates \ unexplained : DateExplained(d)
  BY DEF AttendanceInv
<1>00. Len(syncLog) \in Nat /\ Len(corrections) \in Nat
  BY <1>0
<1>1. CASE UNCHANGED attendanceVars
  BY <1>1 DEF attendanceVars, AttendanceInv, DateExplained, Explaining, LastCorrection
<1>2. ASSUME NEW c \in Clients, StartSync(c) PROVE AttendanceInv'
  <2>1. PICK batch \in SUBSET CheckDates :
          attendanceReq' = [attendanceReq EXCEPT ![c] =
            [op |-> "sync", row |-> Len(syncLog) + 1, left |-> batch, batch |-> batch]]
    BY <1>2 DEF StartSync
  <2>2. /\ attendanceReq[c] = Idle /\ syncLog' = Append(syncLog, [status |-> "running", stored |-> 0])
        /\ UNCHANGED <<attendance, corrections, unexplained>>
    BY <1>2 DEF StartSync
  <2>3. PICK n : n = [op |-> "sync", row |-> Len(syncLog) + 1, left |-> batch, batch |-> batch]
    OBVIOUS
  <2>4. n \in SyncCalls /\ n.op = "sync" /\ n.row = Len(syncLog) + 1
    BY <1>00, <2>3 DEF SyncCalls
  <2>5. attendanceReq' \in [Clients -> {Idle} \cup SyncCalls \cup CorrectCalls]
        /\ \A d \in Clients : attendanceReq'[d] = IF d = c THEN n ELSE attendanceReq[d]
    BY <1>0, <2>1, <2>3, <2>4
  <2>6. [status |-> "running", stored |-> 0] \in SyncRows
    BY AttendanceAssumption, FS_CardinalityType DEF SyncRows
  <2>7. syncLog' \in Seq(SyncRows) /\ Len(syncLog') = Len(syncLog) + 1
    BY <1>0, <2>2, <2>6, OneMore
  <2>8. \A d \in Clients : attendanceReq'[d].op = "sync" => attendanceReq'[d].row \in 1..Len(syncLog')
    BY <1>0, <1>00, <2>4, <2>5, <2>7
  <2>9. ASSUME NEW d \in CheckDates \ unexplained' PROVE DateExplained(d)'
    <3>1. \A b \in Clients : Explaining(b, d)' = Explaining(b, d)
      BY <2>2, <2>4, <2>5, AttendanceKinds DEF Explaining
    <3>2. \A b \in Clients : Explaining(b, d) => attendanceReq'[b].new = attendanceReq[b].new
      BY <2>2, <2>5, AttendanceKinds DEF Explaining
    <3>3. QED
      BY <1>0, <2>2, <3>1, <3>2, StaysExplained
  <2>10. QED
    BY <1>0, <2>2, <2>5, <2>7, <2>8, <2>9 DEF AttendanceInv
<1>3. ASSUME NEW c \in Clients, StoreRecord(c) PROVE AttendanceInv'
  <2>1. PICK q \in SyncCalls : q = attendanceReq[c] /\ q.op = "sync"
    BY <1>0, <1>3, AttendanceKinds DEF StoreRecord
  <2>2. PICK date \in q.left, clock \in ClockTimes :
          /\ attendance' = [attendance EXCEPT ![date] = [source |-> "biometric", clock |-> clock]]
          /\ attendanceReq' = [attendanceReq EXCEPT ![c].left = @ \ {date}]
    BY <1>3, <2>1 DEF StoreRecord, Upsert
  <2>3. UNCHANGED <<corrections, syncLog, unexplained>>
    BY <1>3 DEF StoreRecord
  <2>4. PICK n : n = [q EXCEPT !.left = @ \ {date}]
    OBVIOUS
  <2>5. n \in SyncCalls /\ n.op = "sync" /\ n.row = q.row
    BY <2>1, <2>4 DEF SyncCalls
  <2>6. attendanceReq' \in [Clients -> {Idle} \cup SyncCalls \cup CorrectCalls]
        /\ \A d \in Clients : attendanceReq'[d] = IF d = c THEN n ELSE attendanceReq[d]
    BY <1>0, <2>1, <2>2, <2>4, <2>5
  <2>7. date \in CheckDates
    BY <2>1, <2>2 DEF SyncCalls
  <2>8. /\ attendance' \in [CheckDates -> AttendanceRows]
        /\ \A d \in CheckDates : attendance'[d] = attendance[d] \/ attendance'[d].source = "biometric"
    BY <1>0, <2>2, <2>7 DEF AttendanceRows
  <2>9. ASSUME NEW d \in CheckDates \ unexplained' PROVE DateExplained(d)'
    <3>1. \A b \in Clients : Explaining(b, d)' = Explaining(b, d)
      BY <2>1, <2>5, <2>6 DEF Explaining
    <3>2. \A b \in Clients : Explaining(b, d) => attendanceReq'[b].new = attendanceReq[b].new
      BY <2>1, <2>6 DEF Explaining
    <3>3. QED
      BY <1>0, <2>3, <2>8, <3>1, <3>2, StaysExplained
  <2>10. \A d \in Clients : attendanceReq'[d].op = "sync" => attendanceReq'[d].row \in 1..Len(syncLog')
    BY <1>0, <2>1, <2>3, <2>5, <2>6
  <2>11. QED
    BY <1>0, <2>3, <2>6, <2>8, <2>9, <2>10 DEF AttendanceInv
<1>4. ASSUME NEW c \in Clients, EndSync(c) PROVE AttendanceInv'
  <2>1. PICK q \in SyncCalls : q = attendanceReq[c] /\ q.op = "sync"
    BY <1>0, <1>4, AttendanceKinds DEF EndSync
  <2>2. PICK w : w = [status |-> SyncOutcome(q), stored |-> Cardinality(q.batch \ q.left)]
    OBVIOUS
  <2>3. /\ syncLog' = [syncLog EXCEPT ![q.row] = w] /\ attendanceReq' = [attendanceReq EXCEPT ![c] = Idle]
        /\ UNCHANGED <<attendance, corrections, unexplained>>
    BY <1>4, <2>1, <2>2 DEF EndSync
  <2>4. w \in SyncRows
    <3>1. PICK D \in SUBSET CheckDates : D = q.batch \ q.left
      BY <2>1 DEF SyncCalls
    <3>2. Cardinality(D) \in Nat /\ Cardinality(CheckDates) \in Nat /\ Cardinality(D) <= Cardinality(CheckDates)
      BY AttendanceAssumption, FS_Subset, FS_CardinalityType
    <3>3. Cardinality(q.batch \ q.left) \in 0..Cardinality(CheckDates)
      BY <3>1, <3>2
    <3>4. QED
      BY <2>2, <3>3 DEF SyncRows, SyncOutcome
  <2>5. syncLog' \in Seq(SyncRows) /\ Len(syncLog') = Len(syncLog)
    BY <1>0, <2>1, <2>3, <2>4, OneChanged
  <2>6. attendanceReq' \in [Clients -> {Idle} \cup SyncCalls \cup CorrectCalls]
        /\ \A d \in Clients : attendanceReq'[d] = IF d = c THEN Idle ELSE attendanceReq[d]
    BY <1>0, <2>3
  <2>7. ASSUME NEW d \in CheckDates \ unexplained' PROVE DateExplained(d)'
    <3>1. \A b \in Clients : Explaining(b, d)' = Explaining(b, d)
      BY <2>1, <2>6, AttendanceKinds DEF Explaining
    <3>2. \A b \in Clients : Explaining(b, d) => attendanceReq'[b].new = attendanceReq[b].new
      BY <2>1, <2>6 DEF Explaining
    <3>3. QED
      BY <1>0, <2>3, <3>1, <3>2, StaysExplained
  <2>8. \A d \in Clients : attendanceReq'[d].op = "sync" => attendanceReq'[d].row \in 1..Len(syncLog')
    BY <1>0, <2>5, <2>6, AttendanceKinds
  <2>9. QED
    BY <1>0, <2>3, <2>5, <2>6, <2>7, <2>8 DEF AttendanceInv
<1>5. ASSUME NEW c \in Clients, ReadRecord(c) PROVE AttendanceInv'
  <2>1. PICK date \in CheckDates, clock \in ClockTimes :
          attendanceReq' = [attendanceReq EXCEPT ![c] =
            [op |-> "correct", row |-> date, old |-> attendance[date].clock, new |-> clock]]
    BY <1>5 DEF ReadRecord
  <2>2. attendanceReq[c] = Idle /\ UNCHANGED <<attendance, corrections, syncLog, unexplained>>
    BY <1>5 DEF ReadRecord
  <2>3. PICK n : n = [op |-> "correct", row |-> date, old |-> attendance[date].clock, new |-> clock]
    OBVIOUS
  <2>4. n \in CorrectCalls /\ n.op = "correct"
    BY <1>0, <2>1, <2>3 DEF CorrectCalls, AttendanceRows
  <2>5. attendanceReq' \in [Clients -> {Idle} \cup SyncCalls \cup CorrectCalls]
        /\ \A d \in Clients : attendanceReq'[d] = IF d = c THEN n ELSE attendanceReq[d]
    BY <1>0, <2>1, <2>3, <2>4
  <2>6. ASSUME NEW d \in CheckDates \ unexplained' PROVE DateExplained(d)'
    <3>1. \A b \in Clients : Explaining(b, d)' = Explaining(b, d)
      BY <2>2, <2>4, <2>5, AttendanceKinds DEF Explaining
    <3>2. \A b \in Clients : Explaining(b, d) => attendanceReq'[b].new = attendanceReq[b].new
      BY <2>2, <2>5, AttendanceKinds DEF Explaining
    <3>3. QED
      BY <1>0, <2>2, <3>1, <3>2, StaysExplained
  <2>7. \A d \in Clients : attendanceReq'[d].op = "sync" => attendanceReq'[d].row \in 1..Len(syncLog')
    BY <1>0, <2>2, <2>4, <2>5
  <2>8. QED
    BY <1>0, <2>2, <2>5, <2>6, <2>7 DEF AttendanceInv
<1>6. ASSUME NEW c \in Clients, CorrectRecord(c) PROVE AttendanceInv'
  <2>1. PICK q \in CorrectCalls : q = attendanceReq[c] /\ q.op = "correct"
    BY <1>0, <1>6, AttendanceKinds DEF CorrectRecord
  <2>2. PICK w : w = [source |-> "manual", clock |-> q.new]
    OBVIOUS
  <2>3. PICK n : n = [q EXCEPT !.op = "explain"]
    OBVIOUS
  <2>4. /\ attendance' = [attendance EXCEPT ![q.row] = w]
        /\ attendanceReq' = [attendanceReq EXCEPT ![c] = n]
        /\ unexplained' = IF Correcting(q.row) = {} THEN unexplained ELSE unexplained \cup {q.row}
        /\ UNCHANGED <<corrections, syncLog>>
    BY <1>0, <1>6, <2>1, <2>2, <2>3 DEF CorrectRecord, Upsert
  <2>5. q.row \in CheckDates /\ q.new \in ClockTimes
    BY <2>1 DEF CorrectCalls
  <2>6. n \in CorrectCalls /\ n.op = "explain" /\ n.row = q.row /\ n.new = q.new
    BY <2>1, <2>3 DEF CorrectCalls
  <2>7. w \in AttendanceRows /\ w.clock = q.new
    BY <2>2, <2>5 DEF AttendanceRows
  <2>8. attendanceReq' \in [Clients -> {Idle} \cup SyncCalls \cup CorrectCalls]
        /\ \A d \in Clients : attendanceReq'[d] = IF d = c THEN n ELSE attendanceReq[d]
    BY <1>0, <2>4, <2>6
  <2>9. /\ attendance' \in [CheckDates -> AttendanceRows]
        /\ \A d \in CheckDates : attendance'[d] = IF d = q.row THEN w ELSE attendance[d]
    BY <1>0, <2>4, <2>5, <2>7
  <2>10. unexplained' \subseteq CheckDates /\ unexplained \subseteq unexplained'
    BY <1>0, <2>4, <2>5
  <2>11. ASSUME NEW d \in CheckDates \ unexplained' PROVE DateExplained(d)'
    <3>1. CASE d = q.row
      <4>1. Correcting(q.row) = {}
        BY <2>4, <2>11, <3>1
      <4>2. \A b \in Clients : ~ Explaining(b, d)
        BY <3>1, <4>1 DEF Correcting, Explaining
      <4>3. \A b \in Clients : Explaining(b, d)' <=> b = c
        BY <2>6, <2>8, <3>1, <4>2 DEF Explaining
      <4>4. attendance'[d].clock = attendanceReq'[c].new
        BY <2>6, <2>7, <2>8, <2>9, <3>1
      <4>5. QED
        BY <4>3, <4>4 DEF DateExplained
    <3>2. CASE d # q.row
      <4>1. \A b \in Clients : Explaining(b, d)' = Explaining(b, d)
        BY <2>1, <2>6, <2>8, <3>2 DEF Explaining
      <4>2. \A b \in Clients : Explaining(b, d) => attendanceReq'[b].new = attendanceReq[b].new
        BY <2>1, <2>8 DEF Explaining
      <4>3. QED
        BY <1>0, <2>4, <2>9, <2>10, <2>11, <3>2, <4>1, <4>2, StaysExplained
    <3>3. QED
      BY <3>1, <3>2
  <2>12. \A d \in Clients : attendanceReq'[d].op = "sync" => attendanceReq'[d].row \in 1..Len(syncLog')
    BY <1>0, <2>4, <2>6, <2>8
  <2>13. QED
    BY <1>0, <2>4, <2>8, <2>9, <2>10, <2>11, <2>12 DEF AttendanceInv
<1>7. ASSUME NEW c \in Clients, ExplainCorrection(c) PROVE AttendanceInv'
  <2>1. PICK q \in CorrectCalls : q = attendanceReq[c] /\ q.op = "explain"
    BY <1>0, <1>7, AttendanceKinds DEF ExplainCorrection
  <2>2. PICK k : k = [date |-> q.row, old |-> q.old, new |-> q.new]
    OBVIOUS
  <2>3. /\ Len(corrections) < MaxCorrections /\ corrections' = corrections \o <<k>>
        /\ attendanceReq' = [attendanceReq EXCEPT ![c] = Idle]
        /\ UNCHANGED <<attendance, syncLog, unexplained>>
    BY <1>7, <2>1, <2>2 DEF ExplainCorrection, Correction
  <2>4. k \in CorrectionRows /\ k.date = q.row /\ k.new = q.new
    BY <2>1, <2>2 DEF CorrectCalls, CorrectionRows
  <2>5. /\ corrections' \in Seq(CorrectionRows) /\ Len(corrections') = Len(corrections) + 1
        /\ DOMAIN corrections' = 1..(Len(corrections) + 1) /\ DOMAIN corrections = 1..Len(corrections)
        /\ corrections'[Len(corrections) + 1] = k
        /\ \A j \in DOMAIN corrections : corrections'[j] = corrections[j]
    BY <1>0, <2>3, <2>4, OneMore
  <2>6. Len(corrections') <= MaxCorrections
    BY <1>00, <2>3, <2>5, AttendanceAssumption
  <2>7. attendanceReq' \in [Clients -> {Idle} \cup SyncCalls \cup CorrectCalls]
        /\ \A d \in Clients : attendanceReq'[d] = IF d = c THEN Idle ELSE attendanceReq[d]
    BY <1>0, <2>3
  <2>8. ASSUME NEW d \in CheckDates \ unexplained' PROVE DateExplained(d)'
    <3>1. CASE d = q.row
      <4>1. Explaining(c, d) /\ DateExplained(d)
        BY <1>0, <2>1, <2>3, <2>8, <3>1 DEF Explaining
      <4>2. \A b \in Clients : ~ Explaining(b, d)'
        BY <2>7, <4>1, AttendanceKinds DEF Explaining, DateExplained
      <4>3. ASSUME attendance'[d].source = "manual" PROVE LastCorrection(d)'
        <5>1. attendance'[d].clock = q.new
          BY <2>1, <2>3, <4>1, <4>3 DEF DateExplained
        <5>2. Len(corrections) + 1 \in DOMAIN corrections'
          BY <1>00, <2>5
        <5>3. \A j \in DOMAIN corrections' : j <= Len(corrections) + 1
          BY <1>00, <2>5
        <5>4. QED
          BY <2>4, <2>5, <3>1, <5>1, <5>2, <5>3 DEF LastCorrection
      <4>4. QED
        BY <4>2, <4>3 DEF DateExplained
    <3>2. CASE d # q.row
      <4>1. \A b \in Clients : Explaining(b, d)' <=> Explaining(b, d)
        BY <2>1, <2>7, <3>2, AttendanceKinds DEF Explaining
      <4>2. \A b \in Clients : Explaining(b, d) => attendanceReq'[b] = attendanceReq[b]
        BY <2>1, <2>7, <3>2 DEF Explaining
      <4>3. LastCorrection(d) => LastCorrection(d)'
        <5>1. SUFFICES ASSUME LastCorrection(d) PROVE LastCorrection(d)'
          OBVIOUS
        <5>2. PICK i \in DOMAIN corrections :
                /\ corrections[i].date = d /\ corrections[i].new = attendance[d].clock
                /\ \A j \in DOMAIN corrections : corrections[j].date = d => j <= i
          BY <5>1 DEF LastCorrection
        <5>3. i \in DOMAIN corrections' /\ corrections'[i].date = d /\ corrections'[i].new = attendance'[d].clock
          BY <1>00, <2>3, <2>5, <5>2
        <5>4. ASSUME NEW j \in DOMAIN corrections', corrections'[j].date = d PROVE j <= i
          <6>1. j # Len(corrections) + 1
            BY <2>4, <2>5, <3>2, <5>4
          <6>2. j \in DOMAIN corrections
            BY <1>00, <2>5, <6>1
          <6>3. QED
            BY <2>5, <5>2, <5>4, <6>2
        <5>5. QED
          BY <5>3, <5>4 DEF LastCorrection
      <4>4. DateExplained(d)
        BY <1>0, <2>3, <2>8
      <4>5. QED
        BY <2>3, <4>1, <4>2, <4>3, <4>4 DEF DateExplained
    <3>3. QED
      BY <3>1, <3>2
  <2>9. \A d \in Clients : attendanceReq'[d].op = "sync" => attendanceReq'[d].row \in 1..Len(syncLog')
    BY <1>0, <2>3, <2>7, AttendanceKinds
  <2>10. QED
    BY <1>0, <2>3, <2>5, <2>6, <2>7, <2>8, <2>9 DEF AttendanceInv
<1>8. ASSUME NEW c \in Clients, CrashAttendance(c) PROVE AttendanceInv'
  <2>1. PICK q \in {Idle} \cup SyncCalls \cup CorrectCalls : q = attendanceReq[c]
    BY <1>0
  <2>2. /\ attendanceReq' = [attendanceReq EXCEPT ![c] = Idle]
        /\ unexplained' = IF q.op = "explain" THEN unexplained \cup {q.row} ELSE unexplained
        /\ UNCHANGED <<attendance, corrections, syncLog>>
    BY <1>8, <2>1 DEF CrashAttendance
  <2>3. q.op = "explain" => q.row \in CheckDates
    BY AttendanceKinds DEF CorrectCalls
  <2>4. unexplained' \subseteq CheckDates /\ unexplained \subseteq unexplained'
    BY <1>0, <2>2, <2>3
  <2>5. attendanceReq' \in [Clients -> {Idle} \cup SyncCalls \cup CorrectCalls]
        /\ \A d \in Clients : attendanceReq'[d] = IF d = c THEN Idle ELSE attendanceReq[d]
    BY <1>0, <2>2
  <2>6. ASSUME NEW d \in CheckDates \ unexplained' PROVE DateExplained(d)'
    <3>1. ~ Explaining(c, d)
      BY <2>1, <2>2, <2>6 DEF Explaining
    <3>2. \A b \in Clients : Explaining(b, d)' = Explaining(b, d)
      BY <2>5, <3>1, AttendanceKinds DEF Explaining
    <3>3. \A b \in Clients : Explaining(b, d) => attendanceReq'[b].new = attendanceReq[b].new
      BY <2>5, <3>1
    <3>4. QED
      BY <1>0, <2>2, <2>4, <2>6, <3>2, <3>3, StaysExplained
  <2>7. \A d \in Clients : attendanceReq'[d].op = "sync" => attendanceReq'[d].row \in 1..Len(syncLog')
    BY <1>0, <2>2, <2>5, AttendanceKinds
  <2>8. QED
    BY <1>0, <2>2, <2>4, <2>5, <2>6, <2>7 DEF AttendanceInv
<1>9. QED
  BY <1>1, <1>2, <1>3, <1>4, <1>5, <1>6, <1>7, <1>8 DEF AttendanceNext

\* The types, and what the corrections explain, follow.
LEMMA AttendanceSafe == ASSUME AttendanceInv PROVE AttendanceTypeOK /\ ManualIsExplained
<1>1. \A k \in DOMAIN corrections : corrections[k].date \in CheckDates
  <2>1. PICK T : T = CorrectionRows
    OBVIOUS
  <2>2. \A k \in DOMAIN corrections : corrections[k] \in T
    BY <2>1 DEF AttendanceInv
  <2>3. QED
    BY <2>1, <2>2 DEF CorrectionRows
<1>2. \A c \in Clients : attendanceReq[c] # Idle => attendanceReq[c].op \in {"sync", "correct", "explain"}
  BY AttendanceKinds DEF AttendanceInv
<1>3. AttendanceTypeOK
  BY <1>1, <1>2 DEF AttendanceInv, AttendanceTypeOK, AttendanceRows, SyncRows
<1>4. ASSUME NEW d \in CheckDates \ unexplained, attendance[d].source = "manual", Correcting(d) = {}
      PROVE  LastCorrection(d)
  <2>1. \A c \in Clients : ~ Explaining(c, d)
    BY <1>4 DEF Correcting, Explaining
  <2>2. QED
    BY <1>4, <2>1 DEF AttendanceInv, DateExplained
<1>5. QED
  BY <1>3, <1>4 DEF ManualIsExplained, LastCorrection

(*************************************************************************)
(* Failed logins.                                                        *)
(* A login that nothing has overtaken has seen the attempts as they are. *)
(*************************************************************************)

LoginRequests == [op : {"fail", "reset"}, seen : 0..MaxFailures, stale : BOOLEAN]

LockoutInv ==
  /\ LockoutTypeOK
  /\ \A c \in Clients : loginReq[c] # Idle /\ ~ loginReq[c].stale => loginReq[c].seen = attempts
  /\ FailuresAreCounted

\* The types, with the sets they are about named.
LEMMA LockoutTyped ==
  LockoutTypeOK <=>
    /\ attempts \in 0..MaxFailures /\ failures \in 0..MaxFailures
    /\ lockedUntil \in BOOLEAN /\ wasLocked \in BOOLEAN /\ failuresMixed \in BOOLEAN
    /\ loginReq \in [Clients -> {Idle} \cup LoginRequests]
BY DEF LockoutTypeOK, LoginRequests

\* After a login that wrote, the others have seen other attempts.
LEMMA LoginOvertakes ==
  ASSUME LockoutInv, NEW c \in Clients,
         loginReq' = Overtake(loginReq, c, Idle, LAMBDA d : TRUE)
  PROVE  /\ loginReq' \in [Clients -> {Idle} \cup LoginRequests]
         /\ \A d \in Clients : loginReq'[d] # Idle => loginReq'[d].stale
<1>1. loginReq \in [Clients -> {Idle} \cup LoginRequests]
  BY LockoutTyped DEF LockoutInv
<1>2. \A d \in Clients :
        loginReq'[d] = IF d = c THEN Idle
                       ELSE IF loginReq[d] # Idle THEN [loginReq[d] EXCEPT !.stale = TRUE] ELSE loginReq[d]
  BY DEF Overtake
<1>3. ASSUME NEW d \in Clients
      PROVE  loginReq'[d] \in {Idle} \cup LoginRequests /\ (loginReq'[d] # Idle => loginReq'[d].stale)
  <2>1. PICK r : r = loginReq[d]
    OBVIOUS
  <2>2. r \in {Idle} \cup LoginRequests
    BY <1>1, <2>1
  <2>3. CASE r = Idle \/ d = c
    BY <1>2, <2>1, <2>3
  <2>4. CASE r # Idle /\ d # c
    <3>1. loginReq'[d] = [r EXCEPT !.stale = TRUE]
      BY <1>2, <2>1, <2>4
    <3>2. QED
      BY <2>2, <2>4, <3>1 DEF LoginRequests
  <2>5. QED
    BY <2>3, <2>4
<1>4. loginReq' = [d \in Clients |-> loginReq'[d]]
  BY DEF Overtake
<1>5. QED
  BY <1>3, <1>4

\* No login has begun at the start.
LEMMA LockoutStart == ASSUME LockoutInit PROVE LockoutInv
<1> USE LockoutAssumption DEF LockoutInit
<1>1. 0 \in 0..MaxFailures /\ ~ (0 >= MaxFailedAttempts)
  OBVIOUS
<1>2. LockoutTypeOK
  BY <1>1, LockoutTyped
<1>3. QED
  BY <1>1, <1>2 DEF LockoutInv, FailuresAreCounted

\* Every step of the logins keeps the invariant.
LEMMA LockoutStep == ASSUME LockoutInv, [LockoutNext]_lockoutVars PROVE LockoutInv'
<1>1. CASE UNCHANGED lockoutVars
  BY <1>1 DEF lockoutVars, LockoutInv, LockoutTypeOK, FailuresAreCounted
<1>2. CASE UnlockByTime
  BY <1>2 DEF UnlockByTime, LockoutInv, LockoutTypeOK, FailuresAreCounted
<1>3. ASSUME NEW c \in Clients, ReadUser(c) \/ DropLogin(c) PROVE LockoutInv'
  <2>1. PICK r \in {Idle} \cup LoginRequests :
          loginReq' = [loginReq EXCEPT ![c] = r] /\ (r # Idle => r.seen = attempts)
    <3>1. attempts \in 0..MaxFailures
      BY LockoutTyped DEF LockoutInv
    <3>2. CASE ReadUser(c)
      <4>1. PICK op \in {"fail", "reset"} :
              loginReq' = [loginReq EXCEPT ![c] = [op |-> op, seen |-> attempts, stale |-> FALSE]]
        BY <3>2 DEF ReadUser
      <4>2. PICK r : r = [op |-> op, seen |-> attempts, stale |-> FALSE]
        OBVIOUS
      <4>3. r \in LoginRequests /\ r.seen = attempts
        BY <3>1, <4>2 DEF LoginRequests
      <4>4. QED
        BY <4>1, <4>2, <4>3
    <3>3. QED
      BY <1>3, <3>2 DEF DropLogin
  <2>2. UNCHANGED <<attempts, lockedUntil, failures, wasLocked, failuresMixed>>
    BY <1>3 DEF ReadUser, DropLogin
  <2>3. /\ loginReq' \in [Clients -> {Idle} \cup LoginRequests]
        /\ loginReq'[c] = r /\ \A d \in Clients : d # c => loginReq'[d] = loginReq[d]
    BY <2>1, LockoutTyped DEF LockoutInv
  <2>4. LockoutTypeOK'
    BY <2>2, <2>3 DEF LockoutInv, LockoutTypeOK, LoginRequests
  <2>5. QED
    BY <2>1, <2>2, <2>3, <2>4 DEF LockoutInv, FailuresAreCounted
<1>4. ASSUME NEW c \in Clients, CountFailure(c) \/ ResetAttempts(c) PROVE LockoutInv'
  <2>1. /\ loginReq' \in [Clients -> {Idle} \cup LoginRequests]
        /\ \A d \in Clients : loginReq'[d] # Idle => loginReq'[d].stale
    BY <1>4, LoginOvertakes DEF CountFailure, ResetAttempts
  <2>2. PICK r : r = loginReq[c]
    OBVIOUS
  <2>3. /\ r \in {Idle} \cup LoginRequests /\ (r # Idle /\ ~ r.stale => r.seen = attempts)
        /\ attempts \in 0..MaxFailures /\ failures \in 0..MaxFailures
        /\ lockedUntil \in BOOLEAN /\ wasLocked \in BOOLEAN /\ failuresMixed \in BOOLEAN
    BY <2>2, LockoutTyped DEF LockoutInv
  <2>4. CASE CountFailure(c)
    <3>1. /\ r \in LoginRequests /\ r # Idle
      BY <2>2, <2>3, <2>4 DEF CountFailure, Idle, LoginRequests
    <3>2. r.seen \in 0..MaxFailures /\ r.stale \in BOOLEAN
      BY <3>1 DEF LoginRequests
    <3>3. /\ failures < MaxFailures /\ r.seen < MaxFailures
          /\ attempts' = r.seen + 1 /\ failures' = failures + 1
          /\ lockedUntil' = (lockedUntil \/ Locks(r.seen + 1)) /\ wasLocked' = (wasLocked \/ Locks(r.seen + 1))
          /\ failuresMixed' = (failuresMixed \/ r.stale)
      BY <2>2, <2>4 DEF CountFailure
    <3>4. /\ attempts' \in 0..MaxFailures /\ failures' \in 0..MaxFailures
      BY <2>3, <3>2, <3>3, LockoutAssumption
    <3>5. /\ lockedUntil' \in BOOLEAN /\ wasLocked' \in BOOLEAN /\ failuresMixed' \in BOOLEAN
      BY <3>3
    <3>6. FailuresAreCounted'
      <4>1. CASE failuresMixed \/ r.stale
        BY <3>3, <4>1 DEF FailuresAreCounted
      <4>2. CASE ~ failuresMixed /\ ~ r.stale
        <5>1. r.seen = attempts /\ attempts = failures
          BY <2>3, <3>1, <4>2 DEF LockoutInv, FailuresAreCounted
        <5>2. attempts' = failures' /\ (failures' >= MaxFailedAttempts => wasLocked')
          BY <3>3, <5>1 DEF Locks
        <5>3. QED
          BY <5>2 DEF FailuresAreCounted
      <4>3. QED
        BY <4>1, <4>2
    <3>7. QED
      BY <2>1, <3>4, <3>5, <3>6, LockoutTyped DEF LockoutInv, LockoutTypeOK, LoginRequests
  <2>5. CASE ResetAttempts(c)
    <3>1. attempts' = 0 /\ failures' = 0 /\ lockedUntil' = FALSE /\ wasLocked' = FALSE /\ failuresMixed' = FALSE
      BY <2>5 DEF ResetAttempts
    <3>2. 0 \in 0..MaxFailures /\ ~ (0 >= MaxFailedAttempts)
      BY LockoutAssumption
    <3>3. LockoutTypeOK'
      BY <2>1, <3>1, <3>2 DEF LockoutTypeOK, LoginRequests
    <3>4. QED
      BY <2>1, <3>1, <3>2, <3>3 DEF LockoutInv, FailuresAreCounted
  <2>6. QED
    BY <1>4, <2>4, <2>5
<1>5. QED
  BY <1>1, <1>2, <1>3, <1>4 DEF LockoutNext

(*************************************************************************)
(* Sessions.                                                             *)
(* Once a token is on the blacklist, the refresh that has put it there is the *)
(* only one, of those that have passed its checks, that is not overtaken. *)
(*************************************************************************)

TokenRecords ==
  [status : {"none", "live", "revoked", "expired"}, parent : Tokens \cup {NoRow},
   password : 0..MaxPasswordChanges, late : BOOLEAN]

\* A refresh that has passed both checks of its token.
PassedChecks(r) == r.op \in {"revoke", "blacklist", "load", "issue"} /\ r.kind = "refresh"

\* What a request has found out about its token: once the token is on the blacklist, only
\* the refresh that has put it there is not overtaken.
TokenRead(r, tokens, black, twice) ==
  /\ r.op \in {"check", "revoke", "blacklist"} => r.row \in Tokens
  /\ r.op = "load" => r.kind = "refresh"
  /\ r.op = "issue" => r.kind = "refresh" \/ r.row = NoRow
  /\ PassedChecks(r) /\ r.op \in {"revoke", "blacklist"} /\ r.row \in black => r.stale
  /\ PassedChecks(r) /\ r.op \in {"load", "issue"} => r.row \in black
  /\ PassedChecks(r) /\ r.row # NoRow /\ (\E u \in Tokens : tokens[u].parent = r.row)
       => r.stale \/ r.row \in twice

\* Of two refreshes of a token, the first to put it on the blacklist has overtaken the other.
RefreshesApart(reqs) ==
  \A c, d \in Clients :
    /\ c # d /\ PassedChecks(reqs[c]) /\ PassedChecks(reqs[d])
    /\ reqs[c].row = reqs[d].row /\ reqs[c].op \in {"load", "issue"}
    => reqs[d].stale

SessionsInv ==
  /\ SessionsTypeOK
  /\ \A u \in Tokens : token[u].parent # NoRow => token[u].parent \in blacklist
  /\ \A c \in Clients : TokenRead(sessionReq[c], token, blacklist, reused)
  /\ RefreshesApart(sessionReq)
  /\ TokenRotatesOnce
  /\ OldSessionsEnd

\* The types, with the sets they are about named.
LEMMA SessionsTyped ==
  SessionsTypeOK <=>
    /\ active \in BOOLEAN /\ {passwords, changedAt} \subseteq 0..MaxPasswordChanges
    /\ token \in [Tokens -> TokenRecords]
    /\ blacklist \subseteq Tokens
    /\ sessionReq \in [Clients -> {Idle} \cup SessionRequests]
    /\ reused \subseteq Tokens \cup {NoRow}
BY DEF SessionsTypeOK, TokenRecords

\* A running request is not idle; a token that was not issued has no parent.
LEMMA SessionKinds ==
  /\ Idle.op = "idle" /\ ~ PassedChecks(Idle)
  /\ \A r \in SessionRequests : r # Idle /\ r.op # "idle" /\ r.stale \in BOOLEAN
  /\ NoToken \in TokenRecords /\ NoToken.parent = NoRow /\ NoToken.status = "none"
BY SessionsAssumption DEF Idle, PassedChecks, SessionRequests, NoToken, TokenRecords

\* A request that is not running has found out nothing.
LEMMA SessionIdle == ASSUME NEW tokens, NEW black, NEW twice PROVE TokenRead(Idle, tokens, black, twice)
BY DEF TokenRead, PassedChecks, Idle

\* The tokens change in their status, and one request goes on.
LEMMA SessionRequestStep ==
  ASSUME SessionsInv, NEW c \in Clients, NEW r \in {Idle} \cup SessionRequests,
         sessionReq' = [sessionReq EXCEPT ![c] = r], TokenRead(r, token, blacklist, reused),
         \A d \in Clients \ {c} :
           PassedChecks(r) /\ PassedChecks(sessionReq[d]) /\ sessionReq[d].row = r.row
             => /\ r.op \in {"load", "issue"} => sessionReq[d].stale
                /\ sessionReq[d].op \in {"load", "issue"} => r.stale,
         token' \in [Tokens -> TokenRecords],
         \A t \in Tokens : token'[t].parent = token[t].parent,
         {passwords', changedAt'} \subseteq 0..MaxPasswordChanges, UNCHANGED <<active, blacklist, reused>>,
         OldSessionsEnd'
  PROVE  SessionsInv'
<1>1. /\ sessionReq' \in [Clients -> {Idle} \cup SessionRequests]
      /\ sessionReq'[c] = r /\ \A d \in Clients : d # c => sessionReq'[d] = sessionReq[d]
  BY SessionsTyped DEF SessionsInv
<1>2. SessionsTypeOK'
  BY <1>1 DEF SessionsInv, SessionsTypeOK, TokenRecords
<1>3. \A u \in Tokens : token'[u].parent # NoRow => token'[u].parent \in blacklist'
  BY DEF SessionsInv
<1>4. ASSUME NEW d \in Clients PROVE TokenRead(sessionReq'[d], token', blacklist', reused')
  <2>1. TokenRead(sessionReq'[d], token, blacklist, reused)
    BY <1>1 DEF SessionsInv
  <2>2. QED
    BY <2>1 DEF TokenRead
<1>5. RefreshesApart(sessionReq')
  BY <1>1 DEF SessionsInv, RefreshesApart
<1>6. TokenRotatesOnce'
  BY DEF SessionsInv, TokenRotatesOnce
<1>7. QED
  BY <1>2, <1>3, <1>4, <1>5, <1>6 DEF SessionsInv

\* The same, when no token changes.
LEMMA SessionPlainStep ==
  ASSUME SessionsInv, NEW c \in Clients, NEW r \in {Idle} \cup SessionRequests,
         sessionReq' = [sessionReq EXCEPT ![c] = r], TokenRead(r, token, blacklist, reused),
         \A d \in Clients \ {c} :
           PassedChecks(r) /\ PassedChecks(sessionReq[d]) /\ sessionReq[d].row = r.row
             => /\ r.op \in {"load", "issue"} => sessionReq[d].stale
                /\ sessionReq[d].op \in {"load", "issue"} => r.stale,
         UNCHANGED <<active, passwords, changedAt, token, blacklist, reused>>
  PROVE  SessionsInv'
<1>1. token' \in [Tokens -> TokenRecords] /\ {passwords', changedAt'} \subseteq 0..MaxPasswordChanges
  BY SessionsTyped DEF SessionsInv
<1>2. OldSessionsEnd'
  BY DEF SessionsInv, OldSessionsEnd
<1>3. \A t \in Tokens : token'[t].parent = token[t].parent
  OBVIOUS
<1>4. QED
  BY <1>1, <1>2, <1>3, SessionRequestStep

\* Requests begin, find the token on no blacklist, load the user and end.
LEMMA SessionRequestSteps ==
  ASSUME SessionsInv, NEW c \in Clients,
         \/ LogIn(c) \/ FindToken(c) \/ ReadPassword(c) \/ CheckBlacklist(c) \/ LoadUser(c)
         \/ DropSessionRequest(c)
  PROVE  SessionsInv'
<1>1. PICK q : q = sessionReq[c]
  OBVIOUS
<1>2. /\ q \in {Idle} \cup SessionRequests /\ TokenRead(q, token, blacklist, reused)
      /\ token \in [Tokens -> TokenRecords] /\ {passwords, changedAt} \subseteq 0..MaxPasswordChanges
  BY <1>1, SessionsTyped DEF SessionsInv
<1>3. UNCHANGED <<active, passwords, changedAt, token, blacklist, reused>>
  BY DEF LogIn, FindToken, ReadPassword, CheckBlacklist, LoadUser, DropSessionRequest
<1>4. CASE LogIn(c) \/ ReadPassword(c) \/ DropSessionRequest(c)
  <2>1. PICK op \in {"issue", "change"}, kind \in {"login", "change"} :
             \/ sessionReq' = [sessionReq EXCEPT ![c] = SessionReq(op, kind, NoRow, passwords)]
             \/ sessionReq' = [sessionReq EXCEPT ![c] = Idle]
    BY <1>4 DEF LogIn, ReadPassword, DropSessionRequest
  <2>2. PICK r : /\ r \in {SessionReq(op, kind, NoRow, passwords), Idle}
                 /\ sessionReq' = [sessionReq EXCEPT ![c] = r]
    BY <2>1
  <2>3. r \in {Idle} \cup SessionRequests
    <3>1. SessionReq(op, kind, NoRow, passwords) \in SessionRequests
      BY <1>2 DEF SessionReq, SessionRequests
    <3>2. QED
      BY <2>2, <3>1
  <2>4. ~ PassedChecks(r) /\ TokenRead(r, token, blacklist, reused)
    BY <2>2 DEF SessionReq, PassedChecks, TokenRead, Idle
  <2>5. QED
    BY <1>3, <2>2, <2>3, <2>4, SessionPlainStep
<1>5. CASE FindToken(c)
  <2>1. PICK t \in Tokens, kind \in {"refresh", "logout"} :
          sessionReq' = [sessionReq EXCEPT ![c] =
            SessionReq(IF kind = "refresh" THEN "check" ELSE "revoke", kind, t, token[t].password)]
    BY <1>5 DEF FindToken
  <2>2. PICK r : r = SessionReq(IF kind = "refresh" THEN "check" ELSE "revoke", kind, t, token[t].password)
    OBVIOUS
  <2>3. token[t].password \in 0..MaxPasswordChanges
    BY <1>2 DEF TokenRecords
  <2>4. r \in SessionRequests
    BY <2>2, <2>3 DEF SessionReq, SessionRequests
  <2>5. ~ PassedChecks(r) /\ TokenRead(r, token, blacklist, reused)
    BY <2>2 DEF SessionReq, PassedChecks, TokenRead
  <2>6. QED
    BY <1>3, <2>1, <2>2, <2>4, <2>5, SessionPlainStep
<1>6. CASE CheckBlacklist(c)
  <2>1. /\ q.op = "check" /\ q.row \notin blacklist
        /\ sessionReq' = [sessionReq EXCEPT ![c].op = "revoke"]
    BY <1>1, <1>6 DEF CheckBlacklist, Continue, Accepted
  <2>2. PICK r : r = [q EXCEPT !.op = "revoke"]
    OBVIOUS
  <2>3. sessionReq' = [sessionReq EXCEPT ![c] = r]
    BY <1>1, <1>2, <2>1, <2>2, SessionsTyped DEF SessionsInv
  <2>4. q \in SessionRequests
    BY <1>2, <2>1, SessionKinds
  <2>5. r \in SessionRequests /\ r.op = "revoke" /\ r.row = q.row
    BY <2>2, <2>4 DEF SessionRequests
  <2>6. TokenRead(r, token, blacklist, reused)
    BY <1>2, <2>1, <2>5 DEF TokenRead, SessionsInv
  <2>7. \A d \in Clients : PassedChecks(sessionReq[d]) /\ sessionReq[d].row = r.row
                             => sessionReq[d].op \notin {"load", "issue"}
    BY <2>1, <2>5 DEF SessionsInv, TokenRead
  <2>8. QED
    BY <1>3, <2>3, <2>5, <2>6, <2>7, SessionPlainStep
<1>7. CASE LoadUser(c)
  <2>1. q.op = "load" /\ sessionReq' = [sessionReq EXCEPT ![c].op = "issue"]
    BY <1>1, <1>7 DEF LoadUser, Continue
  <2>2. PICK r : r = [q EXCEPT !.op = "issue"]
    OBVIOUS
  <2>3. sessionReq' = [sessionReq EXCEPT ![c] = r]
    BY <1>1, <1>2, <2>1, <2>2, SessionsTyped DEF SessionsInv
  <2>4. q \in SessionRequests
    BY <1>2, <2>1, SessionKinds
  <2>5. /\ r \in SessionRequests /\ r.op = "issue" /\ r.row = q.row /\ r.stale = q.stale
        /\ r.kind = q.kind /\ q.kind = "refresh"
    BY <1>2, <2>1, <2>2, <2>4 DEF SessionRequests, TokenRead
  <2>6. PassedChecks(r) /\ PassedChecks(q)
    BY <2>1, <2>5 DEF PassedChecks
  <2>7. TokenRead(r, token, blacklist, reused)
    BY <1>2, <2>1, <2>5, <2>6 DEF TokenRead
  <2>8. ASSUME NEW d \in Clients \ {c}, PassedChecks(sessionReq[d]), sessionReq[d].row = r.row
        PROVE  sessionReq[d].stale /\ (sessionReq[d].op \in {"load", "issue"} => r.stale)
    BY <1>1, <2>1, <2>5, <2>6, <2>8 DEF SessionsInv, RefreshesApart
  <2>9. QED
    BY <1>3, <2>3, <2>5, <2>7, <2>8, SessionPlainStep
<1>8. QED
  BY <1>4, <1>5, <1>6, <1>7

\* A token is revoked in the table.
LEMMA RevokeTokenStep == ASSUME SessionsInv, NEW c \in Clients, RevokeToken(c) PROVE SessionsInv'
<1>1. PICK q : q = sessionReq[c]
  OBVIOUS
<1>2. /\ q \in {Idle} \cup SessionRequests /\ TokenRead(q, token, blacklist, reused)
      /\ token \in [Tokens -> TokenRecords] /\ {passwords, changedAt} \subseteq 0..MaxPasswordChanges
  BY <1>1, SessionsTyped DEF SessionsInv
<1>3. /\ q.op = "revoke" /\ sessionReq' = [sessionReq EXCEPT ![c].op = "blacklist"]
      /\ token' = [token EXCEPT ![q.row].status = "revoked"]
      /\ UNCHANGED <<active, passwords, changedAt, blacklist, reused>>
  BY <1>1 DEF RevokeToken, Continue
<1>4. PICK r : r = [q EXCEPT !.op = "blacklist"]
  OBVIOUS
<1>5. sessionReq' = [sessionReq EXCEPT ![c] = r]
  BY <1>1, <1>2, <1>3, <1>4, SessionsTyped DEF SessionsInv
<1>6. q \in SessionRequests
  BY <1>2, <1>3, SessionKinds
<1>7. /\ r \in SessionRequests /\ r.op = "blacklist" /\ r.row = q.row /\ r.stale = q.stale
      /\ r.kind = q.kind
  BY <1>3, <1>4, <1>6 DEF SessionRequests
<1>8. PassedChecks(r) <=> PassedChecks(q)
  BY <1>3, <1>7 DEF PassedChecks
<1>9. TokenRead(r, token, blacklist, reused)
  BY <1>2, <1>3, <1>7, <1>8 DEF TokenRead
<1>10. ASSUME NEW d \in Clients \ {c}, PassedChecks(r), PassedChecks(sessionReq[d]), sessionReq[d].row = r.row
       PROVE  sessionReq[d].op \in {"load", "issue"} => r.stale
  BY <1>1, <1>7, <1>8, <1>10 DEF SessionsInv, RefreshesApart
<1>11. ASSUME NEW t \in Tokens
       PROVE  /\ token'[t] \in TokenRecords /\ token'[t].parent = token[t].parent
              /\ token'[t].password = token[t].password /\ token'[t].late = token[t].late
              /\ token'[t].status = "live" => token[t].status = "live"
  <2>1. PICK x : x = token[t]
    OBVIOUS
  <2>2. x \in TokenRecords /\ (token'[t] = x \/ token'[t] = [x EXCEPT !.status = "revoked"])
    BY <1>2, <1>3, <2>1
  <2>3. QED
    BY <2>1, <2>2 DEF TokenRecords
<1>12. token' \in [Tokens -> TokenRecords]
  BY <1>2, <1>3, <1>11
<1>13. OldSessionsEnd'
  BY <1>3, <1>11 DEF SessionsInv, OldSessionsEnd
<1>14. {passwords', changedAt'} \subseteq 0..MaxPasswordChanges
  BY <1>2, <1>3
<1>15. QED
  BY <1>3, <1>5, <1>7, <1>9, <1>10, <1>11, <1>12, <1>13, <1>14, SessionRequestStep

\* A token is put on the blacklist: other refreshes that have passed its checks are overtaken.
LEMMA BlacklistTokenStep == ASSUME SessionsInv, NEW c \in Clients, BlacklistToken(c) PROVE SessionsInv'
<1>1. PICK q : q = sessionReq[c]
  OBVIOUS
<1>2. /\ q \in {Idle} \cup SessionRequests /\ TokenRead(q, token, blacklist, reused)
      /\ sessionReq \in [Clients -> {Idle} \cup SessionRequests]
  BY <1>1, SessionsTyped DEF SessionsInv
<1>3. PICK r : r = IF q.kind = "refresh" THEN [q EXCEPT !.op = "load"] ELSE Idle
  OBVIOUS
<1>4. /\ q.op = "blacklist" /\ blacklist' = blacklist \cup {q.row}
      /\ sessionReq' = Overtake(sessionReq, c, r, LAMBDA d : d \in PastChecks(q.row))
      /\ UNCHANGED <<active, passwords, changedAt, token, reused>>
  BY <1>1, <1>3 DEF BlacklistToken
<1>5. q \in SessionRequests
  BY <1>2, <1>4, SessionKinds
<1>6. /\ r \in {Idle} \cup SessionRequests
      /\ r # Idle => /\ r.op = "load" /\ r.row = q.row /\ r.stale = q.stale /\ r.kind = "refresh"
                     /\ q.kind = "refresh"
  BY <1>3, <1>5 DEF SessionRequests
<1>7. ASSUME NEW d \in Clients
      PROVE  /\ d = c => sessionReq'[d] = r
             /\ d # c /\ d \notin PastChecks(q.row) => sessionReq'[d] = sessionReq[d]
             /\ d # c => /\ sessionReq'[d] \in {Idle} \cup SessionRequests
                         /\ (sessionReq'[d] = Idle <=> sessionReq[d] = Idle)
                         /\ sessionReq[d] # Idle =>
                              /\ sessionReq'[d].op = sessionReq[d].op /\ sessionReq'[d].kind = sessionReq[d].kind
                              /\ sessionReq'[d].row = sessionReq[d].row
                              /\ sessionReq[d].stale => sessionReq'[d].stale
                              /\ PassedChecks(sessionReq[d]) /\ sessionReq[d].row = q.row => sessionReq'[d].stale
  <2>1. PICK x : x = sessionReq[d]
    OBVIOUS
  <2>2. x \in {Idle} \cup SessionRequests
    BY <1>2, <2>1
  <2>3. sessionReq'[d] = IF d = c THEN r
                         ELSE IF x # Idle /\ d \in PastChecks(q.row) THEN [x EXCEPT !.stale = TRUE] ELSE x
    BY <1>4, <2>1 DEF Overtake
  <2>4. d \in PastChecks(q.row) <=> PassedChecks(x) /\ x.row = q.row
    BY <2>1 DEF PastChecks, PassedChecks
  <2>5. x # Idle => x \in SessionRequests /\ [x EXCEPT !.stale = TRUE] \in SessionRequests
    BY <2>2 DEF SessionRequests
  <2>6. QED
    BY <2>1, <2>2, <2>3, <2>4, <2>5, SessionKinds DEF SessionRequests
<1>8. ASSUME NEW d \in Clients
      PROVE  PassedChecks(sessionReq'[d]) /\ d # c =>
               /\ PassedChecks(sessionReq[d]) /\ sessionReq'[d].row = sessionReq[d].row
               /\ sessionReq'[d].op = sessionReq[d].op
               /\ sessionReq[d].stale => sessionReq'[d].stale
               /\ sessionReq[d].row = q.row => sessionReq'[d].stale
  BY <1>7, SessionKinds DEF PassedChecks
<1>9. SessionsTypeOK'
  <2>1. sessionReq' \in [Clients -> {Idle} \cup SessionRequests]
    <3>1. sessionReq' = [d \in Clients |-> sessionReq'[d]]
      BY <1>4 DEF Overtake
    <3>2. QED
      BY <1>6, <1>7, <3>1
  <2>2. blacklist' \subseteq Tokens
    <3>1. q.row \in Tokens
      BY <1>2, <1>4 DEF TokenRead
    <3>2. QED
      BY <1>4, <3>1, SessionsTyped DEF SessionsInv
  <2>3. QED
    BY <1>4, <2>1, <2>2 DEF SessionsInv, SessionsTypeOK
<1>10. \A u \in Tokens : token'[u].parent # NoRow => token'[u].parent \in blacklist'
  BY <1>4 DEF SessionsInv
<1>11. ASSUME NEW d \in Clients PROVE TokenRead(sessionReq'[d], token', blacklist', reused')
  <2>1. CASE d = c
    <3>1. CASE r = Idle
      BY <1>7, <2>1, <3>1, SessionIdle
    <3>2. CASE r # Idle
      <4>1. PassedChecks(q) /\ r.row \in blacklist'
        BY <1>4, <1>6, <3>2 DEF PassedChecks
      <4>2. TokenRead(r, token', blacklist', reused')
        BY <1>2, <1>4, <1>6, <3>2, <4>1 DEF TokenRead
      <4>3. QED
        BY <1>7, <2>1, <4>2
    <3>3. QED
      BY <3>1, <3>2
  <2>2. CASE d # c
    <3>1. TokenRead(sessionReq[d], token, blacklist, reused)
      BY DEF SessionsInv
    <3>2. CASE sessionReq[d] = Idle
      BY <1>7, <2>2, <3>2, SessionIdle
    <3>3. CASE sessionReq[d] # Idle
      <4>1. PICK x, y : x = sessionReq'[d] /\ y = sessionReq[d]
        OBVIOUS
      <4>2. /\ x.op = y.op /\ x.kind = y.kind /\ x.row = y.row /\ (y.stale => x.stale)
            /\ PassedChecks(x) <=> PassedChecks(y)
            /\ PassedChecks(y) /\ y.row = q.row => x.stale
        BY <1>7, <2>2, <3>3, <4>1 DEF PassedChecks
      <4>3. TokenRead(y, token, blacklist, reused)
        BY <3>1, <4>1
      <4>4. blacklist' = blacklist \cup {q.row} /\ token' = token /\ reused' = reused
        BY <1>4
      <4>5. TokenRead(x, token, blacklist', reused)
        BY ONLY <4>2, <4>3, <4>4 DEF TokenRead
      <4>6. QED
        BY ONLY <4>1, <4>4, <4>5
    <3>4. QED
      BY <3>2, <3>3
  <2>3. QED
    BY <2>1, <2>2
<1>12. RefreshesApart(sessionReq')
  <2>1. SUFFICES ASSUME NEW b \in Clients, NEW d \in Clients, b # d,
                        PassedChecks(sessionReq'[b]), PassedChecks(sessionReq'[d]),
                        sessionReq'[b].row = sessionReq'[d].row, sessionReq'[b].op \in {"load", "issue"}
                 PROVE  sessionReq'[d].stale
    BY DEF RefreshesApart
  <2>2. CASE b = c
    <3>1. r # Idle /\ sessionReq'[d].row = q.row
      BY <1>6, <1>7, <2>1, <2>2, SessionKinds
    <3>2. QED
      BY <1>8, <2>1, <2>2, <3>1
  <2>3. CASE d = c
    <3>0. sessionReq'[d] = r /\ r # Idle
      BY <1>7, <2>1, <2>3, SessionKinds
    <3>1. r # Idle /\ PassedChecks(q) /\ r.row = q.row /\ r.stale = q.stale
      BY ONLY <1>4, <1>6, <3>0 DEF PassedChecks
    <3>2. PassedChecks(sessionReq[b]) /\ sessionReq[b].row = q.row /\ sessionReq[b].op \in {"load", "issue"}
      BY <1>7, <1>8, <2>1, <2>3, <3>1
    <3>3. q.stale
      BY <1>1, <2>1, <2>3, <3>1, <3>2 DEF SessionsInv, RefreshesApart
    <3>4. QED
      BY <1>7, <2>3, <3>1, <3>3
  <2>4. CASE b # c /\ d # c
    BY <1>8, <2>1, <2>4 DEF SessionsInv, RefreshesApart
  <2>5. QED
    BY <2>2, <2>3, <2>4
<1>13. TokenRotatesOnce' /\ OldSessionsEnd'
  BY <1>4 DEF SessionsInv, TokenRotatesOnce, OldSessionsEnd
<1>14. QED
  BY <1>9, <1>10, <1>11, <1>12, <1>13 DEF SessionsInv

\* The token of a login or of a refresh is stored.
LEMMA IssueTokenStep == ASSUME SessionsInv, NEW c \in Clients, IssueToken(c) PROVE SessionsInv'
<1>1. PICK q : q = sessionReq[c]
  OBVIOUS
<1>2. /\ q \in {Idle} \cup SessionRequests /\ TokenRead(q, token, blacklist, reused)
      /\ sessionReq \in [Clients -> {Idle} \cup SessionRequests]
      /\ token \in [Tokens -> TokenRecords] /\ blacklist \subseteq Tokens
      /\ reused \subseteq Tokens \cup {NoRow} /\ {passwords, changedAt} \subseteq 0..MaxPasswordChanges
  BY <1>1, SessionsTyped DEF SessionsInv
<1>3. PICK t \in Tokens :
        /\ token[t] = NoToken
        /\ token' = [token EXCEPT ![t] = [status |-> "live", parent |-> q.row, password |-> q.password,
                                          late |-> q.password < changedAt]]
  BY <1>1 DEF IssueToken
<1>4. /\ q.op = "issue" /\ reused' = IF q.stale THEN reused \cup {q.row} ELSE reused
      /\ sessionReq' = [sessionReq EXCEPT ![c] = Idle] /\ UNCHANGED <<active, passwords, changedAt, blacklist>>
  BY <1>1 DEF IssueToken
<1>5. q \in SessionRequests
  BY <1>2, <1>4, SessionKinds
<1>6. /\ q.row \in Tokens \cup {NoRow} /\ q.password \in 0..MaxPasswordChanges /\ q.stale \in BOOLEAN
  BY <1>5 DEF SessionRequests
<1>7. PICK new : new = [status |-> "live", parent |-> q.row, password |-> q.password,
                        late |-> q.password < changedAt]
  OBVIOUS
<1>8. /\ new \in TokenRecords /\ new.status = "live" /\ new.parent = q.row /\ new.password = q.password
      /\ new.late = (q.password < changedAt)
  BY <1>6, <1>7 DEF TokenRecords
<1>9. /\ token' \in [Tokens -> TokenRecords] /\ token'[t] = new
      /\ \A u \in Tokens : u # t => token'[u] = token[u]
  BY <1>2, <1>3, <1>7, <1>8
<1>10. /\ sessionReq' \in [Clients -> {Idle} \cup SessionRequests] /\ sessionReq'[c] = Idle
       /\ \A d \in Clients : d # c => sessionReq'[d] = sessionReq[d]
  BY <1>2, <1>4
<1>11. q.row # NoRow => PassedChecks(q) /\ q.row \in blacklist
  BY <1>2, <1>4 DEF TokenRead, PassedChecks
<1>12. reused' \subseteq Tokens \cup {NoRow} /\ reused \subseteq reused' /\ (q.stale => q.row \in reused')
  BY <1>2, <1>4, <1>6
<1>13. SessionsTypeOK'
  BY <1>4, <1>9, <1>10, <1>12 DEF SessionsInv, SessionsTypeOK, TokenRecords
<1>14. \A u \in Tokens : token'[u].parent # NoRow => token'[u].parent \in blacklist'
  BY <1>4, <1>8, <1>9, <1>11 DEF SessionsInv
<1>15. ASSUME NEW d \in Clients PROVE TokenRead(sessionReq'[d], token', blacklist', reused')
  <2>1. CASE d = c
    BY <1>10, <2>1, SessionIdle
  <2>2. CASE d # c
    <3>1. PICK x : x = sessionReq[d]
      OBVIOUS
    <3>2. sessionReq'[d] = x /\ TokenRead(x, token, blacklist, reused)
      BY <1>10, <2>2, <3>1 DEF SessionsInv
    <3>3. ASSUME PassedChecks(x), x.row # NoRow, \E u \in Tokens : token'[u].parent = x.row
          PROVE  x.stale \/ x.row \in reused'
      <4>1. CASE x.row = q.row
        BY <1>1, <1>4, <1>11, <2>2, <3>1, <3>3, <4>1 DEF SessionsInv, RefreshesApart
      <4>2. CASE x.row # q.row
        BY <1>8, <1>9, <1>12, <3>2, <3>3, <4>2 DEF TokenRead
      <4>3. QED
        BY <4>1, <4>2
    <3>4. QED
      BY <1>4, <3>2, <3>3 DEF TokenRead
  <2>3. QED
    BY <2>1, <2>2
<1>16. RefreshesApart(sessionReq')
  BY <1>10, SessionKinds DEF SessionsInv, RefreshesApart
<1>17. TokenRotatesOnce'
  <2>1. SUFFICES ASSUME NEW u \in Tokens, NEW v \in Tokens, u # v,
                        token'[u].parent = token'[v].parent, token'[u].parent # NoRow
                 PROVE  token'[u].parent \in reused'
    BY DEF TokenRotatesOnce
  <2>2. CASE u # t /\ v # t
    BY <1>9, <1>12, <2>1, <2>2 DEF SessionsInv, TokenRotatesOnce
  <2>3. CASE u = t \/ v = t
    <3>1. PICK w \in Tokens : token[w].parent = q.row
      BY <1>8, <1>9, <2>1, <2>3
    <3>2. q.row # NoRow /\ token'[u].parent = q.row
      BY <1>8, <1>9, <2>1, <2>3
    <3>3. q.stale \/ q.row \in reused
      BY <1>2, <1>11, <3>1, <3>2 DEF TokenRead
    <3>4. QED
      BY <1>12, <3>2, <3>3
  <2>4. QED
    BY <2>2, <2>3
<1>18. OldSessionsEnd'
  BY <1>4, <1>8, <1>9 DEF SessionsInv, OldSessionsEnd
<1>19. QED
  BY <1>13, <1>14, <1>15, <1>16, <1>17, <1>18 DEF SessionsInv

\* A token expires, or all are revoked with the password.
LEMMA ChangePasswordStep == ASSUME SessionsInv, NEW c \in Clients, ChangePassword(c) PROVE SessionsInv'
<1>1. token \in [Tokens -> TokenRecords] /\ {passwords, changedAt} \subseteq 0..MaxPasswordChanges
  BY SessionsTyped DEF SessionsInv
<1>2. /\ passwords < MaxPasswordChanges /\ passwords' = passwords + 1 /\ changedAt' = passwords + 1
      /\ sessionReq' = [sessionReq EXCEPT ![c] = Idle] /\ UNCHANGED <<active, blacklist, reused>>
      /\ token' = [t \in Tokens |->
           IF token[t].status = "live" THEN [token[t] EXCEPT !.status = "revoked"] ELSE token[t]]
  BY DEF ChangePassword, RevokedByChange
<1>3. ASSUME NEW t \in Tokens
      PROVE  token'[t] \in TokenRecords /\ token'[t].parent = token[t].parent /\ token'[t].status # "live"
  <2>1. PICK x : x = token[t]
    OBVIOUS
  <2>2. /\ x \in TokenRecords
        /\ token'[t] = IF x.status = "live" THEN [x EXCEPT !.status = "revoked"] ELSE x
    BY <1>1, <1>2, <2>1
  <2>3. QED
    BY <2>1, <2>2 DEF TokenRecords
<1>4. token' \in [Tokens -> TokenRecords]
  BY <1>2, <1>3
<1>5. OldSessionsEnd'
  BY <1>3 DEF OldSessionsEnd
<1>6. {passwords', changedAt'} \subseteq 0..MaxPasswordChanges
  BY <1>1, <1>2, SessionsAssumption
<1>7. TokenRead(Idle, token, blacklist, reused) /\ ~ PassedChecks(Idle)
  BY SessionIdle, SessionKinds
<1>8. QED
  BY <1>2, <1>3, <1>4, <1>5, <1>6, <1>7, SessionRequestStep

\* No token exists at the start.
LEMMA SessionsStart == ASSUME SessionsInit PROVE SessionsInv
<1>1. \A c \in Clients : sessionReq[c] = Idle
  BY DEF SessionsInit
<1>2. \A t \in Tokens : token[t] = NoToken
  BY DEF SessionsInit
<1>3. SessionsTypeOK
  BY SessionsAssumption, SessionKinds, SessionsTyped DEF SessionsInit
<1>4. \A c \in Clients : TokenRead(sessionReq[c], token, blacklist, reused)
  BY <1>1, SessionIdle
<1>5. RefreshesApart(sessionReq)
  BY <1>1, SessionKinds DEF RefreshesApart
<1>6. QED
  BY <1>2, <1>3, <1>4, <1>5, SessionKinds DEF SessionsInv, TokenRotatesOnce, OldSessionsEnd

\* Every step of the sessions keeps the invariant.
LEMMA SessionsStep == ASSUME SessionsInv, [SessionsNext]_sessionVars PROVE SessionsInv'
<1>1. CASE UNCHANGED sessionVars \/ UpdateUser
  <2>1. /\ UNCHANGED <<changedAt, token, blacklist, sessionReq, reused>> /\ active' \in BOOLEAN
        /\ passwords' \in 0..MaxPasswordChanges
    BY <1>1, SessionsTyped, SessionsAssumption DEF sessionVars, UpdateUser, SessionsInv
  <2>2. SessionsTypeOK'
    BY <2>1 DEF SessionsInv, SessionsTypeOK
  <2>3. QED
    BY <2>1, <2>2 DEF SessionsInv, TokenRotatesOnce, OldSessionsEnd
<1>2. CASE ExpireToken
  <2>1. PICK t \in Tokens : token' = [token EXCEPT ![t].status = "expired"]
    BY <1>2 DEF ExpireToken
  <2>2. UNCHANGED <<active, passwords, changedAt, blacklist, sessionReq, reused>>
    BY <1>2 DEF ExpireToken
  <2>3. token \in [Tokens -> TokenRecords]
    BY SessionsTyped DEF SessionsInv
  <2>4. ASSUME NEW u \in Tokens
        PROVE  /\ token'[u] \in TokenRecords /\ token'[u].parent = token[u].parent
               /\ token'[u].password = token[u].password /\ token'[u].late = token[u].late
               /\ token'[u].status = "live" => token[u].status = "live"
    <3>1. PICK x : x = token[u]
      OBVIOUS
    <3>2. x \in TokenRecords /\ (token'[u] = x \/ token'[u] = [x EXCEPT !.status = "expired"])
      BY <2>1, <2>3, <3>1
    <3>3. QED
      BY <3>1, <3>2 DEF TokenRecords
  <2>5. token' \in [Tokens -> TokenRecords]
    BY <2>1, <2>3, <2>4
  <2>6. SessionsTypeOK'
    BY <2>2, <2>5 DEF SessionsInv, SessionsTypeOK, TokenRecords
  <2>7. ASSUME NEW d \in Clients PROVE TokenRead(sessionReq'[d], token', blacklist', reused')
    <3>1. TokenRead(sessionReq'[d], token, blacklist, reused)
      BY <2>2 DEF SessionsInv
    <3>2. QED
      BY <2>2, <2>4, <3>1 DEF TokenRead
  <2>8. TokenRotatesOnce' /\ OldSessionsEnd'
    BY <2>2, <2>4 DEF SessionsInv, TokenRotatesOnce, OldSessionsEnd
  <2>9. QED
    BY <2>2, <2>4, <2>6, <2>7, <2>8 DEF SessionsInv
<1>3. QED
  BY <1>1, <1>2, SessionRequestSteps, RevokeTokenStep, BlacklistTokenStep, IssueTokenStep, ChangePasswordStep
  DEF SessionsNext

(*************************************************************************)
(* Roles and the permission cache.                                       *)
(* A cached entry is what the tables say, or a request that is under way *)
(* will delete it.                                                       *)
(*************************************************************************)

AccessRequests ==
  [op : {"fill", "members", "invalidate", "delete"}, row : Users \cup Roles \cup {NoRow},
   users : SUBSET Users, seen : SUBSET PermissionRows, stale : BOOLEAN]

\* What a request has read of the tables: a fill that is not stale, the permissions.
AccessRead(r, mem, gra) ==
  /\ r.op = "fill" => r.row \in Users
  /\ r.op \in {"members", "delete"} => r.row \in Roles
  /\ r.op = "fill" /\ ~ r.stale => r.seen = PermissionsOf(r.row, mem, gra)

\* Request r is about to delete the entry of user u.
Deletes(r, u, mem) ==
  \/ r.op = "invalidate" /\ u \in r.users
  \/ r.op = "members" /\ u \in mem[r.row]

AccessInv ==
  /\ AccessTypeOK
  /\ \A c \in Clients : AccessRead(accessReq[c], members, grants)
  /\ CacheIsCurrent

\* The types, with the sets they are about named.
LEMMA AccessTyped ==
  AccessTypeOK <=>
    /\ members \in [Roles -> SUBSET Users] /\ grants \in [Roles -> SUBSET PermissionRows]
    /\ roleRows \subseteq Roles
    /\ cache \in [Users -> (SUBSET PermissionRows) \cup {NotCached}]
    /\ accessReq \in [Clients -> {Idle} \cup AccessRequests]
    /\ cacheStale \subseteq Users
BY DEF AccessTypeOK, AccessRequests

\* A running request is not idle, and carries what it was begun with.
LEMMA AccessKinds ==
  /\ Idle.op = "idle"
  /\ \A r \in AccessRequests : r # Idle /\ r.op # "idle" /\ r.stale \in BOOLEAN
  /\ \A op \in {"fill", "members", "invalidate", "delete"}, row \in Users \cup Roles \cup {NoRow} :
       \A users \in SUBSET Users, seen \in SUBSET PermissionRows :
         /\ AccessReq(op, row, users, seen) \in AccessRequests
         /\ AccessReq(op, row, users, seen).op = op /\ AccessReq(op, row, users, seen).row = row
         /\ AccessReq(op, row, users, seen).users = users /\ AccessReq(op, row, users, seen).seen = seen
BY DEF Idle, AccessRequests, AccessReq

\* The same for one request,
LEMMA AccessReqKind ==
  ASSUME NEW op \in {"fill", "members", "invalidate", "delete"},
         NEW row \in Users \cup Roles \cup {NoRow}, NEW users \in SUBSET Users,
         NEW seen \in SUBSET PermissionRows
  PROVE  /\ AccessReq(op, row, users, seen) \in AccessRequests
         /\ AccessReq(op, row, users, seen).op = op /\ AccessReq(op, row, users, seen).row = row
         /\ AccessReq(op, row, users, seen).users = users /\ AccessReq(op, row, users, seen).seen = seen
BY DEF AccessRequests, AccessReq

\* A request that is not running has read nothing.
LEMMA AccessIdle == ASSUME NEW mem, NEW gra PROVE AccessRead(Idle, mem, gra)
BY DEF AccessRead, Idle

\* The property, by the requests that are about to delete an entry.
LEMMA CacheCurrent ==
  CacheIsCurrent <=>
    \A u \in Users :
      \/ cache[u] \in {NotCached, PermissionsOf(u, members, grants)}
      \/ u \in cacheStale
      \/ \E c \in Clients : Deletes(accessReq[c], u, members)
BY DEF CacheIsCurrent, Deletes

\* The query gives permissions, and depends on the roles of the user alone.
LEMMA PermissionsTyped ==
  ASSUME NEW mem, NEW gra \in [Roles -> SUBSET PermissionRows], NEW u
  PROVE  PermissionsOf(u, mem, gra) \in SUBSET PermissionRows
BY DEF PermissionsOf

\* They are the same when the roles of the user and the permissions of those roles are.
LEMMA PermissionsSame ==
  ASSUME NEW u, NEW mem, NEW gra, NEW mem2, NEW gra2,
         \A r \in Roles : (u \in mem[r] <=> u \in mem2[r]) /\ (u \in mem[r] => gra[r] = gra2[r])
  PROVE  PermissionsOf(u, mem, gra) = PermissionsOf(u, mem2, gra2)
<1>1. {q \in Roles : u \in mem[q]} = {q \in Roles : u \in mem2[q]}
  OBVIOUS
<1>2. {gra[r] : r \in {q \in Roles : u \in mem[q]}} = {gra2[r] : r \in {q \in Roles : u \in mem2[q]}}
  OBVIOUS
<1>3. QED
  BY <1>2 DEF PermissionsOf

\* One request changes, and no table.
LEMMA AccessRequestStep ==
  ASSUME AccessInv, NEW c \in Clients, NEW r \in {Idle} \cup AccessRequests,
         accessReq' = [accessReq EXCEPT ![c] = r], AccessRead(r, members, grants),
         UNCHANGED <<members, grants, roleRows>>,
         cache' \in [Users -> (SUBSET PermissionRows) \cup {NotCached}], cacheStale' \subseteq Users,
         \A u \in Users :
           \/ cache'[u] \in {NotCached, PermissionsOf(u, members, grants)}
           \/ u \in cacheStale'
           \/ /\ cache'[u] = cache[u] /\ u \notin cacheStale
              /\ Deletes(accessReq[c], u, members) => Deletes(r, u, members)
  PROVE  AccessInv'
<1>1. /\ accessReq' \in [Clients -> {Idle} \cup AccessRequests]
      /\ accessReq'[c] = r /\ \A d \in Clients : d # c => accessReq'[d] = accessReq[d]
  BY AccessTyped DEF AccessInv
<1>2. AccessTypeOK'
  BY <1>1 DEF AccessInv, AccessTypeOK, AccessRequests
<1>3. \A d \in Clients : AccessRead(accessReq'[d], members', grants')
  BY <1>1 DEF AccessInv
<1>4. ASSUME NEW u \in Users
      PROVE  \/ cache'[u] \in {NotCached, PermissionsOf(u, members', grants')}
             \/ u \in cacheStale'
             \/ \E d \in Clients : Deletes(accessReq'[d], u, members')
  <2>1. \/ cache[u] \in {NotCached, PermissionsOf(u, members, grants)}
        \/ u \in cacheStale
        \/ \E d \in Clients : Deletes(accessReq[d], u, members)
    BY CacheCurrent DEF AccessInv
  <2>2. ASSUME NEW d \in Clients, Deletes(accessReq[d], u, members),
               Deletes(accessReq[c], u, members) => Deletes(r, u, members)
        PROVE  Deletes(accessReq'[d], u, members')
    BY <1>1, <2>2
  <2>3. members' = members /\ grants' = grants
    OBVIOUS
  <2>4. QED
    BY <2>1, <2>2, <2>3
<1>5. CacheIsCurrent'
  BY <1>4 DEF CacheIsCurrent, Deletes
<1>6. QED
  BY <1>2, <1>3, <1>5 DEF AccessInv

\* The tables change, and whoever it concerns is taken care of.
LEMMA AccessTablesStep ==
  ASSUME AccessInv, NEW c \in Clients, NEW next \in {Idle} \cup AccessRequests,
         ChangeTables(c, next), AccessRead(next, members', grants'),
         accessReq[c].op \notin {"members", "invalidate"},
         members' \in [Roles -> SUBSET Users], grants' \in [Roles -> SUBSET PermissionRows],
         roleRows' \subseteq Roles, cache' = cache,
         cacheStale \subseteq cacheStale', cacheStale' \subseteq Users,
         \A u \in Users :
           \/ u \in cacheStale'
           \/ Deletes(next, u, members')
           \/ /\ PermissionsOf(u, members, grants) = PermissionsOf(u, members', grants')
              /\ \A r \in Roles : u \in members[r] => u \in members'[r]
  PROVE  AccessInv'
<1>1. accessReq \in [Clients -> {Idle} \cup AccessRequests]
  BY AccessTyped DEF AccessInv
<1>2. ASSUME NEW d \in Clients, d # c
      PROVE  /\ accessReq'[d] \in {Idle} \cup AccessRequests
             /\ AccessRead(accessReq'[d], members', grants')
             /\ accessReq'[d].op = accessReq[d].op /\ accessReq'[d].row = accessReq[d].row
             /\ accessReq[d] # Idle => accessReq'[d].users = accessReq[d].users
  <2>1. PICK x : x = accessReq[d]
    OBVIOUS
  <2>2. x \in {Idle} \cup AccessRequests /\ AccessRead(x, members, grants)
    BY <1>1, <2>1 DEF AccessInv
  <2>3. accessReq'[d] =
          IF x # Idle /\ x.op = "fill"
             /\ PermissionsOf(x.row, members, grants) # PermissionsOf(x.row, members', grants')
          THEN [x EXCEPT !.stale = TRUE] ELSE x
    BY <1>2, <2>1 DEF ChangeTables, Overtake
  <2>4. CASE x = Idle
    BY <2>1, <2>3, <2>4, AccessIdle
  <2>5. CASE x # Idle
    <3>1. x \in AccessRequests
      BY <2>2, <2>5
    <3>2. PICK y : y = [x EXCEPT !.stale = TRUE]
      OBVIOUS
    <3>3. /\ y \in AccessRequests /\ y.op = x.op /\ y.row = x.row /\ y.users = x.users
          /\ y.stale = TRUE
      BY <3>1, <3>2 DEF AccessRequests
    <3>4. CASE accessReq'[d] = y
      <4>1. AccessRead(y, members', grants')
        BY <2>2, <3>3 DEF AccessRead
      <4>2. QED
        BY <2>1, <3>3, <3>4, <4>1
    <3>5. CASE accessReq'[d] = x /\ (x.op = "fill" =>
                 PermissionsOf(x.row, members, grants) = PermissionsOf(x.row, members', grants'))
      <4>1. AccessRead(x, members', grants')
        BY <2>2, <3>5 DEF AccessRead
      <4>2. QED
        BY <2>1, <3>1, <3>5, <4>1
    <3>6. QED
      BY <2>3, <2>5, <3>2, <3>4, <3>5
  <2>6. QED
    BY <2>4, <2>5
<1>3. accessReq'[c] = next
  BY DEF ChangeTables, Overtake
<1>4. accessReq' \in [Clients -> {Idle} \cup AccessRequests]
  <2>1. accessReq' = [d \in Clients |-> accessReq'[d]]
    BY DEF ChangeTables, Overtake
  <2>2. QED
    BY <1>2, <1>3, <2>1
<1>5. AccessTypeOK'
  BY <1>4 DEF AccessInv, AccessTypeOK, AccessRequests
<1>6. \A d \in Clients : AccessRead(accessReq'[d], members', grants')
  BY <1>2, <1>3
<1>7. ASSUME NEW u \in Users
      PROVE  \/ cache'[u] \in {NotCached, PermissionsOf(u, members', grants')}
             \/ u \in cacheStale'
             \/ \E d \in Clients : Deletes(accessReq'[d], u, members')
  <2>1. \/ cache[u] \in {NotCached, PermissionsOf(u, members, grants)}
        \/ u \in cacheStale
        \/ \E d \in Clients : Deletes(accessReq[d], u, members)
    BY CacheCurrent DEF AccessInv
  <2>2. ASSUME NEW d \in Clients, Deletes(accessReq[d], u, members),
               \A r \in Roles : u \in members[r] => u \in members'[r]
        PROVE  Deletes(accessReq'[d], u, members')
    <3>1. PICK x : x = accessReq[d]
      OBVIOUS
    <3>2. PICK y : y = accessReq'[d]
      OBVIOUS
    <3>3. Deletes(x, u, members)
      BY <2>2, <3>1
    <3>4. x.op \in {"members", "invalidate"} /\ d # c
      BY <3>1, <3>3 DEF Deletes
    <3>5. x # Idle /\ AccessRead(x, members, grants)
      BY <3>1, <3>4, AccessKinds DEF AccessInv
    <3>6. y.op = x.op /\ y.row = x.row /\ y.users = x.users
      BY <1>2, <3>1, <3>2, <3>4, <3>5
    <3>7. x.op = "members" => x.row \in Roles
      BY <3>5 DEF AccessRead
    <3>8. Deletes(y, u, members')
      BY <2>2, <3>3, <3>6, <3>7 DEF Deletes
    <3>9. QED
      BY <3>2, <3>8
  <2>3. QED
    BY <1>3, <2>1, <2>2
<1>8. CacheIsCurrent'
  BY <1>7 DEF CacheIsCurrent, Deletes
<1>9. QED
  BY <1>5, <1>6, <1>8 DEF AccessInv

\* The query, the count, reading the members and dropping a request.
LEMMA AccessReadSteps ==
  ASSUME AccessInv, NEW c \in Clients,
         QueryPermissions(c) \/ CountMembers(c) \/ ReadMembers(c) \/ DropAccessRequest(c)
  PROVE  AccessInv'
<1>1. PICK q : q = accessReq[c]
  OBVIOUS
<1>2. /\ q \in {Idle} \cup AccessRequests /\ AccessRead(q, members, grants)
      /\ members \in [Roles -> SUBSET Users] /\ grants \in [Roles -> SUBSET PermissionRows]
      /\ roleRows \subseteq Roles /\ cache \in [Users -> (SUBSET PermissionRows) \cup {NotCached}]
      /\ cacheStale \subseteq Users
  BY <1>1, AccessTyped DEF AccessInv
<1>3. ASSUME NEW r \in {Idle} \cup AccessRequests, accessReq' = [accessReq EXCEPT ![c] = r],
             AccessRead(r, members, grants), UNCHANGED <<members, grants, roleRows, cache>>,
             cacheStale \subseteq cacheStale', cacheStale' \subseteq Users,
             \A u \in Users : Deletes(q, u, members) => Deletes(r, u, members) \/ u \in cacheStale'
      PROVE  AccessInv'
  <2>1. \A u \in Users :
           \/ cache'[u] \in {NotCached, PermissionsOf(u, members, grants)}
           \/ u \in cacheStale'
           \/ /\ cache'[u] = cache[u] /\ u \notin cacheStale
              /\ Deletes(accessReq[c], u, members) => Deletes(r, u, members)
    BY <1>1, <1>3
  <2>2. cache' \in [Users -> (SUBSET PermissionRows) \cup {NotCached}]
    BY <1>2, <1>3
  <2>3. QED
    BY <1>3, <2>1, <2>2, AccessRequestStep
<1>4. CASE QueryPermissions(c)
  <2>1. PICK u \in Users :
          accessReq' = [accessReq EXCEPT ![c] = AccessReq("fill", u, {}, PermissionsOf(u, members, grants))]
    BY <1>4 DEF QueryPermissions
  <2>2. PICK r : r = AccessReq("fill", u, {}, PermissionsOf(u, members, grants))
    OBVIOUS
  <2>3. PermissionsOf(u, members, grants) \in SUBSET PermissionRows
    BY <1>2, PermissionsTyped
  <2>4. r \in AccessRequests /\ r.op = "fill" /\ r.row = u /\ r.seen = PermissionsOf(u, members, grants)
    BY <2>2, <2>3, AccessKinds
  <2>5. AccessRead(r, members, grants)
    BY <2>4 DEF AccessRead
  <2>6. q = Idle /\ UNCHANGED <<members, grants, roleRows, cache, cacheStale>>
    BY <1>1, <1>4 DEF QueryPermissions
  <2>7. \A v \in Users : ~ Deletes(q, v, members)
    BY <2>6, AccessKinds DEF Deletes
  <2>8. QED
    BY <1>2, <1>3, <2>1, <2>2, <2>4, <2>5, <2>6, <2>7
<1>5. CASE CountMembers(c)
  <2>1. PICK x \in roleRows : accessReq' = [accessReq EXCEPT ![c] = AccessReq("delete", x, {}, {})]
    BY <1>5 DEF CountMembers
  <2>2. PICK r : r = AccessReq("delete", x, {}, {})
    OBVIOUS
  <2>3. x \in Roles
    BY <1>2
  <2>4. r \in AccessRequests /\ r.op = "delete" /\ r.row = x
    BY <2>2, <2>3, AccessKinds
  <2>5. AccessRead(r, members, grants)
    BY <2>3, <2>4 DEF AccessRead
  <2>6. q = Idle /\ UNCHANGED <<members, grants, roleRows, cache, cacheStale>>
    BY <1>1, <1>5 DEF CountMembers
  <2>7. \A v \in Users : ~ Deletes(q, v, members)
    BY <2>6, AccessKinds DEF Deletes
  <2>8. QED
    BY <1>2, <1>3, <2>1, <2>2, <2>4, <2>5, <2>6, <2>7
<1>6. CASE ReadMembers(c)
  <2>1. PICK r : r = AccessReq("invalidate", NoRow, members[q.row], {})
    OBVIOUS
  <2>2. /\ q.op = "members" /\ accessReq' = [accessReq EXCEPT ![c] = r]
        /\ UNCHANGED <<members, grants, roleRows, cache, cacheStale>>
    BY <1>1, <1>6, <2>1 DEF ReadMembers, Concerned
  <2>3. q.row \in Roles
    BY <1>2, <2>2 DEF AccessRead
  <2>4. r \in AccessRequests /\ r.op = "invalidate" /\ r.users = members[q.row]
    <3>1. members[q.row] \in SUBSET Users /\ {} \in SUBSET PermissionRows
      BY <1>2, <2>3
    <3>2. NoRow \in Users \cup Roles \cup {NoRow}
      OBVIOUS
    <3>3. QED
      BY <2>1, <3>1, <3>2, AccessKinds
  <2>5. AccessRead(r, members, grants)
    BY <2>4 DEF AccessRead
  <2>6. \A v \in Users : Deletes(q, v, members) => Deletes(r, v, members)
    BY <2>2, <2>4 DEF Deletes
  <2>7. QED
    BY <1>2, <1>3, <2>2, <2>4, <2>5, <2>6
<1>7. CASE DropAccessRequest(c)
  <2>1. /\ accessReq' = [accessReq EXCEPT ![c] = Idle] /\ cacheStale' = cacheStale \cup Owed(q)
        /\ UNCHANGED <<members, grants, roleRows, cache>> /\ q # Idle
    BY <1>1, <1>7 DEF DropAccessRequest
  <2>2. q \in AccessRequests
    BY <1>2, <2>1
  <2>3. \A v \in Users : Deletes(q, v, members) => v \in Owed(q)
    BY DEF Deletes, Owed
  <2>4. Owed(q) \subseteq Users
    BY <1>2, <2>2 DEF Owed, AccessRead, AccessRequests
  <2>5. QED
    BY <1>2, <1>3, <2>1, <2>3, <2>4, AccessIdle
<1>8. QED
  BY <1>4, <1>5, <1>6, <1>7

\* An entry is stored, deleted or expires.
LEMMA CacheSteps ==
  ASSUME AccessInv, NEW c \in Clients, FillCache(c) \/ InvalidateCache(c) PROVE AccessInv'
<1>1. PICK q : q = accessReq[c]
  OBVIOUS
<1>2. /\ q \in {Idle} \cup AccessRequests /\ AccessRead(q, members, grants)
      /\ cache \in [Users -> (SUBSET PermissionRows) \cup {NotCached}] /\ cacheStale \subseteq Users
  BY <1>1, AccessTyped DEF AccessInv
<1>3. AccessRead(Idle, members, grants) /\ Idle \in {Idle} \cup AccessRequests
  BY AccessIdle
<1>4. accessReq' = [accessReq EXCEPT ![c] = Idle] /\ UNCHANGED <<members, grants, roleRows>>
  BY DEF FillCache, InvalidateCache
<1>5. CASE FillCache(c)
  <2>1. /\ q.op = "fill" /\ cache' = [cache EXCEPT ![q.row] = q.seen]
        /\ cacheStale' = IF q.stale THEN cacheStale \cup {q.row} ELSE cacheStale \ {q.row}
    BY <1>1, <1>5 DEF FillCache
  <2>2. q \in AccessRequests /\ q.row \in Users
    BY <1>2, <2>1, AccessKinds DEF AccessRead
  <2>3. q.seen \in SUBSET PermissionRows
    BY <2>2 DEF AccessRequests
  <2>4. cache' \in [Users -> (SUBSET PermissionRows) \cup {NotCached}] /\ cacheStale' \subseteq Users
    BY <1>2, <2>1, <2>2, <2>3
  <2>5. ~ q.stale => q.seen = PermissionsOf(q.row, members, grants)
    BY <1>2, <2>1 DEF AccessRead
  <2>6. \A u \in Users : ~ Deletes(q, u, members)
    BY <2>1 DEF Deletes
  <2>7. \A u \in Users :
           \/ cache'[u] \in {NotCached, PermissionsOf(u, members, grants)}
           \/ u \in cacheStale'
           \/ /\ cache'[u] = cache[u] /\ u \notin cacheStale
              /\ Deletes(accessReq[c], u, members) => Deletes(Idle, u, members)
    BY <1>1, <1>2, <2>1, <2>2, <2>5, <2>6
  <2>8. QED
    BY <1>3, <1>4, <2>4, <2>7, AccessRequestStep
<1>6. CASE InvalidateCache(c)
  <2>1. /\ q.op = "invalidate" /\ cacheStale' = cacheStale \ q.users
        /\ cache' = [u \in Users |-> IF u \in q.users THEN NotCached ELSE cache[u]]
    BY <1>1, <1>6 DEF InvalidateCache
  <2>2. cache' \in [Users -> (SUBSET PermissionRows) \cup {NotCached}] /\ cacheStale' \subseteq Users
    <3>1. ASSUME NEW u \in Users PROVE cache'[u] \in (SUBSET PermissionRows) \cup {NotCached}
      BY <1>2, <2>1
    <3>2. cache' = [u \in Users |-> cache'[u]]
      BY <2>1
    <3>3. QED
      BY <1>2, <2>1, <3>1, <3>2
  <2>3. \A u \in Users : Deletes(q, u, members) => u \in q.users
    BY <2>1 DEF Deletes
  <2>4. \A u \in Users :
           \/ cache'[u] \in {NotCached, PermissionsOf(u, members, grants)}
           \/ u \in cacheStale'
           \/ /\ cache'[u] = cache[u] /\ u \notin cacheStale
              /\ Deletes(accessReq[c], u, members) => Deletes(Idle, u, members)
    BY <1>1, <1>2, <2>1, <2>3
  <2>5. QED
    BY <1>3, <1>4, <2>2, <2>4, AccessRequestStep
<1>7. QED
  BY <1>5, <1>6

\* The roles of a user change: the request is about to delete the user's entry.
LEMMA SetRolesStep == ASSUME AccessInv, NEW c \in Clients, SetRolesOfUser(c) PROVE AccessInv'
<1>1. PICK u \in Users, roles \in SUBSET roleRows :
        /\ members' = [r \in Roles |-> IF r \in roles THEN members[r] \cup {u} ELSE members[r] \ {u}]
        /\ ChangeTables(c, AccessReq("invalidate", NoRow, {u}, {}))
  BY DEF SetRolesOfUser
<1>2. accessReq[c] = Idle /\ UNCHANGED <<grants, roleRows, cache, cacheStale>>
  BY DEF SetRolesOfUser
<1>3. /\ members \in [Roles -> SUBSET Users] /\ grants \in [Roles -> SUBSET PermissionRows]
      /\ roleRows \subseteq Roles /\ cacheStale \subseteq Users
  BY AccessTyped DEF AccessInv
<1>4. PICK next : next = AccessReq("invalidate", NoRow, {u}, {})
  OBVIOUS
<1>5. next \in AccessRequests /\ next.op = "invalidate" /\ next.users = {u}
  <2>1. {u} \in SUBSET Users /\ {} \in SUBSET PermissionRows /\ NoRow \in Users \cup Roles \cup {NoRow}
    OBVIOUS
  <2>2. /\ AccessReq("invalidate", NoRow, {u}, {}) \in AccessRequests
        /\ AccessReq("invalidate", NoRow, {u}, {}).op = "invalidate"
        /\ AccessReq("invalidate", NoRow, {u}, {}).users = {u}
    BY ONLY <2>1, AccessReqKind
  <2>3. QED
    BY <1>4, <2>2
<1>6. members' \in [Roles -> SUBSET Users]
  BY <1>1, <1>3
<1>7. ASSUME NEW v \in Users, v # u
      PROVE  /\ PermissionsOf(v, members, grants) = PermissionsOf(v, members', grants')
             /\ \A r \in Roles : v \in members[r] => v \in members'[r]
  <2>1. \A r \in Roles : v \in members[r] <=> v \in members'[r]
    BY <1>1, <1>7
  <2>2. grants' = grants
    BY <1>2
  <2>3. QED
    BY <2>1, <2>2, PermissionsSame
<1>8. \A v \in Users :
           \/ v \in cacheStale'
           \/ Deletes(next, v, members')
           \/ /\ PermissionsOf(v, members, grants) = PermissionsOf(v, members', grants')
              /\ \A r \in Roles : v \in members[r] => v \in members'[r]
  BY <1>5, <1>7 DEF Deletes
<1>9. accessReq[c].op \notin {"members", "invalidate"}
  BY <1>2, AccessKinds
<1>10. AccessRead(next, members', grants') /\ ChangeTables(c, next)
  BY <1>1, <1>4, <1>5 DEF AccessRead
<1>11. /\ next \in {Idle} \cup AccessRequests /\ grants' \in [Roles -> SUBSET PermissionRows]
       /\ roleRows' \subseteq Roles /\ cache' = cache /\ cacheStale \subseteq cacheStale'
       /\ cacheStale' \subseteq Users
  BY <1>2, <1>3, <1>5
<1>12. QED
  BY <1>6, <1>8, <1>9, <1>10, <1>11, AccessTablesStep

\* A permission of a role changes: the request is about to read the members of the role.
LEMMA SetPermissionStep == ASSUME AccessInv, NEW c \in Clients, SetPermission(c) PROVE AccessInv'
<1>1. PICK x \in roleRows, p \in PermissionRows :
        /\ grants' = [grants EXCEPT ![x] = IF p \in @ THEN @ \ {p} ELSE @ \cup {p}]
        /\ ChangeTables(c, AccessReq("members", x, {}, {}))
  BY DEF SetPermission
<1>2. accessReq[c] = Idle /\ UNCHANGED <<members, roleRows, cache, cacheStale>>
  BY DEF SetPermission
<1>3. /\ members \in [Roles -> SUBSET Users] /\ grants \in [Roles -> SUBSET PermissionRows]
      /\ roleRows \subseteq Roles /\ cacheStale \subseteq Users /\ x \in Roles
  BY <1>1, AccessTyped DEF AccessInv
<1>4. PICK next : next = AccessReq("members", x, {}, {})
  OBVIOUS
<1>5. next \in AccessRequests /\ next.op = "members" /\ next.row = x
  BY <1>3, <1>4, AccessKinds
<1>6. grants' \in [Roles -> SUBSET PermissionRows]
  BY <1>1, <1>3
<1>7. ASSUME NEW v \in Users, v \notin members[x]
      PROVE  PermissionsOf(v, members, grants) = PermissionsOf(v, members', grants')
  <2>1. \A r \in Roles : (v \in members[r] <=> v \in members'[r]) /\ (v \in members[r] => grants[r] = grants'[r])
    BY <1>1, <1>2, <1>3, <1>7
  <2>2. QED
    BY <2>1, PermissionsSame
<1>8. \A v \in Users :
           \/ v \in cacheStale'
           \/ Deletes(next, v, members')
           \/ /\ PermissionsOf(v, members, grants) = PermissionsOf(v, members', grants')
              /\ \A r \in Roles : v \in members[r] => v \in members'[r]
  BY <1>2, <1>5, <1>7 DEF Deletes
<1>9. accessReq[c].op \notin {"members", "invalidate"}
  BY <1>2, AccessKinds
<1>10. AccessRead(next, members', grants') /\ ChangeTables(c, next)
  BY <1>1, <1>3, <1>4, <1>5 DEF AccessRead
<1>11. /\ next \in {Idle} \cup AccessRequests /\ members' \in [Roles -> SUBSET Users]
       /\ roleRows' \subseteq Roles /\ cache' = cache /\ cacheStale \subseteq cacheStale'
       /\ cacheStale' \subseteq Users
  BY <1>2, <1>3, <1>5
<1>12. QED
  BY <1>6, <1>8, <1>9, <1>10, <1>11, AccessTablesStep

\* A role is deleted: nothing is invalidated for users who joined it meanwhile.
LEMMA DeleteRoleStep == ASSUME AccessInv, NEW c \in Clients, DeleteRole(c) PROVE AccessInv'
<1>1. PICK q : q = accessReq[c]
  OBVIOUS
<1>2. /\ q.op = "delete" /\ roleRows' = roleRows \ {q.row}
      /\ members' = [members EXCEPT ![q.row] = {}] /\ grants' = [grants EXCEPT ![q.row] = {}]
      /\ cacheStale' = cacheStale \cup members[q.row] /\ cache' = cache
      /\ ChangeTables(c, Idle)
  BY <1>1 DEF DeleteRole
<1>3. /\ members \in [Roles -> SUBSET Users] /\ grants \in [Roles -> SUBSET PermissionRows]
      /\ roleRows \subseteq Roles /\ cacheStale \subseteq Users /\ q.row \in Roles
  BY <1>1, <1>2, AccessTyped DEF AccessInv, AccessRead
<1>4. /\ members' \in [Roles -> SUBSET Users] /\ grants' \in [Roles -> SUBSET PermissionRows]
      /\ roleRows' \subseteq Roles /\ cacheStale \subseteq cacheStale' /\ cacheStale' \subseteq Users
  BY <1>2, <1>3
<1>5. ASSUME NEW v \in Users, v \notin members[q.row]
      PROVE  /\ PermissionsOf(v, members, grants) = PermissionsOf(v, members', grants')
             /\ \A r \in Roles : v \in members[r] => v \in members'[r]
  <2>1. \A r \in Roles : (v \in members[r] <=> v \in members'[r]) /\ (v \in members[r] => grants[r] = grants'[r])
    BY <1>2, <1>3, <1>5
  <2>2. QED
    BY <2>1, PermissionsSame
<1>6. \A v \in Users :
           \/ v \in cacheStale'
           \/ Deletes(Idle, v, members')
           \/ /\ PermissionsOf(v, members, grants) = PermissionsOf(v, members', grants')
              /\ \A r \in Roles : v \in members[r] => v \in members'[r]
  BY <1>2, <1>5
<1>7. AccessRead(Idle, members', grants') /\ Idle \in {Idle} \cup AccessRequests
  BY AccessIdle
<1>8. accessReq[c].op \notin {"members", "invalidate"}
  BY <1>1, <1>2
<1>9. QED
  BY <1>2, <1>4, <1>6, <1>7, <1>8, AccessTablesStep

\* Nothing is cached at the start.
LEMMA AccessStart == ASSUME AccessInit PROVE AccessInv
<1>1. \A c \in Clients : accessReq[c] = Idle
  BY DEF AccessInit
<1>2. AccessTypeOK
  <2>1. /\ members \in [Roles -> SUBSET Users] /\ grants \in [Roles -> SUBSET PermissionRows]
        /\ roleRows \subseteq Roles /\ cacheStale \subseteq Users
    BY DEF AccessInit
  <2>2. cache \in [Users -> (SUBSET PermissionRows) \cup {NotCached}]
    BY DEF AccessInit
  <2>3. accessReq \in [Clients -> {Idle} \cup AccessRequests]
    BY DEF AccessInit
  <2>4. QED
    BY <2>1, <2>2, <2>3, AccessTyped
<1>3. CacheIsCurrent
  BY DEF AccessInit, CacheIsCurrent
<1>4. QED
  BY <1>1, <1>2, <1>3, AccessIdle DEF AccessInv

\* Every step of the access rights keeps the invariant.
LEMMA AccessStep == ASSUME AccessInv, [AccessNext]_accessVars PROVE AccessInv'
<1>1. CASE UNCHANGED accessVars
  BY <1>1 DEF accessVars, AccessInv, AccessTypeOK, CacheIsCurrent
<1>2. CASE ExpireEntry
  <2>1. PICK u \in Users : cache' = [cache EXCEPT ![u] = NotCached] /\ cacheStale' = cacheStale \ {u}
    BY <1>2 DEF ExpireEntry
  <2>2. UNCHANGED <<members, grants, roleRows, accessReq>>
    BY <1>2 DEF ExpireEntry
  <2>3. /\ cache \in [Users -> (SUBSET PermissionRows) \cup {NotCached}] /\ cacheStale \subseteq Users
    BY AccessTyped DEF AccessInv
  <2>4. AccessTypeOK'
    <3>1. cache' \in [Users -> (SUBSET PermissionRows) \cup {NotCached}] /\ cacheStale' \subseteq Users
      BY <2>1, <2>3
    <3>2. QED
      BY <2>2, <3>1 DEF AccessInv, AccessTypeOK
  <2>5. CacheIsCurrent'
    BY <2>1, <2>2, <2>3 DEF AccessInv, CacheIsCurrent
  <2>6. QED
    BY <2>2, <2>4, <2>5 DEF AccessInv
<1>3. QED
  BY <1>1, <1>2, AccessReadSteps, CacheSteps, SetRolesStep, SetPermissionStep, DeleteRoleStep DEF AccessNext

(*************************************************************************)
(* Scheduled jobs.                                                       *)
(* The run of an instance has the lock of its job unless it was lost; while *)
(* none was, items are marked and mailed in the order of the run.        *)
(*************************************************************************)

\* Items that the check or a user has marked.
Marked(i) == itemStatus[i] \in {"expiring_soon", "expired"}

\* The run of an instance has the lock of its job, unless one was lost to time; only a
\* compliance run that has read holds items.
RunRight(c, r) ==
  /\ r # Idle => lock[r.job] = c \/ r.job \in lockLost
  /\ r.op \in {"read", "mark", "marksoon", "mail"} => r.job = "compliance"
  /\ r.op \in {"read", "statement"} => Held(r) = {}

\* An item that a run has read and that was not changed since is due, is marked at its place
\* in the run, has the responsible user it was read with, and no mail about it was sent; one
\* that was changed does not count as marked.
RunKnows(r) ==
  r.op \in {"mark", "marksoon", "mail"} =>
    \A i \in Held(r) :
      /\ i \in r.stale => i \notin marked
      /\ i \notin r.stale =>
           /\ itemStatus[i] # "none" /\ Due(i) /\ i \notin mailed
           /\ i \in r.to <=> i \in responsible
           /\ r.op = "mark" => itemStatus[i] = "valid"
           /\ r.op = "marksoon" /\ i \notin r.soon => Marked(i)
           /\ r.op = "mail" => Marked(i)

\* A marked item is due, and its mail is sent or a run still has it to send.
MarkRight(i) ==
  /\ Marked(i) /\ Due(i)
  /\ i \in responsible => i \in mailed \/ \E c \in Clients : runs[c] # Idle /\ i \in Held(runs[c])

\* While no run was disturbed, marks and mails are right.
MailsRight ==
  /\ "compliance" \notin lockLost
  /\ \A c \in Clients : RunKnows(runs[c])
  /\ \A i \in mailed : Marked(i) /\ i \in responsible
  /\ mailedTwice = {}
  /\ \A i \in marked : MarkRight(i)

JobsInv ==
  /\ JobsTypeOK
  /\ \A c \in Clients : RunRight(c, runs[c])
  /\ ~ disturbed => MailsRight

\* The types, one by one.
LEMMA JobsTyped ==
  JobsTypeOK <=>
    /\ scheduled \in JobNames
    /\ lock \in [JobNames -> Clients \cup {NoRow}]
    /\ itemStatus \in [Items -> {"none", "valid", "expiring_soon", "expired"}]
    /\ daysLeft \in [Items -> -1..FarAway]
    /\ alertDays \in [Items -> AlertDays \cup {0}]
    /\ changes \in 0..MaxChanges
    /\ runs \in [Clients -> {Idle} \cup JobRuns]
    /\ responsible \subseteq Items
    /\ marked \subseteq Items /\ mailed \subseteq Items /\ mailedTwice \subseteq Items
    /\ lockLost \subseteq JobNames
    /\ disturbed \in BOOLEAN
BY DEF JobsTypeOK

\* What is checked follows: two runs of one job do not both have its lock.
LEMMA JobsAlone ==
  ASSUME \A c \in Clients : RunRight(c, runs[c])
  PROVE  JobsRunAlone
BY DEF RunRight, JobsRunAlone

\* What is checked follows from the invariant.
LEMMA JobsSafe == JobsInv => JobsRunAlone /\ MarkedIsMailed
<1> SUFFICES ASSUME JobsInv PROVE JobsRunAlone /\ MarkedIsMailed
  OBVIOUS
<1>1. JobsRunAlone
  BY JobsAlone DEF JobsInv
<1>2. ASSUME ~ disturbed, NEW i \in Items
      PROVE  /\ i \in marked =>
                  /\ itemStatus[i] \in {"expiring_soon", "expired"} /\ Due(i)
                  /\ i \in responsible => i \in mailed \/ \E c \in Clients : runs[c] # Idle /\ i \in Held(runs[c])
             /\ i \in mailed => i \in responsible
             /\ i \notin mailedTwice
  BY <1>2 DEF JobsInv, MailsRight, MarkRight, Marked
<1>3. QED
  BY <1>1, <1>2 DEF MarkedIsMailed

\* While no lock of it was lost, one instance at most runs the compliance check.
LEMMA OneCompliance ==
  ASSUME JobsInv, ~ disturbed, NEW c \in Clients, NEW d \in Clients,
         runs[c] # Idle, runs[d] # Idle, runs[c].job = "compliance", runs[d].job = "compliance"
  PROVE  c = d
BY JobsSafe DEF JobsRunAlone, JobsInv, MailsRight

\* No job has run at the start, and no item has a date to come soon.
LEMMA JobsStart == ASSUME JobsInit PROVE JobsInv
<1> USE JobsAssumption DEF JobsInit
<1>1. JobsTypeOK
  <2>1. FarAway \in -1..FarAway /\ 0 \in 0..MaxChanges
    OBVIOUS
  <2>2. QED
    BY <2>1, JobsTyped
<1>2. \A c \in Clients : runs[c] = Idle
  OBVIOUS
<1>3. \A c \in Clients : RunRight(c, runs[c]) /\ RunKnows(runs[c])
  BY <1>2 DEF RunRight, RunKnows, Idle
<1>4. MailsRight
  BY <1>3 DEF MailsRight, Marked
<1>5. QED
  BY <1>1, <1>3, <1>4 DEF JobsInv

\* What a run that has ended leaves.
LEMMA IdleRun == \A c \in Clients : RunRight(c, Idle) /\ RunKnows(Idle)
BY DEF RunRight, RunKnows, Idle

\* The histories after a step that may disturb a compliance run.
LEMMA Disturbs ==
  ASSUME JobsTypeOK, NEW yes \in BOOLEAN, Disturb(yes)
  PROVE  /\ disturbed' \in BOOLEAN /\ (disturbed' <=> disturbed \/ yes)
         /\ marked' \subseteq Items /\ mailed' \subseteq Items /\ mailedTwice' \subseteq Items
         /\ ~ disturbed' => UNCHANGED <<marked, mailed, mailedTwice>>
BY JobsTyped DEF Disturb

\* The requests whose items stay as they were know what they knew.
LEMMA KnowsStays ==
  ASSUME NEW r, RunKnows(r), UNCHANGED itemVars, mailed' \subseteq mailed, marked' \subseteq marked
  PROVE  RunKnows(r)'
BY DEF RunKnows, Marked, Due, itemVars, Held

\* A run ends (Finish, or its process dies): the other runs keep what they have.
LEMMA RunEnds ==
  ASSUME JobsInv, NEW c \in Clients, runs[c] # Idle,
         runs' = [runs EXCEPT ![c] = Idle],
         lock' \in {lock, [lock EXCEPT ![runs[c].job] = NoRow]},
         UNCHANGED <<scheduled, itemVars, lockLost>>,
         disturbed' \in BOOLEAN, disturbed => disturbed',
         marked' \subseteq Items, mailed' \subseteq Items, mailedTwice' \subseteq Items,
         ~ disturbed' =>
           /\ marked' = marked /\ mailedTwice' = {}
           /\ \A i \in mailed' : Marked(i) /\ i \in responsible
           /\ mailed \subseteq mailed'
           /\ \A i \in mailed' \ mailed : i \in Held(runs[c]) /\ runs[c].job = "compliance"
           /\ \A i \in Held(runs[c]) : i \in marked /\ i \in responsible => i \in mailed'
  PROVE  JobsInv'
<1>0. /\ lock \in [JobNames -> Clients \cup {NoRow}]
      /\ runs \in [Clients -> {Idle} \cup JobRuns] /\ lockLost \subseteq JobNames
  BY JobsTyped DEF JobsInv
<1>1. /\ runs' \in [Clients -> {Idle} \cup JobRuns] /\ runs'[c] = Idle
      /\ \A d \in Clients : d # c => runs'[d] = runs[d]
  BY <1>0
<1>2. PICK j \in JobNames : j = runs[c].job
  BY <1>0 DEF JobRuns
<1>3. /\ lock' \in [JobNames -> Clients \cup {NoRow}]
      /\ \A k \in JobNames : lock'[k] = lock[k] \/ (k = j /\ lock'[k] = NoRow)
  BY <1>0, <1>2
<1>4. JobsTypeOK'
  BY <1>0, <1>1, <1>3, JobsTyped DEF JobsInv, JobsTypeOK, JobRuns, itemVars
<1>5. ASSUME NEW d \in Clients PROVE RunRight(d, runs[d])'
  <2>1. CASE d = c
    BY <1>1, <2>1 DEF RunRight, Idle
  <2>2. CASE d # c /\ runs[d] = Idle
    BY <1>1, <2>2 DEF RunRight, Idle
  <2>3. CASE d # c /\ runs[d] # Idle
    <3>1. PICK q : q = runs[d]
      OBVIOUS
    <3>2. q \in JobRuns /\ RunRight(d, q)
      BY <1>0, <2>3, <3>1 DEF JobsInv
    <3>3. q.job \in JobNames
      BY <3>2 DEF JobRuns
    <3>4. lock'[q.job] = d \/ q.job \in lockLost
      <4>1. CASE lock'[q.job] = lock[q.job]
        BY <2>3, <3>1, <3>2, <4>1 DEF RunRight
      <4>2. CASE q.job = j
        <5>1. runs[c].job \in lockLost
          BY <1>2, <2>3, <3>1, <4>2, JobsSafe DEF JobsRunAlone
        <5>2. QED
          BY <1>2, <4>2, <5>1
      <4>3. QED
        BY <1>3, <3>3, <4>1, <4>2
    <3>5. RunRight(d, q)'
      BY <3>2, <3>4 DEF RunRight
    <3>6. QED
      BY <1>1, <2>3, <3>1, <3>5 DEF RunRight
  <2>4. QED
    BY <2>1, <2>2, <2>3
<1>6. ASSUME ~ disturbed' PROVE MailsRight'
  <2>1. MailsRight /\ ~ disturbed /\ marked' = marked
    BY <1>6 DEF JobsInv
  <2>2. ASSUME NEW d \in Clients PROVE RunKnows(runs[d])'
    <3>1. CASE d = c
      BY <1>1, <3>1 DEF RunKnows, Idle
    <3>2. CASE d # c
      <4>1. PICK q : q = runs[d]
        OBVIOUS
      <4>2. RunKnows(q) /\ runs'[d] = q /\ RunRight(d, q)
        BY <1>1, <2>1, <3>2, <4>1 DEF MailsRight, JobsInv
      <4>3. q.op \in {"mark", "marksoon", "mail"} => mailed' \subseteq mailed
        <5>1. SUFFICES ASSUME q.op \in {"mark", "marksoon", "mail"}, NEW i \in mailed' \ mailed PROVE FALSE
          OBVIOUS
        <5>2. q.job = "compliance" /\ q # Idle
          BY <4>2, <5>1 DEF RunRight, Idle
        <5>3. runs[c].job = "compliance"
          BY <1>6, <5>1
        <5>4. QED
          BY <2>1, <3>2, <4>1, <5>2, <5>3, OneCompliance
      <4>4. RunKnows(q)'
        <5>1. CASE q.op \in {"mark", "marksoon", "mail"}
          BY <2>1, <4>2, <4>3, <5>1, KnowsStays
        <5>2. CASE q.op \notin {"mark", "marksoon", "mail"}
          BY <5>2 DEF RunKnows
        <5>3. QED
          BY <5>1, <5>2
      <4>5. QED
        BY <4>2, <4>4 DEF RunKnows, Marked, Due, Held
    <3>3. QED
      BY <3>1, <3>2
  <2>3. ASSUME NEW i \in marked PROVE MarkRight(i)'
    <3>1. MarkRight(i)
      BY <2>1, <2>3 DEF MailsRight
    <3>2. Marked(i)' /\ Due(i)' /\ responsible' = responsible
      BY <3>1 DEF MarkRight, Marked, Due, itemVars
    <3>3. ASSUME i \in responsible, i \notin mailed'
          PROVE  \E d \in Clients : runs'[d] # Idle /\ i \in Held(runs'[d])
      <4>1. i \notin mailed /\ i \notin Held(runs[c])
        BY <1>6, <2>3, <3>3
      <4>2. PICK d \in Clients : runs[d] # Idle /\ i \in Held(runs[d])
        BY <3>1, <3>3, <4>1 DEF MarkRight
      <4>3. QED
        BY <1>1, <4>1, <4>2
    <3>4. QED
      BY <3>2, <3>3 DEF MarkRight, Held
  <2>4. \A i \in mailed' : Marked(i)' /\ i \in responsible'
    BY <1>6 DEF Marked, itemVars
  <2>5. QED
    BY <1>6, <2>1, <2>2, <2>3, <2>4 DEF MailsRight
<1>7. QED
  BY <1>4, <1>5, <1>6 DEF JobsInv

\* While one instance runs the compliance check, the others are not at it.
LEMMA OthersElsewhere ==
  ASSUME JobsInv, ~ disturbed, NEW c \in Clients, runs[c] # Idle, runs[c].job = "compliance",
         NEW d \in Clients, d # c
  PROVE  runs[d].op \notin {"mark", "marksoon", "mail"}
<1> SUFFICES ASSUME runs[d].op \in {"mark", "marksoon", "mail"} PROVE FALSE
  OBVIOUS
<1>1. runs[d] # Idle /\ runs[d].job = "compliance"
  BY DEF JobsInv, RunRight, Idle
<1>2. QED
  BY <1>1, OneCompliance

\* A compliance run goes on as new: the types, what every run has, and what the others know.
LEMMA RunGoesOn ==
  ASSUME JobsInv, NEW c \in Clients, runs[c] # Idle, runs[c].job = "compliance",
         NEW new \in JobRuns, new.job = "compliance", new.op \in {"mark", "marksoon", "mail"},
         runs' = [runs EXCEPT ![c] = new],
         UNCHANGED <<scheduled, lock, daysLeft, alertDays, responsible, changes, lockLost, disturbed>>,
         itemStatus' \in [Items -> {"none", "valid", "expiring_soon", "expired"}],
         marked' \subseteq Items, mailed' \subseteq Items, mailedTwice' \subseteq Items
  PROVE  /\ JobsTypeOK'
         /\ \A d \in Clients : RunRight(d, runs[d])'
         /\ ~ disturbed => \A d \in Clients : d # c => RunKnows(runs[d])'
         /\ runs'[c] = new /\ new # Idle /\ \A d \in Clients : d # c => runs'[d] = runs[d]
<1>0. runs \in [Clients -> {Idle} \cup JobRuns]
  BY JobsTyped DEF JobsInv
<1>1. /\ runs' \in [Clients -> {Idle} \cup JobRuns] /\ runs'[c] = new
      /\ \A d \in Clients : d # c => runs'[d] = runs[d]
  BY <1>0
<1>2. JobsTypeOK'
  BY <1>1, JobsTyped DEF JobsInv, JobsTypeOK, JobRuns
<1>3. new # Idle
  BY DEF Idle
<1>4. RunRight(c, new)'
  <2>1. lock["compliance"] = c \/ "compliance" \in lockLost
    BY DEF JobsInv, RunRight
  <2>2. QED
    BY <2>1 DEF RunRight
<1>5. \A d \in Clients : RunRight(d, runs[d])'
  BY <1>1, <1>4 DEF JobsInv, RunRight, Held
<1>6. ASSUME ~ disturbed, NEW d \in Clients, d # c PROVE RunKnows(runs[d])'
  BY <1>1, <1>6, OthersElsewhere DEF RunKnows
<1>7. QED
  BY <1>1, <1>2, <1>3, <1>5, <1>6

\* Items of a run are marked: the run then knows what it marked, and has it in its mails to
\* come.
LEMMA MarkingKeeps ==
  ASSUME JobsInv, NEW c \in Clients, runs[c].op \in {"mark", "marksoon"},
         NEW new \in JobRuns, new.op \in {"marksoon", "mail"}, new.job = "compliance",
         new.expired = runs[c].expired, new.soon = runs[c].soon, new.to = runs[c].to,
         new.stale = runs[c].stale,
         runs' = [runs EXCEPT ![c] = new],
         NEW ids, ids \subseteq Held(runs[c]), \A i \in ids : itemStatus[i] # "none",
         itemStatus' \in [Items -> {"none", "valid", "expiring_soon", "expired"}],
         \A i \in Items : IF i \in ids THEN Marked(i)' ELSE itemStatus'[i] = itemStatus[i],
         marked' = Recorded(marked \cup (ids \ runs[c].stale)),
         UNCHANGED <<scheduled, lock, daysLeft, alertDays, responsible, changes>>,
         UNCHANGED <<mailed, mailedTwice, lockLost, disturbed>>,
         new.op = "marksoon" => Held(runs[c]) \ runs[c].soon \subseteq ids \cup {i \in Items : itemStatus[i] = "none"},
         new.op = "mail" => \A i \in Held(runs[c]) : itemStatus[i] # "none" =>
                              i \in ids \/ (runs[c].op = "marksoon" /\ i \notin runs[c].soon)
  PROVE  JobsInv'
<1>0. /\ runs \in [Clients -> {Idle} \cup JobRuns] /\ itemStatus \in [Items -> {"none", "valid", "expiring_soon", "expired"}]
      /\ marked \subseteq Items /\ mailed \subseteq Items /\ mailedTwice \subseteq Items
  BY JobsTyped DEF JobsInv
<1>1. PICK r \in JobRuns : r = runs[c]
  BY <1>0 DEF Idle
<1>2. /\ runs[c] # Idle /\ runs[c].job = "compliance" /\ Held(r) \subseteq Items /\ Held(new) = Held(r)
  BY <1>1 DEF JobsInv, RunRight, Idle, Held, JobRuns
<1>3. marked' \subseteq Items /\ mailed' \subseteq Items /\ mailedTwice' \subseteq Items
  BY <1>0, <1>1, <1>2 DEF Recorded
<1>4. /\ JobsTypeOK'
      /\ \A d \in Clients : RunRight(d, runs[d])'
      /\ ~ disturbed => \A d \in Clients : d # c => RunKnows(runs[d])'
      /\ runs'[c] = new /\ new # Idle /\ \A d \in Clients : d # c => runs'[d] = runs[d]
  BY <1>2, <1>3, RunGoesOn
<1>5. ASSUME ~ disturbed PROVE MailsRight'
  <2>1. MailsRight
    BY <1>5 DEF JobsInv
  <2>2. marked' = marked \cup (ids \ r.stale)
    BY <1>1, <1>5 DEF Recorded
  <2>3. RunKnows(r)
    BY <1>1, <2>1 DEF MailsRight
  <2>4. ASSUME NEW i \in Items, Marked(i) PROVE Marked(i)'
    BY <2>4 DEF Marked
  <2>5. RunKnows(new)'
    <3>1. SUFFICES ASSUME NEW i \in Held(r)
                   PROVE  /\ i \in r.stale => i \notin marked'
                          /\ i \notin r.stale =>
                               /\ itemStatus'[i] # "none" /\ Due(i) /\ i \notin mailed
                               /\ i \in r.to <=> i \in responsible
                               /\ new.op = "marksoon" /\ i \notin r.soon => Marked(i)'
                               /\ new.op = "mail" => Marked(i)'
      BY <1>1, <1>2 DEF RunKnows, Due
    <3>2. i \in r.stale => i \notin marked'
      BY <1>1, <2>2, <2>3, <3>1 DEF RunKnows
    <3>3. ASSUME i \notin r.stale
          PROVE  /\ itemStatus'[i] # "none" /\ Due(i) /\ i \notin mailed
                 /\ i \in r.to <=> i \in responsible
                 /\ new.op = "marksoon" /\ i \notin r.soon => Marked(i)'
                 /\ new.op = "mail" => Marked(i)'
      <4>1. /\ itemStatus[i] # "none" /\ Due(i) /\ i \notin mailed
            /\ i \in r.to <=> i \in responsible
            /\ r.op = "marksoon" /\ i \notin r.soon => Marked(i)
        BY <1>1, <2>3, <3>1, <3>3 DEF RunKnows
      <4>2. i \in Items
        BY <1>2, <3>1
      <4>3. itemStatus'[i] # "none"
        BY <4>1, <4>2 DEF Marked
      <4>4. new.op = "marksoon" /\ i \notin r.soon => Marked(i)'
        BY <1>1, <3>1, <4>1, <4>2
      <4>5. new.op = "mail" => Marked(i)'
        BY <1>1, <2>4, <3>1, <4>1, <4>2
      <4>6. QED
        BY <4>1, <4>3, <4>4, <4>5
    <3>4. QED
      BY <3>2, <3>3
  <2>6. \A d \in Clients : RunKnows(runs[d])'
    <3>1. RunKnows(runs[c])'
      BY <1>4, <2>5 DEF RunKnows, Held, Due, Marked
    <3>2. QED
      BY <1>4, <1>5, <3>1
  <2>7. \A i \in mailed' : Marked(i)' /\ i \in responsible'
    BY <1>0, <2>1, <2>4 DEF MailsRight
  <2>8. ASSUME NEW i \in marked' PROVE MarkRight(i)'
    <3>1. CASE i \in ids \ r.stale
      <4>1. i \in Items /\ i \in Held(r) /\ Due(i)
        BY <1>1, <1>2, <2>3, <3>1 DEF RunKnows
      <4>2. Marked(i)' /\ Due(i)'
        BY <3>1, <4>1 DEF Due
      <4>3. runs'[c] # Idle /\ i \in Held(runs'[c])
        BY <1>2, <1>4, <4>1
      <4>4. QED
        BY <4>2, <4>3 DEF MarkRight, Held
    <3>2. CASE i \in marked
      <4>1. MarkRight(i) /\ i \in Items
        BY <1>0, <2>1, <3>2 DEF MailsRight
      <4>2. Marked(i)' /\ Due(i)'
        BY <2>4, <4>1 DEF MarkRight, Due
      <4>3. ASSUME i \in responsible, i \notin mailed
            PROVE  \E d \in Clients : runs'[d] # Idle /\ i \in Held(runs'[d])
        <5>1. PICK d \in Clients : runs[d] # Idle /\ i \in Held(runs[d])
          BY <4>1, <4>3 DEF MarkRight
        <5>2. CASE d = c
          BY <1>1, <1>2, <1>4, <5>1, <5>2
        <5>3. CASE d # c
          BY <1>4, <5>1, <5>3
        <5>4. QED
          BY <5>2, <5>3
      <4>4. QED
        BY <4>2, <4>3 DEF MarkRight, Held
    <3>3. QED
      BY <2>2, <2>8, <3>1, <3>2
  <2>9. QED
    BY <2>1, <2>6, <2>7, <2>8 DEF MailsRight
<1>6. QED
  BY <1>4, <1>5 DEF JobsInv

\* Every step of the jobs keeps the invariant.
LEMMA JobsStep == ASSUME JobsInv, [JobsNext]_jobVars PROVE JobsInv'
<1>0. /\ lock \in [JobNames -> Clients \cup {NoRow}]
      /\ itemStatus \in [Items -> {"none", "valid", "expiring_soon", "expired"}]
      /\ daysLeft \in [Items -> -1..FarAway] /\ alertDays \in [Items -> AlertDays \cup {0}]
      /\ runs \in [Clients -> {Idle} \cup JobRuns] /\ changes \in 0..MaxChanges
      /\ responsible \subseteq Items
      /\ marked \subseteq Items /\ mailed \subseteq Items /\ mailedTwice \subseteq Items
      /\ lockLost \subseteq JobNames /\ disturbed \in BOOLEAN
      /\ NoRow \notin Clients /\ scheduled \in JobNames /\ scheduled' = scheduled
      /\ \A c \in Clients : RunRight(c, runs[c])
  BY JobsTyped, RequestsAssumption DEF JobsInv, JobsNext, jobVars
<1>1. CASE UNCHANGED jobVars
  <2>1. JobsTypeOK'
    BY <1>1 DEF jobVars, itemVars, JobsInv, JobsTypeOK
  <2>2. \A c \in Clients : RunRight(c, runs[c])'
    BY <1>0, <1>1 DEF jobVars, RunRight, Held
  <2>3. MailsRight => MailsRight'
    BY <1>1 DEF jobVars, itemVars, MailsRight, MarkRight, RunKnows, Marked, Held, Due
  <2>4. QED
    BY <1>1, <2>1, <2>2, <2>3 DEF jobVars, JobsInv
<1>2. ASSUME NEW i \in Items, NEW status \in {"none", "valid", "expiring_soon", "expired"},
             NEW left \in -1..FarAway, NEW alert \in AlertDays \cup {0}, NEW user \in BOOLEAN,
             ChangeItem(i, status, left, alert, user)
      PROVE  JobsInv'
  <2>1. /\ changes < MaxChanges /\ changes' = changes + 1
        /\ itemStatus' = [itemStatus EXCEPT ![i] = status]
        /\ daysLeft' = [daysLeft EXCEPT ![i] = left]
        /\ alertDays' = [alertDays EXCEPT ![i] = alert]
        /\ responsible' = IF user THEN responsible \cup {i} ELSE responsible \ {i}
        /\ marked' = marked \ {i} /\ mailed' = mailed \ {i} /\ mailedTwice' = mailedTwice \ {i}
        /\ runs' = [c \in Clients |->
             IF runs[c] # Idle /\ i \in Held(runs[c]) THEN [runs[c] EXCEPT !.stale = @ \cup {i}] ELSE runs[c]]
        /\ UNCHANGED <<lock, lockLost, disturbed>>
    BY <1>2 DEF ChangeItem
  <2>2. ASSUME NEW k \in Items, k # i
        PROVE  /\ itemStatus'[k] = itemStatus[k] /\ (Marked(k)' <=> Marked(k)) /\ (Due(k)' <=> Due(k))
               /\ k \in responsible' <=> k \in responsible
    BY <1>0, <2>1, <2>2 DEF Marked, Due
  <2>3. ASSUME NEW c \in Clients
        PROVE  /\ runs'[c] \in {Idle} \cup JobRuns /\ RunRight(c, runs[c])'
               /\ runs[c] # Idle => runs'[c] # Idle /\ Held(runs'[c]) = Held(runs[c])
               /\ RunKnows(runs[c]) => RunKnows(runs[c])'
    <3>1. PICK r : r = runs[c]
      OBVIOUS
    <3>2. r \in {Idle} \cup JobRuns /\ RunRight(c, r)
      BY <1>0, <3>1
    <3>3. ASSUME NEW n, n.op = r.op, n.expired = r.expired, n.soon = r.soon, n.to = r.to,
                 n.stale \ {i} = r.stale \ {i}, i \in Held(r) => i \in n.stale,
                 r # Idle, RunKnows(r)
          PROVE  RunKnows(n)'
      <4>1. SUFFICES ASSUME r.op \in {"mark", "marksoon", "mail"}, NEW k \in Held(r)
                     PROVE  /\ k \in n.stale => k \notin marked'
                            /\ k \notin n.stale =>
                                 /\ itemStatus'[k] # "none" /\ Due(k)' /\ k \notin mailed'
                                 /\ k \in r.to <=> k \in responsible'
                                 /\ r.op = "mark" => itemStatus'[k] = "valid"
                                 /\ r.op = "marksoon" /\ k \notin r.soon => Marked(k)'
                                 /\ r.op = "mail" => Marked(k)'
        BY <3>3 DEF RunKnows, Held
      <4>2. k \in Items
        BY <3>2, <3>3, <4>1 DEF JobRuns, Held
      <4>3. CASE k = i
        BY <2>1, <3>3, <4>1, <4>3
      <4>4. CASE k # i
        <5>1. k \in n.stale <=> k \in r.stale
          BY <3>3, <4>4
        <5>2. k \in marked' <=> k \in marked
          BY <2>1, <4>4
        <5>3. k \in mailed' <=> k \in mailed
          BY <2>1, <4>4
        <5>4. /\ itemStatus'[k] = itemStatus[k] /\ (Marked(k)' <=> Marked(k)) /\ (Due(k)' <=> Due(k))
              /\ k \in responsible' <=> k \in responsible
          BY <2>2, <4>2, <4>4
        <5>5. QED
          BY <3>3, <4>1, <5>1, <5>2, <5>3, <5>4 DEF RunKnows
      <4>5. QED
        BY <4>3, <4>4
    <3>4. CASE r # Idle /\ i \in Held(r)
      <4>1. PICK n : n = [r EXCEPT !.stale = @ \cup {i}]
        OBVIOUS
      <4>2. /\ n \in JobRuns /\ n.op = r.op /\ n.job = r.job /\ n.expired = r.expired /\ n.soon = r.soon
            /\ n.to = r.to /\ n.stale = r.stale \cup {i}
        BY <3>2, <3>4, <4>1 DEF JobRuns
      <4>3. n # Idle /\ Held(n) = Held(r)
        BY <4>2 DEF JobRuns, Idle, Held
      <4>4. runs'[c] = n
        BY <2>1, <3>1, <3>4, <4>1
      <4>5. RunRight(c, n)'
        BY <2>1, <3>2, <3>4, <4>2, <4>3 DEF RunRight, Held
      <4>6. RunKnows(r) => RunKnows(n)'
        BY <3>3, <3>4, <4>2
      <4>7. QED
        BY <3>1, <4>2, <4>3, <4>4, <4>5, <4>6 DEF RunRight, RunKnows, Held, Due, Marked
    <3>5. CASE ~ (r # Idle /\ i \in Held(r))
      <4>1. runs'[c] = r
        BY <2>1, <3>1, <3>5
      <4>2. RunRight(c, r)'
        BY <2>1, <3>2 DEF RunRight, Held
      <4>3. RunKnows(r) => RunKnows(r)'
        <5>1. CASE r = Idle
          BY <5>1 DEF RunKnows, Idle
        <5>2. CASE r # Idle
          BY <3>3, <3>5, <5>2
        <5>3. QED
          BY <5>1, <5>2
      <4>4. QED
        BY <3>1, <3>2, <4>1, <4>2, <4>3 DEF RunRight, RunKnows, Held, Due, Marked
    <3>6. QED
      BY <3>4, <3>5
  <2>4. JobsTypeOK'
    <3>1. runs' = [c \in Clients |-> runs'[c]]
      BY <2>1
    <3>2. runs' \in [Clients -> {Idle} \cup JobRuns]
      BY <2>3, <3>1
    <3>3. /\ daysLeft' \in [Items -> -1..FarAway] /\ alertDays' \in [Items -> AlertDays \cup {0}]
          /\ itemStatus' \in [Items -> {"none", "valid", "expiring_soon", "expired"}]
      BY <1>0, <2>1
    <3>4. changes' \in 0..MaxChanges
      BY <1>0, <2>1, JobsAssumption
    <3>5. /\ responsible' \subseteq Items /\ marked' \subseteq Items /\ mailed' \subseteq Items
          /\ mailedTwice' \subseteq Items
      BY <1>0, <2>1
    <3>6. QED
      BY <1>0, <2>1, <3>2, <3>3, <3>4, <3>5 DEF JobsTypeOK
  <2>5. ASSUME ~ disturbed' PROVE MailsRight'
    <3>1. MailsRight
      BY <2>1, <2>5 DEF JobsInv
    <3>2. \A c \in Clients : RunKnows(runs[c])'
      BY <2>3, <3>1 DEF MailsRight
    <3>3. \A k \in mailed' : Marked(k)' /\ k \in responsible'
      BY <1>0, <2>1, <2>2, <3>1 DEF MailsRight
    <3>4. ASSUME NEW k \in marked' PROVE MarkRight(k)'
      <4>1. k \in Items /\ k # i /\ MarkRight(k)
        BY <1>0, <2>1, <3>1, <3>4 DEF MailsRight
      <4>2. Marked(k)' /\ Due(k)' /\ (k \in responsible' <=> k \in responsible)
        BY <2>2, <4>1 DEF MarkRight
      <4>3. k \in mailed' <=> k \in mailed
        BY <2>1, <4>1
      <4>4. (\E c \in Clients : runs[c] # Idle /\ k \in Held(runs[c]))
              => \E c \in Clients : runs'[c] # Idle /\ k \in Held(runs'[c])
        BY <2>3
      <4>5. QED
        BY <4>1, <4>2, <4>3, <4>4 DEF MarkRight, Held
    <3>5. mailedTwice' = {} /\ "compliance" \notin lockLost'
      BY <2>1, <3>1 DEF MailsRight
    <3>6. QED
      BY <3>2, <3>3, <3>4, <3>5 DEF MailsRight
  <2>6. QED
    BY <2>3, <2>4, <2>5 DEF JobsInv
<1>3. CASE CreateItem
  <2>1. PICK i \in Items, left \in -1..FarAway, alert \in AlertDays, user \in BOOLEAN :
          ChangeItem(i, "valid", left, alert, user)
    BY <1>3 DEF CreateItem
  <2>2. QED
    BY <1>2, <2>1
<1>4. CASE UpdateItem
  <2>1. PICK i \in Items, status \in {"valid", "expiring_soon", "expired"}, left \in -1..FarAway,
             alert \in AlertDays, user \in BOOLEAN :
          ChangeItem(i, status, left, alert, user)
    BY <1>4 DEF UpdateItem
  <2>2. QED
    BY <1>2, <2>1
<1>5. CASE DeleteItem
  <2>1. PICK i \in Items : ChangeItem(i, "none", FarAway, 0, FALSE)
    BY <1>5 DEF DeleteItem
  <2>2. FarAway \in -1..FarAway
    BY JobsAssumption
  <2>3. QED
    BY <1>2, <2>1, <2>2
<1>6. CASE PassDay
  <2>1. daysLeft' = [i \in Items |->
          IF daysLeft[i] >= 0 /\ itemStatus[i] # "none" THEN daysLeft[i] - 1 ELSE daysLeft[i]]
    BY <1>6 DEF PassDay
  <2>2. UNCHANGED <<lock, itemStatus, alertDays, responsible, changes, runs, marked, mailed, mailedTwice, lockLost, disturbed>>
    BY <1>6 DEF PassDay
  <2>3. \A i \in Items : daysLeft'[i] \in -1..FarAway /\ (Due(i) => Due(i)')
    <3>1. ASSUME NEW i \in Items PROVE daysLeft'[i] \in -1..FarAway /\ daysLeft'[i] <= daysLeft[i]
      BY <1>0, <2>1, JobsAssumption
    <3>2. \A i \in Items : alertDays[i] \in Nat
      <4>1. AlertDays \cup {0} \subseteq Nat
        BY JobsAssumption
      <4>2. QED
        BY <1>0, <4>1
    <3>3. QED
      BY <1>0, <2>2, <3>1, <3>2, JobsAssumption DEF Due
  <2>4. JobsTypeOK'
    BY <1>0, <2>1, <2>2, <2>3, JobsTyped DEF JobsTypeOK, JobRuns
  <2>5. \A c \in Clients : RunRight(c, runs[c])'
    BY <1>0, <2>2 DEF RunRight, Held
  <2>6. ASSUME ~ disturbed' PROVE MailsRight'
    <3>1. MailsRight
      BY <2>2, <2>6 DEF JobsInv
    <3>2. ASSUME NEW c \in Clients PROVE RunKnows(runs[c])'
      <4>1. PICK r : r = runs[c]
        OBVIOUS
      <4>2. RunKnows(r) /\ r \in {Idle} \cup JobRuns
        BY <1>0, <3>1, <4>1 DEF MailsRight
      <4>3. r.op \in {"mark", "marksoon", "mail"} => Held(r) \subseteq Items
        BY <4>2 DEF Held, JobRuns, Idle
      <4>4. RunKnows(r)'
        BY <2>2, <2>3, <4>2, <4>3 DEF RunKnows, Marked
      <4>5. QED
        BY <2>2, <4>1, <4>4 DEF RunKnows, Held, Due, Marked
    <3>3. ASSUME NEW i \in marked PROVE MarkRight(i)'
      <4>1. MarkRight(i) /\ i \in Items
        BY <1>0, <3>1, <3>3 DEF MailsRight
      <4>2. QED
        BY <2>2, <2>3, <4>1 DEF MarkRight, Marked, Held
    <3>4. QED
      BY <2>2, <3>1, <3>2, <3>3 DEF MailsRight, Marked
  <2>7. QED
    BY <2>4, <2>5, <2>6 DEF JobsInv
<1>7. CASE ExpireLock
  <2>1. PICK j \in JobNames :
       /\ lock[j] # NoRow
       /\ lock' = [lock EXCEPT ![j] = NoRow]
       /\ lockLost' = IF runs[lock[j]] # Idle /\ runs[lock[j]].job = j THEN lockLost \cup {j} ELSE lockLost
       /\ Disturb((runs[lock[j]] # Idle /\ runs[lock[j]].job = j) /\ j = "compliance")
    BY <1>7 DEF ExpireLock
  <2>2. PICK yes \in BOOLEAN : yes <=> (runs[lock[j]] # Idle /\ runs[lock[j]].job = j) /\ j = "compliance"
    OBVIOUS
  <2>3. UNCHANGED <<itemVars, runs>>
    BY <1>7 DEF ExpireLock
  <2>4. /\ disturbed' \in BOOLEAN /\ (disturbed' <=> disturbed \/ yes)
        /\ marked' \subseteq Items /\ mailed' \subseteq Items /\ mailedTwice' \subseteq Items
        /\ ~ disturbed' => UNCHANGED <<marked, mailed, mailedTwice>>
    <3>1. Disturb(yes)
      BY <2>1, <2>2 DEF Disturb
    <3>2. QED
      BY <3>1, Disturbs DEF JobsInv
  <2>5. /\ lock' \in [JobNames -> Clients \cup {NoRow}] /\ lock'[j] = NoRow
        /\ \A k \in JobNames : k # j => lock'[k] = lock[k]
        /\ lockLost \subseteq lockLost' /\ lockLost' \subseteq JobNames
    BY <1>0, <2>1
  <2>6. JobsTypeOK'
    BY <1>0, <2>3, <2>4, <2>5, JobsTyped DEF JobsTypeOK, JobRuns, itemVars
  <2>7. ASSUME NEW c \in Clients PROVE RunRight(c, runs[c])'
    <3>1. CASE runs[c] = Idle
      BY <2>3, <3>1 DEF RunRight, Idle
    <3>2. CASE runs[c] # Idle
      <4>1. runs[c].job \in JobNames /\ RunRight(c, runs[c])
        BY <1>0, <3>2 DEF JobRuns
      <4>2. CASE runs[c].job # j
        BY <2>3, <2>5, <3>2, <4>1, <4>2 DEF RunRight, Held
      <4>3. CASE runs[c].job = j
        <5>1. j \in lockLost'
          BY <2>1, <2>5, <3>2, <4>1, <4>3 DEF RunRight
        <5>2. QED
          BY <2>3, <3>2, <4>1, <4>3, <5>1 DEF RunRight, Held
      <4>4. QED
        BY <4>2, <4>3
    <3>3. QED
      BY <3>1, <3>2
  <2>8. ASSUME ~ disturbed' PROVE MailsRight'
    <3>1. MailsRight /\ UNCHANGED <<marked, mailed, mailedTwice>> /\ ~ yes
      BY <2>4, <2>8 DEF JobsInv
    <3>2. "compliance" \notin lockLost'
      BY <2>1, <2>2, <3>1 DEF MailsRight
    <3>3. QED
      BY <2>3, <3>1, <3>2 DEF MailsRight, MarkRight, RunKnows, Marked, Due, Held, itemVars
  <2>9. QED
    BY <2>6, <2>7, <2>8 DEF JobsInv
<1>8. ASSUME NEW c \in Clients, TakeLock(c) PROVE JobsInv'
  <2>0. PICK j \in JobNames : j = scheduled
    BY <1>0
  <2>1. /\ lock[j] = NoRow
        /\ lock' = [lock EXCEPT ![j] = c]
        /\ runs' = [runs EXCEPT ![c] =
             [op |-> IF j = "compliance" THEN "read" ELSE "statement", job |-> j,
              expired |-> {}, soon |-> {}, to |-> {}, stale |-> {}]]
        /\ lockLost' = IF \E d \in Clients : runs[d] # Idle /\ runs[d].job = j
                       THEN lockLost ELSE lockLost \ {j}
    BY <1>8, <2>0 DEF TakeLock, Free
  <2>2. UNCHANGED <<itemVars, marked, mailed, mailedTwice, disturbed>> /\ runs[c] = Idle
    BY <1>8 DEF TakeLock
  <2>3. PICK n : n = [op |-> IF j = "compliance" THEN "read" ELSE "statement", job |-> j,
                      expired |-> {}, soon |-> {}, to |-> {}, stale |-> {}]
    OBVIOUS
  <2>4. /\ n \in JobRuns /\ n.job = j /\ Held(n) = {} /\ (n.op = "read" => j = "compliance")
        /\ n.op \in {"read", "statement"}
    BY <2>3 DEF JobRuns, Held
  <2>5. /\ runs' \in [Clients -> {Idle} \cup JobRuns] /\ runs'[c] = n
        /\ \A d \in Clients : d # c => runs'[d] = runs[d]
    BY <1>0, <2>1, <2>3, <2>4
  <2>6. /\ lock' \in [JobNames -> Clients \cup {NoRow}] /\ lock'[j] = c
        /\ \A k \in JobNames : k # j => lock'[k] = lock[k]
        /\ lockLost' \subseteq lockLost
    BY <1>0, <2>1
  <2>7. JobsTypeOK'
    BY <1>0, <2>2, <2>5, <2>6, JobsTyped DEF JobsTypeOK, JobRuns, itemVars
  <2>8. ASSUME NEW d \in Clients PROVE RunRight(d, runs[d])'
    <3>1. CASE d = c
      <4>1. RunRight(c, n)'
        BY <2>4, <2>6 DEF RunRight, Held
      <4>2. QED
        BY <2>5, <3>1, <4>1 DEF RunRight
    <3>2. CASE d # c /\ runs[d] = Idle
      BY <2>5, <3>2 DEF RunRight, Idle
    <3>3. CASE d # c /\ runs[d] # Idle
      <4>1. runs[d].job \in JobNames /\ RunRight(d, runs[d]) /\ runs'[d] = runs[d]
        BY <1>0, <2>5, <3>3 DEF JobRuns
      <4>2. CASE runs[d].job = j
        <5>1. j \in lockLost /\ lockLost' = lockLost
          BY <1>0, <2>1, <3>3, <4>1, <4>2 DEF RunRight
        <5>2. QED
          BY <3>3, <4>1, <4>2, <5>1 DEF RunRight, Held
      <4>3. CASE runs[d].job # j
        BY <2>1, <2>6, <3>3, <4>1, <4>3 DEF RunRight, Held
      <4>4. QED
        BY <4>2, <4>3
    <3>4. QED
      BY <3>1, <3>2, <3>3
  <2>9. ASSUME ~ disturbed' PROVE MailsRight'
    <3>1. MailsRight
      BY <2>2, <2>9 DEF JobsInv
    <3>2. ASSUME NEW d \in Clients PROVE RunKnows(runs[d])'
      <4>1. CASE d = c
        BY <2>4, <2>5, <4>1 DEF RunKnows
      <4>2. CASE d # c
        BY <2>2, <2>5, <3>1, <4>2 DEF MailsRight, RunKnows, Held, Due, Marked, itemVars
      <4>3. QED
        BY <4>1, <4>2
    <3>3. ASSUME NEW i \in marked PROVE MarkRight(i)'
      <4>1. MarkRight(i)
        BY <3>1, <3>3 DEF MailsRight
      <4>2. (\E d \in Clients : runs[d] # Idle /\ i \in Held(runs[d]))
              => \E d \in Clients : runs'[d] # Idle /\ i \in Held(runs'[d])
        BY <2>2, <2>5
      <4>3. QED
        BY <2>2, <4>1, <4>2 DEF MarkRight, Marked, Due, Held, itemVars
    <3>4. QED
      BY <2>2, <2>6, <3>1, <3>2, <3>3 DEF MailsRight, Marked, itemVars
  <2>10. QED
    BY <2>7, <2>8, <2>9 DEF JobsInv
<1>9. ASSUME NEW c \in Clients, RunStatement(c) PROVE JobsInv'
  <2>1. /\ runs[c].op = "statement" /\ lock' = [lock EXCEPT ![runs[c].job] = NoRow]
        /\ runs' = [runs EXCEPT ![c] = Idle]
        /\ UNCHANGED <<itemVars, marked, mailed, mailedTwice, lockLost, disturbed>>
    BY <1>9 DEF RunStatement, Finish
  <2>2. runs[c] # Idle /\ Held(runs[c]) = {}
    BY <1>0, <2>1 DEF RunRight, Idle
  <2>3. ~ disturbed => (\A i \in mailed : Marked(i) /\ i \in responsible) /\ mailedTwice = {}
    BY DEF JobsInv, MailsRight
  <2>4. QED
    BY <1>0, <2>1, <2>2, <2>3, RunEnds
<1>10. ASSUME NEW c \in Clients, EndRun(c) \/ CrashRun(c) PROVE JobsInv'
  <2>1. PICK yes \in BOOLEAN : yes <=> runs[c].op \in {"mark", "marksoon", "mail"}
    OBVIOUS
  <2>2. /\ runs[c] # Idle /\ Disturb(yes) /\ runs' = [runs EXCEPT ![c] = Idle]
        /\ lock' \in {lock, [lock EXCEPT ![runs[c].job] = NoRow]}
        /\ UNCHANGED <<itemVars, lockLost>>
    BY <1>10, <2>1 DEF EndRun, CrashRun, Finish, Disturb
  <2>3. /\ disturbed' \in BOOLEAN /\ (disturbed' <=> disturbed \/ yes)
        /\ marked' \subseteq Items /\ mailed' \subseteq Items /\ mailedTwice' \subseteq Items
        /\ ~ disturbed' => UNCHANGED <<marked, mailed, mailedTwice>>
    BY <2>2, Disturbs DEF JobsInv
  <2>4. ~ disturbed' => /\ \A i \in mailed : Marked(i) /\ i \in responsible
                        /\ mailedTwice = {} /\ Held(runs[c]) = {}
    <3>1. ~ yes => Held(runs[c]) = {}
      BY <1>0, <2>1, <2>2 DEF RunRight, JobRuns
    <3>2. QED
      BY <2>3, <3>1 DEF JobsInv, MailsRight
  <2>5. QED
    BY <1>0, <2>2, <2>3, <2>4, RunEnds
<1>11. ASSUME NEW c \in Clients, ReadItems(c) PROVE JobsInv'
  <2>1. PICK items : items = {i \in Items : Reads(i)}
    OBVIOUS
  <2>2. PICK r : r = runs[c]
    OBVIOUS
  <2>3. PICK new : new = [r EXCEPT !.op = "mark", !.expired = {i \in items : Expired(i)},
                                   !.soon = {i \in items : ~Expired(i)}, !.to = items \cap responsible]
    OBVIOUS
  <2>4. /\ r.op = "read" /\ runs' = [runs EXCEPT ![c] = new]
        /\ UNCHANGED <<lock, itemVars, marked, mailed, mailedTwice, lockLost, disturbed>>
    BY <1>0, <1>11, <2>1, <2>2, <2>3 DEF ReadItems
  <2>5. r \in JobRuns /\ r # Idle /\ r.job = "compliance" /\ Held(r) = {}
    BY <1>0, <2>2, <2>4 DEF RunRight, Idle
  <2>6. /\ new \in JobRuns /\ new.op = "mark" /\ new.job = "compliance" /\ Held(new) = items
        /\ new.to = items \cap responsible
    BY <2>1, <2>3, <2>5 DEF JobRuns, Held
  <2>7. /\ JobsTypeOK'
        /\ \A d \in Clients : RunRight(d, runs[d])'
        /\ ~ disturbed => \A d \in Clients : d # c => RunKnows(runs[d])'
        /\ runs'[c] = new /\ new # Idle /\ \A d \in Clients : d # c => runs'[d] = runs[d]
    BY <1>0, <2>2, <2>4, <2>5, <2>6, RunGoesOn DEF itemVars
  <2>8. ASSUME ~ disturbed PROVE MailsRight'
    <3>1. MailsRight
      BY <2>8 DEF JobsInv
    <3>2. \A i \in items : itemStatus[i] = "valid" /\ Due(i) /\ i \notin mailed /\ i \notin marked
      BY <2>1, <3>1 DEF MailsRight, MarkRight, Reads, Marked
    <3>3. RunKnows(new)'
      <4>1. UNCHANGED <<itemVars, marked, mailed>>
        BY <2>4
      <4>2. \A i \in items : Due(i)'
        BY <3>2, <4>1 DEF Due, itemVars
      <4>3. QED
        BY <2>6, <3>2, <4>1, <4>2 DEF RunKnows, itemVars
    <3>4. RunKnows(runs[c])'
      BY <2>7, <3>3 DEF RunKnows, Held, Due, Marked
    <3>5. ASSUME NEW i \in marked PROVE MarkRight(i)'
      <4>1. MarkRight(i)
        BY <3>1, <3>5 DEF MailsRight
      <4>2. (\E d \in Clients : runs[d] # Idle /\ i \in Held(runs[d]))
              => \E d \in Clients : runs'[d] # Idle /\ i \in Held(runs'[d])
        BY <2>2, <2>5, <2>7
      <4>3. QED
        BY <2>4, <4>1, <4>2 DEF MarkRight, Marked, Due, Held, itemVars
    <3>6. \A d \in Clients : RunKnows(runs[d])'
      BY <2>7, <2>8, <3>4
    <3>7. QED
      BY <2>4, <3>1, <3>5, <3>6 DEF MailsRight, Marked, itemVars
  <2>9. QED
    BY <2>4, <2>7, <2>8 DEF JobsInv
<1>12. ASSUME NEW c \in Clients, MarkItems(c) PROVE JobsInv'
  <2>1. PICK r : r = runs[c]
    OBVIOUS
  <2>2. PICK first \in BOOLEAN : first <=> r.expired # {}
    OBVIOUS
  <2>3. PICK ids : ids = {i \in IF first THEN r.expired ELSE r.soon : itemStatus[i] # "none"}
    OBVIOUS
  <2>4. PICK new : new = IF first /\ r.soon # {} THEN [r EXCEPT !.op = "marksoon"] ELSE [r EXCEPT !.op = "mail"]
    OBVIOUS
  <2>5. /\ r.op = "mark"
        /\ itemStatus' = [i \in Items |->
             IF i \notin ids THEN itemStatus[i] ELSE IF first THEN "expired" ELSE "expiring_soon"]
        /\ marked' = Recorded(marked \cup (ids \ r.stale))
        /\ runs' = [runs EXCEPT ![c] = new]
        /\ UNCHANGED <<lock, daysLeft, alertDays, responsible, changes, mailed, mailedTwice, lockLost, disturbed>>
    BY <1>12, <2>1, <2>2, <2>3, <2>4 DEF MarkItems
  <2>6. r \in JobRuns /\ r.job = "compliance"
    BY <1>0, <2>1, <2>5 DEF RunRight, Idle
  <2>7. /\ new \in JobRuns /\ new.op \in {"marksoon", "mail"} /\ new.job = "compliance"
        /\ new.expired = r.expired /\ new.soon = r.soon /\ new.stale = r.stale /\ new.to = r.to
        /\ (new.op = "marksoon" <=> first /\ r.soon # {})
    BY <2>4, <2>6 DEF JobRuns
  <2>8. ids \subseteq Held(r) /\ \A i \in ids : itemStatus[i] # "none"
    BY <2>3 DEF Held
  <2>9. itemStatus' \in [Items -> {"none", "valid", "expiring_soon", "expired"}]
    BY <1>0, <2>5
  <2>10. \A i \in Items : IF i \in ids THEN Marked(i)' ELSE itemStatus'[i] = itemStatus[i]
    BY <2>5 DEF Marked
  <2>11. new.op = "marksoon" => Held(r) \ r.soon \subseteq ids \cup {i \in Items : itemStatus[i] = "none"}
    BY <2>3, <2>6, <2>7 DEF Held, JobRuns
  <2>12. new.op = "mail" => \A i \in Held(r) : itemStatus[i] # "none" =>
                              i \in ids \/ (r.op = "marksoon" /\ i \notin r.soon)
    BY <2>2, <2>3, <2>7 DEF Held
  <2>13. QED
    BY <1>0, <2>1, <2>5, <2>7, <2>8, <2>9, <2>10, <2>11, <2>12, MarkingKeeps
<1>13. ASSUME NEW c \in Clients, MarkSoon(c) PROVE JobsInv'
  <2>1. PICK r : r = runs[c]
    OBVIOUS
  <2>2. PICK ids : ids = {i \in r.soon : itemStatus[i] # "none"}
    OBVIOUS
  <2>3. PICK new : new = [r EXCEPT !.op = "mail"]
    OBVIOUS
  <2>4. /\ r.op = "marksoon"
        /\ itemStatus' = [i \in Items |-> IF i \in ids THEN "expiring_soon" ELSE itemStatus[i]]
        /\ marked' = Recorded(marked \cup (ids \ r.stale))
        /\ runs' = [runs EXCEPT ![c] = new]
        /\ UNCHANGED <<lock, daysLeft, alertDays, responsible, changes, mailed, mailedTwice, lockLost, disturbed>>
    BY <1>0, <1>13, <2>1, <2>2, <2>3 DEF MarkSoon
  <2>5. r \in JobRuns /\ r.job = "compliance"
    BY <1>0, <2>1, <2>4 DEF RunRight, Idle
  <2>6. /\ new \in JobRuns /\ new.op = "mail" /\ new.job = "compliance"
        /\ new.expired = r.expired /\ new.soon = r.soon /\ new.stale = r.stale /\ new.to = r.to
    BY <2>3, <2>5 DEF JobRuns
  <2>7. ids \subseteq Held(r) /\ \A i \in ids : itemStatus[i] # "none"
    BY <2>2 DEF Held
  <2>8. itemStatus' \in [Items -> {"none", "valid", "expiring_soon", "expired"}]
    BY <1>0, <2>4
  <2>9. \A i \in Items : IF i \in ids THEN Marked(i)' ELSE itemStatus'[i] = itemStatus[i]
    BY <2>4 DEF Marked
  <2>10. \A i \in Held(r) : itemStatus[i] # "none" => i \in ids \/ (r.op = "marksoon" /\ i \notin r.soon)
    BY <2>2, <2>4
  <2>11. QED
    BY <1>0, <2>1, <2>4, <2>6, <2>7, <2>8, <2>9, <2>10, MarkingKeeps
<1>14. ASSUME NEW c \in Clients, MailItem(c) PROVE JobsInv'
  <2>1. PICK r : r = runs[c]
    OBVIOUS
  <2>2. PICK i \in IF r.expired # {} THEN r.expired ELSE r.soon :
          LET sent == {i} \cap (r.to \ r.stale)
          IN /\ mailed' = Recorded(mailed \cup sent)
             /\ mailedTwice' = Recorded(mailedTwice \cup (sent \cap mailed))
             /\ IF Held(r) = {i} THEN Finish(c)
                ELSE /\ runs' = [runs EXCEPT ![c].expired = @ \ {i}, ![c].soon = @ \ {i},
                                            ![c].to = @ \ {i}, ![c].stale = @ \ {i}]
                     /\ UNCHANGED lock
    BY <1>14, <2>1 DEF MailItem
  <2>3. r.op = "mail" /\ UNCHANGED <<itemVars, marked, lockLost, disturbed>>
    BY <1>14, <2>1 DEF MailItem
  <2>4. r \in JobRuns /\ r # Idle /\ r.job = "compliance" /\ i \in Held(r) /\ Held(r) \subseteq Items
    <3>1. r \in JobRuns /\ r # Idle /\ r.job = "compliance"
      BY <1>0, <2>1, <2>3 DEF RunRight, Idle
    <3>2. i \in Held(r) /\ Held(r) \subseteq Items
      BY <2>2, <3>1 DEF Held, JobRuns
    <3>3. QED
      BY <3>1, <3>2
  <2>5. PICK sent : sent = {i} \cap (r.to \ r.stale)
    OBVIOUS
  <2>6. /\ mailed' = Recorded(mailed \cup sent) /\ mailedTwice' = Recorded(mailedTwice \cup (sent \cap mailed))
        /\ marked' \subseteq Items /\ mailed' \subseteq Items /\ mailedTwice' \subseteq Items
    BY <1>0, <2>2, <2>3, <2>4, <2>5 DEF Recorded
  <2>7. ASSUME ~ disturbed
        PROVE  /\ MailsRight /\ mailed' = mailed \cup sent /\ mailedTwice' = {}
               /\ \A k \in mailed' : Marked(k) /\ k \in responsible
               /\ i \in marked /\ i \in responsible => i \in mailed'
    <3>1. MailsRight
      BY <2>7 DEF JobsInv
    <3>2. /\ i \in r.stale => i \notin marked
          /\ i \notin r.stale => Marked(i) /\ i \notin mailed /\ (i \in r.to <=> i \in responsible)
      BY <2>1, <2>3, <2>4, <3>1 DEF MailsRight, RunKnows
    <3>3. mailed' = mailed \cup sent /\ mailedTwice' = mailedTwice \cup (sent \cap mailed)
      BY <2>6, <2>7 DEF Recorded
    <3>4. mailedTwice' = {}
      BY <2>5, <3>1, <3>2, <3>3 DEF MailsRight
    <3>5. \A k \in mailed' : Marked(k) /\ k \in responsible
      BY <2>5, <3>1, <3>2, <3>3 DEF MailsRight
    <3>6. QED
      BY <2>5, <3>1, <3>2, <3>3, <3>4, <3>5
  <2>8. CASE Held(r) = {i}
    <3>1. lock' = [lock EXCEPT ![runs[c].job] = NoRow] /\ runs' = [runs EXCEPT ![c] = Idle]
      BY <2>1, <2>2, <2>8 DEF Finish
    <3>2. ~ disturbed' =>
           /\ marked' = marked /\ mailedTwice' = {}
           /\ \A k \in mailed' : Marked(k) /\ k \in responsible
           /\ mailed \subseteq mailed'
           /\ \A k \in mailed' \ mailed : k \in Held(runs[c]) /\ runs[c].job = "compliance"
           /\ \A k \in Held(runs[c]) : k \in marked /\ k \in responsible => k \in mailed'
      BY <2>1, <2>3, <2>4, <2>5, <2>7, <2>8
    <3>3. QED
      BY <1>0, <2>1, <2>3, <2>4, <2>6, <3>1, <3>2, RunEnds
  <2>9. CASE Held(r) # {i}
    <3>1. PICK new : new = [r EXCEPT !.expired = @ \ {i}, !.soon = @ \ {i}, !.to = @ \ {i}, !.stale = @ \ {i}]
      OBVIOUS
    <3>2. runs' = [runs EXCEPT ![c] = new] /\ lock' = lock
      BY <1>0, <2>1, <2>2, <2>9, <3>1
    <3>3. /\ new \in JobRuns /\ new.op = "mail" /\ new.job = "compliance" /\ Held(new) = Held(r) \ {i}
          /\ new.stale = r.stale \ {i} /\ new.to = r.to \ {i}
      BY <2>3, <2>4, <3>1 DEF JobRuns, Held
    <3>4. /\ JobsTypeOK'
          /\ \A d \in Clients : RunRight(d, runs[d])'
          /\ ~ disturbed => \A d \in Clients : d # c => RunKnows(runs[d])'
          /\ runs'[c] = new /\ new # Idle /\ \A d \in Clients : d # c => runs'[d] = runs[d]
      BY <1>0, <2>1, <2>3, <2>4, <2>6, <3>2, <3>3, RunGoesOn DEF itemVars
    <3>5. ASSUME ~ disturbed PROVE MailsRight'
      <4>1. /\ MailsRight /\ mailed' = mailed \cup sent /\ mailedTwice' = {} /\ marked' = marked
            /\ \A k \in mailed' : Marked(k) /\ k \in responsible
            /\ i \in marked /\ i \in responsible => i \in mailed'
        BY <2>3, <2>7, <3>5
      <4>2. \A k : (Marked(k)' <=> Marked(k)) /\ (Due(k)' <=> Due(k)) /\ (k \in responsible' <=> k \in responsible)
                    /\ itemStatus'[k] = itemStatus[k]
        BY <2>3 DEF Marked, Due, itemVars
      <4>3. RunKnows(new)'
        <5>1. RunKnows(r)
          BY <2>1, <4>1 DEF MailsRight
        <5>2. SUFFICES ASSUME NEW k \in Held(r), k # i
                       PROVE  /\ k \in r.stale => k \notin marked'
                              /\ k \notin r.stale =>
                                   /\ itemStatus'[k] # "none" /\ Due(k)' /\ k \notin mailed'
                                   /\ k \in r.to <=> k \in responsible'
                                   /\ Marked(k)'
          BY <3>3 DEF RunKnows
        <5>3. k \in mailed' <=> k \in mailed
          BY <2>5, <4>1, <5>2
        <5>4. QED
          BY <2>3, <4>1, <4>2, <5>1, <5>2, <5>3 DEF RunKnows
      <4>4. RunKnows(runs[c])'
        BY <3>4, <4>3 DEF RunKnows, Held, Due, Marked
      <4>5. ASSUME NEW k \in marked' PROVE MarkRight(k)'
        <5>1. MarkRight(k)
          BY <4>1, <4>5 DEF MailsRight
        <5>2. ASSUME k \in responsible, k \notin mailed'
              PROVE  \E d \in Clients : runs'[d] # Idle /\ k \in Held(runs'[d])
          <6>1. k # i /\ k \notin mailed
            BY <4>1, <4>5, <5>2
          <6>2. PICK d \in Clients : runs[d] # Idle /\ k \in Held(runs[d])
            BY <5>1, <5>2, <6>1 DEF MarkRight
          <6>3. CASE d = c
            BY <2>1, <3>3, <3>4, <6>1, <6>2, <6>3
          <6>4. CASE d # c
            BY <3>4, <6>2, <6>4
          <6>5. QED
            BY <6>3, <6>4
        <5>3. QED
          BY <4>2, <5>1, <5>2 DEF MarkRight, Held
      <4>6. QED
        BY <2>3, <3>4, <3>5, <4>1, <4>2, <4>4, <4>5 DEF MailsRight
    <3>6. QED
      BY <2>3, <3>4, <3>5 DEF JobsInv
  <2>10. QED
    BY <2>8, <2>9
<1>15. QED
  BY <1>1, <1>3, <1>4, <1>5, <1>6, <1>7, <1>8, <1>9, <1>10, <1>11, <1>12, <1>13, <1>14 DEF JobsNext

(*************************************************************************)
(* Jobs that have failed.                                                *)
(* A job that was parked is about to be removed from its queue.          *)
(*************************************************************************)

Listenings == [op : {"park", "remove"}, row : QueuedJobs, stale : BOOLEAN]

\* What an instance is at knows of its job: one to be parked has no attempt left, and if a
\* copy is there already, then this was seen or is told by the history; one to be removed
\* has been parked.
ListeningRight(r) ==
  /\ r.op = "park" =>
       /\ attemptsMade[r.row] = MaxAttempts
       /\ parked[r.row] > 0 => r.stale \/ r.row \in copied
  /\ r.op = "remove" => parked[r.row] > 0

\* A parked job that has not left its queue is about to be removed, unless an instance died
\* before it did.
RemovalFollows ==
  \A j \in queued :
    parked[j] > 0 =>
      j \in copied \/ \E d \in Clients : listenerReq[d].op = "remove" /\ listenerReq[d].row = j

DeadLettersInv ==
  /\ DeadLettersTypeOK
  /\ \A c \in Clients : ListeningRight(listenerReq[c])
  /\ RemovalFollows
  /\ ParkedOnceExhausted

\* The types, with the set of requests named.
LEMMA DeadLettersTyped ==
  DeadLettersTypeOK <=>
    /\ attemptsMade \in [QueuedJobs -> 0..MaxAttempts] /\ queued \subseteq QueuedJobs
    /\ parked \in [QueuedJobs -> 0..MaxCopies] /\ heard \in [Clients -> SUBSET QueuedJobs]
    /\ listenerReq \in [Clients -> {Idle} \cup Listenings] /\ copied \subseteq QueuedJobs
BY DEF DeadLettersTypeOK, Listenings

\* No job has failed at the start.
LEMMA DeadLettersStart == ASSUME DeadLettersInit PROVE DeadLettersInv
<1> USE DeadLettersAssumption DEF DeadLettersInit
<1>1. DeadLettersTypeOK
  BY DEF DeadLettersTypeOK
<1>2. \A c \in Clients : ListeningRight(listenerReq[c])
  BY DEF ListeningRight, Idle
<1>3. RemovalFollows /\ ParkedOnceExhausted
  BY DEF RemovalFollows, ParkedOnceExhausted
<1>4. QED
  BY <1>1, <1>2, <1>3 DEF DeadLettersInv

\* Every step of the listeners keeps the invariant.
LEMMA DeadLettersStep ==
  ASSUME DeadLettersInv, [DeadLettersNext]_deadLetterVars PROVE DeadLettersInv'
<1>0. /\ attemptsMade \in [QueuedJobs -> 0..MaxAttempts] /\ queued \subseteq QueuedJobs
      /\ parked \in [QueuedJobs -> 0..MaxCopies] /\ heard \in [Clients -> SUBSET QueuedJobs]
      /\ listenerReq \in [Clients -> {Idle} \cup Listenings] /\ copied \subseteq QueuedJobs
      /\ MaxAttempts \in Nat /\ MaxCopies \in Nat
  BY DeadLettersTyped, DeadLettersAssumption DEF DeadLettersInv
<1>1. CASE UNCHANGED deadLetterVars
  BY <1>1 DEF deadLetterVars, DeadLettersInv, DeadLettersTypeOK, ListeningRight, RemovalFollows,
    ParkedOnceExhausted
<1>2. CASE FailAttempt
  <2>1. PICK j \in queued :
          /\ attemptsMade[j] < MaxAttempts
          /\ attemptsMade' = [attemptsMade EXCEPT ![j] = @ + 1]
          /\ heard' = [c \in Clients |-> heard[c] \cup {j}]
    BY <1>2 DEF FailAttempt
  <2>2. UNCHANGED <<queued, parked, listenerReq, copied>>
    BY <1>2 DEF FailAttempt
  <2>3. attemptsMade' \in [QueuedJobs -> 0..MaxAttempts] /\ heard' \in [Clients -> SUBSET QueuedJobs]
    BY <1>0, <2>1
  <2>4. \A k \in QueuedJobs : attemptsMade[k] = MaxAttempts => attemptsMade'[k] = MaxAttempts
    BY <1>0, <2>1
  <2>5. DeadLettersTypeOK'
    BY <1>0, <2>2, <2>3, DeadLettersTyped DEF DeadLettersTypeOK
  <2>6. ASSUME NEW c \in Clients PROVE ListeningRight(listenerReq[c])'
    <3>1. PICK r : r = listenerReq[c]
      OBVIOUS
    <3>2. r \in {Idle} \cup Listenings /\ ListeningRight(r)
      BY <1>0, <3>1 DEF DeadLettersInv
    <3>3. ListeningRight(r)'
      BY <2>2, <2>4, <3>2 DEF ListeningRight, Listenings, Idle
    <3>4. QED
      BY <2>2, <3>1, <3>3 DEF ListeningRight
  <2>7. RemovalFollows'
    BY <2>2 DEF DeadLettersInv, RemovalFollows
  <2>8. ParkedOnceExhausted'
    BY <2>2, <2>4 DEF DeadLettersInv, ParkedOnceExhausted
  <2>9. QED
    BY <2>5, <2>6, <2>7, <2>8 DEF DeadLettersInv
<1>3. ASSUME NEW c \in Clients, GetJob(c) PROVE DeadLettersInv'
  <2>1. PICK j \in heard[c] :
          /\ heard' = [heard EXCEPT ![c] = @ \ {j}]
          /\ listenerReq' = IF j \in queued /\ Exhausted(j)
                            THEN [listenerReq EXCEPT ![c] =
                              [op |-> "park", row |-> j, stale |-> \E d \in Clients : listenerReq[d].row = j]]
                            ELSE listenerReq
    BY <1>3 DEF GetJob
  <2>2. listenerReq[c] = Idle /\ UNCHANGED <<attemptsMade, queued, parked, copied>>
    BY <1>3 DEF GetJob
  <2>3. heard' \in [Clients -> SUBSET QueuedJobs]
    BY <1>0, <2>1
  <2>4. CASE ~ (j \in queued /\ Exhausted(j))
    BY <1>0, <2>1, <2>2, <2>3, <2>4, DeadLettersTyped
      DEF DeadLettersInv, DeadLettersTypeOK, ListeningRight, RemovalFollows, ParkedOnceExhausted
  <2>5. CASE j \in queued /\ Exhausted(j)
    <3>1. PICK s \in BOOLEAN : s <=> \E d \in Clients : listenerReq[d].row = j
      OBVIOUS
    <3>2. PICK r : r = [op |-> "park", row |-> j, stale |-> \E d \in Clients : listenerReq[d].row = j]
      OBVIOUS
    <3>3. r \in Listenings /\ (r.stale <=> \E d \in Clients : listenerReq[d].row = j) /\ r.row = j
          /\ r.op = "park"
      BY <1>0, <2>5, <3>2 DEF Listenings
    <3>4. listenerReq' = [listenerReq EXCEPT ![c] = r]
      BY <2>1, <2>5, <3>2
    <3>5. /\ listenerReq' \in [Clients -> {Idle} \cup Listenings] /\ listenerReq'[c] = r
          /\ \A d \in Clients : d # c => listenerReq'[d] = listenerReq[d]
      BY <1>0, <3>3, <3>4
    <3>6. DeadLettersTypeOK'
      BY <1>0, <2>2, <2>3, <3>5, DeadLettersTyped DEF DeadLettersTypeOK, Listenings
    <3>7. ListeningRight(r)'
      <4>1. attemptsMade[j] = MaxAttempts
        BY <1>0, <2>5 DEF Exhausted
      <4>2. parked[j] > 0 => r.stale \/ j \in copied
        BY <2>5, <3>3 DEF DeadLettersInv, RemovalFollows
      <4>3. QED
        BY <2>2, <3>3, <4>1, <4>2 DEF ListeningRight
    <3>8. \A d \in Clients : ListeningRight(listenerReq[d])'
      BY <2>2, <3>5, <3>7 DEF DeadLettersInv, ListeningRight
    <3>9. RemovalFollows'
      <4>1. \A d \in Clients : listenerReq[d].op = "remove" => listenerReq'[d] = listenerReq[d]
        BY <2>2, <3>5 DEF Idle
      <4>2. QED
        BY <2>2, <4>1 DEF DeadLettersInv, RemovalFollows
    <3>10. ParkedOnceExhausted'
      BY <2>2 DEF DeadLettersInv, ParkedOnceExhausted
    <3>11. QED
      BY <3>6, <3>8, <3>9, <3>10 DEF DeadLettersInv
  <2>6. QED
    BY <2>4, <2>5
<1>4. ASSUME NEW c \in Clients, ParkJob(c) PROVE DeadLettersInv'
  <2>1. PICK r : r = listenerReq[c]
    OBVIOUS
  <2>2. /\ r.op = "park" /\ parked[r.row] < MaxCopies
        /\ parked' = [parked EXCEPT ![r.row] = @ + 1]
        /\ copied' = IF r.stale THEN copied \cup {r.row} ELSE copied
        /\ listenerReq' = Overtake(listenerReq, c, [r EXCEPT !.op = "remove"],
             LAMBDA d : listenerReq[d].row = r.row)
        /\ UNCHANGED <<attemptsMade, queued, heard>>
    BY <1>4, <2>1 DEF ParkJob
  <2>3. r \in Listenings /\ r.row \in QueuedJobs /\ ListeningRight(r)
    BY <1>0, <2>1, <2>2 DEF DeadLettersInv, Listenings, Idle
  <2>4. PICK n : n = [r EXCEPT !.op = "remove"]
    OBVIOUS
  <2>5. n \in Listenings /\ n.op = "remove" /\ n.row = r.row
    BY <2>3, <2>4 DEF Listenings
  <2>6. \A d \in Clients :
          listenerReq'[d] = IF d = c THEN n
            ELSE IF listenerReq[d] # Idle /\ listenerReq[d].row = r.row
                 THEN [listenerReq[d] EXCEPT !.stale = TRUE] ELSE listenerReq[d]
    BY <2>2, <2>4 DEF Overtake
  <2>7. /\ parked' \in [QueuedJobs -> 0..MaxCopies] /\ parked'[r.row] > 0
        /\ parked'[r.row] = parked[r.row] + 1
        /\ \A j \in QueuedJobs : j # r.row => parked'[j] = parked[j]
    BY <1>0, <2>2, <2>3
  <2>8. copied \subseteq copied' /\ copied' \subseteq QueuedJobs
    BY <1>0, <2>2, <2>3
  <2>9. ASSUME NEW d \in Clients
        PROVE  listenerReq'[d] \in {Idle} \cup Listenings /\ ListeningRight(listenerReq[d])'
               /\ (listenerReq[d].op = "remove" => listenerReq'[d].op = "remove" /\ listenerReq'[d].row = listenerReq[d].row)
    <3>1. PICK q : q = listenerReq[d]
      OBVIOUS
    <3>2. q \in {Idle} \cup Listenings /\ ListeningRight(q)
      BY <1>0, <3>1 DEF DeadLettersInv
    <3>3. CASE d = c
      <4>1. listenerReq'[d] = n /\ q = r
        BY <2>1, <2>6, <3>1, <3>3
      <4>2. ListeningRight(n)'
        BY <2>5, <2>7 DEF ListeningRight
      <4>3. QED
        BY <2>2, <2>5, <3>1, <4>1, <4>2 DEF ListeningRight
    <3>4. CASE d # c /\ q # Idle /\ q.row = r.row
      <4>1. PICK p : p = [q EXCEPT !.stale = TRUE]
        OBVIOUS
      <4>2. p \in Listenings /\ p.op = q.op /\ p.row = q.row /\ p.stale
        BY <3>2, <3>4, <4>1 DEF Listenings
      <4>3. listenerReq'[d] = p
        BY <2>6, <3>1, <3>4, <4>1
      <4>4. ListeningRight(p)'
        BY <2>2, <2>3, <2>7, <3>2, <3>4, <4>2 DEF ListeningRight
      <4>5. QED
        BY <3>1, <4>2, <4>3, <4>4 DEF ListeningRight
    <3>5. CASE d # c /\ ~ (q # Idle /\ q.row = r.row)
      <4>1. listenerReq'[d] = q
        BY <2>6, <3>1, <3>5
      <4>2. ListeningRight(q)'
        <5>1. CASE q = Idle
          BY <5>1 DEF ListeningRight, Idle
        <5>2. CASE q # Idle
          <6>1. q.row \in QueuedJobs /\ q.row # r.row
            BY <3>2, <3>5, <5>2 DEF Listenings
          <6>2. QED
            BY <2>2, <2>7, <2>8, <3>2, <6>1 DEF ListeningRight
        <5>3. QED
          BY <5>1, <5>2
      <4>3. QED
        BY <3>1, <3>2, <4>1, <4>2 DEF ListeningRight
    <3>6. QED
      BY <3>3, <3>4, <3>5
  <2>10. listenerReq' = [d \in Clients |-> listenerReq'[d]]
    BY <2>2 DEF Overtake
  <2>11. DeadLettersTypeOK'
    BY <1>0, <2>2, <2>7, <2>8, <2>9, <2>10, DeadLettersTyped DEF DeadLettersTypeOK, Listenings
  <2>12. RemovalFollows'
    <3>1. SUFFICES ASSUME NEW j \in queued, parked'[j] > 0
                   PROVE  j \in copied' \/ \E d \in Clients :
                            listenerReq'[d].op = "remove" /\ listenerReq'[d].row = j
      BY <2>2 DEF RemovalFollows
    <3>2. CASE j = r.row
      <4>1. listenerReq'[c] = n
        BY <2>6
      <4>2. QED
        BY <2>5, <3>2, <4>1
    <3>3. CASE j # r.row
      <4>1. parked[j] > 0
        BY <1>0, <2>7, <3>1, <3>3
      <4>2. j \in copied \/ \E d \in Clients : listenerReq[d].op = "remove" /\ listenerReq[d].row = j
        BY <4>1 DEF DeadLettersInv, RemovalFollows
      <4>3. QED
        BY <2>8, <2>9, <4>2
    <3>4. QED
      BY <3>2, <3>3
  <2>13. ParkedOnceExhausted'
    <3>1. ASSUME NEW j \in QueuedJobs
          PROVE  /\ parked'[j] > 0 => attemptsMade[j] = MaxAttempts
                 /\ j \notin queued => parked'[j] > 0
                 /\ parked'[j] > 1 => j \in copied'
      <4>1. /\ parked[j] > 0 => attemptsMade[j] = MaxAttempts
            /\ j \notin queued => parked[j] > 0
            /\ parked[j] > 1 => j \in copied
        BY DEF DeadLettersInv, ParkedOnceExhausted
      <4>2. CASE j # r.row
        BY <2>7, <2>8, <4>1, <4>2
      <4>3. CASE j = r.row
        <5>1. attemptsMade[j] = MaxAttempts /\ (parked[j] > 0 => r.stale \/ j \in copied)
          BY <2>2, <2>3, <4>3 DEF ListeningRight
        <5>2. parked'[j] > 1 => parked[j] > 0
          BY <1>0, <2>7, <4>3
        <5>3. r.stale => j \in copied'
          BY <2>2, <4>3
        <5>4. QED
          BY <2>7, <2>8, <4>3, <5>1, <5>2, <5>3
      <4>4. QED
        BY <4>2, <4>3
    <3>2. QED
      BY <2>2, <3>1 DEF ParkedOnceExhausted
  <2>14. QED
    BY <2>9, <2>11, <2>12, <2>13 DEF DeadLettersInv
<1>5. ASSUME NEW c \in Clients, RemoveJob(c) \/ CrashListener(c) PROVE DeadLettersInv'
  <2>1. PICK r : r = listenerReq[c]
    OBVIOUS
  <2>2. r \in {Idle} \cup Listenings /\ ListeningRight(r)
    BY <1>0, <2>1 DEF DeadLettersInv
  <2>3. /\ listenerReq' = [listenerReq EXCEPT ![c] = Idle] /\ UNCHANGED <<attemptsMade, parked>>
    BY <1>5 DEF RemoveJob, CrashListener
  <2>4. /\ heard' \in [Clients -> SUBSET QueuedJobs] /\ queued' \subseteq queued
        /\ copied \subseteq copied' /\ copied' \subseteq QueuedJobs
    <3>1. CASE RemoveJob(c)
      BY <1>0, <3>1 DEF RemoveJob
    <3>2. CASE CrashListener(c)
      <4>1. r.op = "remove" => r.row \in QueuedJobs
        BY <2>2 DEF Listenings, Idle
      <4>2. QED
        BY <1>0, <2>1, <3>2, <4>1 DEF CrashListener
    <3>3. QED
      BY <1>5, <3>1, <3>2
  <2>5. /\ listenerReq' \in [Clients -> {Idle} \cup Listenings] /\ listenerReq'[c] = Idle
        /\ \A d \in Clients : d # c => listenerReq'[d] = listenerReq[d]
    BY <1>0, <2>3
  <2>6. DeadLettersTypeOK'
    BY <1>0, <2>3, <2>4, <2>5, DeadLettersTyped DEF DeadLettersTypeOK, Listenings
  <2>7. ASSUME NEW d \in Clients PROVE ListeningRight(listenerReq[d])'
    <3>1. CASE d = c
      BY <2>5, <3>1 DEF ListeningRight, Idle
    <3>2. CASE d # c
      BY <2>3, <2>4, <2>5, <3>2 DEF DeadLettersInv, ListeningRight
    <3>3. QED
      BY <3>1, <3>2
  <2>8. r.op = "remove" => r.row \notin queued' \/ r.row \in copied'
    BY <1>5, <2>1 DEF RemoveJob, CrashListener
  <2>9. RemovalFollows'
    <3>1. SUFFICES ASSUME NEW j \in queued', parked[j] > 0
                   PROVE  j \in copied' \/ \E d \in Clients :
                            listenerReq'[d].op = "remove" /\ listenerReq'[d].row = j
      BY <2>3 DEF RemovalFollows
    <3>2. j \in copied \/ \E d \in Clients : listenerReq[d].op = "remove" /\ listenerReq[d].row = j
      BY <2>4, <3>1 DEF DeadLettersInv, RemovalFollows
    <3>3. QED
      BY <2>1, <2>4, <2>5, <2>8, <3>1, <3>2
  <2>10. \A j \in queued \ queued' : parked[j] > 0
    BY <1>5, <2>1, <2>2 DEF RemoveJob, CrashListener, ListeningRight
  <2>11. ParkedOnceExhausted'
    BY <1>0, <2>3, <2>4, <2>10 DEF DeadLettersInv, ParkedOnceExhausted
  <2>12. QED
    BY <2>6, <2>7, <2>9, <2>11 DEF DeadLettersInv
<1>6. QED
  BY <1>1, <1>2, <1>3, <1>4, <1>5 DEF DeadLettersNext

(*************************************************************************)
(* Notifications.                                                        *)
(* Every open tab listens to the subject that its user has in the service *)
(* that has the streams, and the other service has no subject.           *)
(*************************************************************************)

Notifyings ==
  [op : {"insert", "emit"}, row : Notices \cup {NoRow}, users : SUBSET Recipients, failed : SUBSET Recipients]

\* The tabs of a user that are open.
OpenTabs(u) == {t \in Tabs : TabUser[t] = u /\ tab[t] # 0}

\* Every open tab listens to the subject its user has now, the streams that are counted are
\* the open tabs, a row that is emitted has been inserted, and no tab has received one.
NotificationsInv ==
  /\ NotificationsTypeOK
  /\ \A u \in Recipients : connections[u] = Cardinality(OpenTabs(u))
  /\ \A c \in Clients : notifyReq[c].op = "emit" => notifyReq[c].row \in Notices
  /\ TabsKeepTheirSubject
  /\ NothingIsPushed

\* The types, with the set of requests named.
LEMMA NotificationsTyped ==
  NotificationsTypeOK <=>
    /\ notice \in [Notices -> [user : Recipients \cup {NoRow}, read : BOOLEAN]]
    /\ subject \in [Services -> [Recipients -> 0..MaxSubjects]]
    /\ subjects \in [Recipients -> 0..MaxSubjects]
    /\ connections \in [Recipients -> 0..Cardinality(Tabs)]
    /\ tab \in [Tabs -> 0..MaxSubjects]
    /\ arrived \in [Tabs -> SUBSET Notices]
    /\ notifyReq \in [Clients -> {Idle} \cup Notifyings]
BY DEF NotificationsTypeOK, Notifyings

\* The open tabs of a user are counted by a natural number, which is 0 only without one.
LEMMA OpenTabsCounted ==
  ASSUME NEW u
  PROVE  /\ IsFiniteSet(OpenTabs(u)) /\ Cardinality(OpenTabs(u)) \in 0..Cardinality(Tabs)
         /\ Cardinality(OpenTabs(u)) = 0 <=> OpenTabs(u) = {}
<1>1. OpenTabs(u) \subseteq Tabs /\ IsFiniteSet(Tabs)
  BY NotificationsAssumption DEF OpenTabs
<1>2. IsFiniteSet(OpenTabs(u)) /\ Cardinality(OpenTabs(u)) <= Cardinality(Tabs)
  BY <1>1, FS_Subset
<1>3. Cardinality(OpenTabs(u)) \in Nat /\ Cardinality(Tabs) \in Nat
  BY <1>1, <1>2, FS_CardinalityType
<1>4. Cardinality(OpenTabs(u)) = 0 <=> OpenTabs(u) = {}
  BY <1>2, FS_EmptySet
<1>5. QED
  BY <1>2, <1>3, <1>4

\* No tab is open at the start.
LEMMA NotificationsStart == ASSUME NotificationsInit PROVE NotificationsInv
<1> USE NotificationsAssumption DEF NotificationsInit
<1>1. Cardinality(Tabs) \in Nat
  BY FS_CardinalityType
<1>2. NotificationsTypeOK
  BY <1>1 DEF NotificationsTypeOK, NoNotice
<1>3. \A u \in Recipients : connections[u] = Cardinality(OpenTabs(u))
  <2>1. ASSUME NEW u \in Recipients PROVE OpenTabs(u) = {}
    BY DEF OpenTabs
  <2>2. QED
    BY <2>1, FS_EmptySet
<1>4. \A c \in Clients : notifyReq[c].op # "emit"
  BY DEF Idle
<1>5. QED
  BY <1>2, <1>3, <1>4 DEF NotificationsInv, TabsKeepTheirSubject, NothingIsPushed

\* The steps that concern streams: the tabs, the subjects and their counts stay.
StreamsStay == UNCHANGED <<subject, subjects, connections, tab>>

\* The streams are as before when no tab is opened or closed.
LEMMA StreamsKept ==
  ASSUME NotificationsInv, StreamsStay
  PROVE  /\ TabsKeepTheirSubject'
         /\ \A u \in Recipients : connections'[u] = Cardinality(OpenTabs(u))'
BY DEF NotificationsInv, StreamsStay, OpenTabs, TabsKeepTheirSubject

\* Every step of the notifications keeps the invariant.
LEMMA NotificationsStep ==
  ASSUME NotificationsInv, [NotificationsNext]_notificationVars PROVE NotificationsInv'
<1>0. /\ notice \in [Notices -> [user : Recipients \cup {NoRow}, read : BOOLEAN]]
      /\ subject \in [Services -> [Recipients -> 0..MaxSubjects]]
      /\ subjects \in [Recipients -> 0..MaxSubjects]
      /\ connections \in [Recipients -> 0..Cardinality(Tabs)]
      /\ tab \in [Tabs -> 0..MaxSubjects]
      /\ arrived \in [Tabs -> SUBSET Notices]
      /\ notifyReq \in [Clients -> {Idle} \cup Notifyings]
      /\ \A t \in Tabs : arrived[t] = {}
      /\ \A t \in Tabs : tab[t] # 0 => tab[t] = subject[StreamsAt][TabUser[t]]
      /\ StreamsAt \in Services
      /\ \A u \in Recipients : connections[u] = Cardinality(OpenTabs(u))
      /\ \A c \in Clients : notifyReq[c].op = "emit" => notifyReq[c].row \in Notices
  BY NotificationsTyped DEF NotificationsInv, TabsKeepTheirSubject, NothingIsPushed, Services, StreamsAt
<1>1. CASE UNCHANGED notificationVars
  BY <1>1 DEF notificationVars, NotificationsInv, NotificationsTypeOK, TabsKeepTheirSubject, NothingIsPushed, OpenTabs
<1>2. CASE OpenStream
  <2>1. PICK t \in Tabs :
          LET u == TabUser[t]
              live == subject[StreamsAt][u]
              s == IF live = 0 THEN subjects[u] + 1 ELSE live
          IN /\ tab[t] = 0
             /\ s <= MaxSubjects
             /\ subject' = [subject EXCEPT ![StreamsAt][u] = s]
             /\ subjects' = [subjects EXCEPT ![u] = IF live = 0 THEN @ + 1 ELSE @]
             /\ connections' = [connections EXCEPT ![u] = IF live = 0 THEN 1 ELSE @ + 1]
             /\ tab' = [tab EXCEPT ![t] = s]
    BY <1>2 DEF OpenStream
  <2>2. UNCHANGED <<notice, arrived, notifyReq>>
    BY <1>2 DEF OpenStream
  <2>3. PICK u \in Recipients : u = TabUser[t]
    BY NotificationsAssumption
  <2>4. PICK live, s : live = subject[StreamsAt][u] /\ s = IF live = 0 THEN subjects[u] + 1 ELSE live
    OBVIOUS
  <2>5. /\ tab[t] = 0 /\ s <= MaxSubjects
        /\ subject' = [subject EXCEPT ![StreamsAt][u] = s]
        /\ subjects' = [subjects EXCEPT ![u] = IF live = 0 THEN s ELSE @]
        /\ connections' = [connections EXCEPT ![u] = IF live = 0 THEN 1 ELSE @ + 1]
        /\ tab' = [tab EXCEPT ![t] = s]
    BY <1>0, <2>1, <2>3, <2>4
  <2>6. s \in 0..MaxSubjects /\ s # 0
    BY <1>0, <2>4, <2>5, NotificationsAssumption
  <2>7. /\ subject' \in [Services -> [Recipients -> 0..MaxSubjects]] /\ subjects' \in [Recipients -> 0..MaxSubjects]
        /\ tab' \in [Tabs -> 0..MaxSubjects]
    BY <1>0, <2>5, <2>6
  <2>8. live = 0 => OpenTabs(u) = {}
    <3>1. SUFFICES ASSUME live = 0, NEW q \in OpenTabs(u) PROVE FALSE
      OBVIOUS
    <3>2. q \in Tabs /\ TabUser[q] = u /\ tab[q] # 0
      BY <3>1 DEF OpenTabs
    <3>3. tab[q] = subject[StreamsAt][u]
      BY <1>0, <3>2
    <3>4. QED
      BY <2>4, <3>1, <3>2, <3>3
  <2>9. /\ \A v \in Recipients : v # u => OpenTabs(v)' = OpenTabs(v)
        /\ OpenTabs(u)' = OpenTabs(u) \cup {t} /\ t \notin OpenTabs(u)
    BY <1>0, <2>3, <2>5, <2>6 DEF OpenTabs
  <2>10. Cardinality(OpenTabs(u) \cup {t}) = Cardinality(OpenTabs(u)) + 1
    BY <2>9, OpenTabsCounted, FS_AddElement
  <2>11. connections'[u] = Cardinality(OpenTabs(u)')
    BY <1>0, <2>5, <2>8, <2>9, <2>10, OpenTabsCounted
  <2>12. \A v \in Recipients : v # u => connections'[v] = connections[v]
    BY <1>0, <2>5
  <2>13. \A v \in Recipients : connections'[v] = Cardinality(OpenTabs(v))'
    BY <1>0, <2>9, <2>11, <2>12
  <2>14. connections' \in [Recipients -> 0..Cardinality(Tabs)]
    <3>1. \A v \in Recipients : Cardinality(OpenTabs(v))' \in 0..Cardinality(Tabs)
      <4>1. Cardinality(OpenTabs(u) \cup {t}) \in 0..Cardinality(Tabs)
        <5>1. OpenTabs(u) \cup {t} \subseteq Tabs /\ IsFiniteSet(Tabs)
          BY NotificationsAssumption DEF OpenTabs
        <5>2. IsFiniteSet(OpenTabs(u) \cup {t})
              /\ Cardinality(OpenTabs(u) \cup {t}) <= Cardinality(Tabs)
          BY <5>1, FS_Subset
        <5>3. Cardinality(OpenTabs(u) \cup {t}) \in Nat /\ Cardinality(Tabs) \in Nat
          BY <5>1, <5>2, FS_CardinalityType
        <5>4. QED
          BY <5>2, <5>3
      <4>2. QED
        BY <2>9, <4>1, OpenTabsCounted
    <3>2. QED
      BY <1>0, <2>5, <2>13, <3>1
  <2>15. TabsKeepTheirSubject'
    <3>1. ASSUME NEW q \in Tabs, tab'[q] # 0 PROVE tab'[q] = subject'[StreamsAt][TabUser[q]]
      <4>1. TabUser[q] \in Recipients
        BY NotificationsAssumption
      <4>2. CASE q = t
        BY <1>0, <2>3, <2>5, <4>2
      <4>3. CASE q # t
        <5>1. tab'[q] = tab[q] /\ tab[q] = subject[StreamsAt][TabUser[q]]
          BY <1>0, <2>5, <3>1, <4>3
        <5>2. CASE TabUser[q] = u
          BY <1>0, <2>4, <2>5, <3>1, <4>1, <5>1, <5>2
        <5>3. CASE TabUser[q] # u
          BY <1>0, <2>5, <4>1, <5>1, <5>3
        <5>4. QED
          BY <5>2, <5>3
      <4>4. QED
        BY <4>2, <4>3
    <3>2. QED
      BY <3>1 DEF TabsKeepTheirSubject
  <2>16. NotificationsTypeOK'
    BY <1>0, <2>2, <2>7, <2>14, NotificationsTyped DEF NotificationsTypeOK, NotificationsInv, Notifyings
  <2>17. QED
    BY <1>0, <2>2, <2>13, <2>15, <2>16 DEF NotificationsInv, NothingIsPushed
<1>3. CASE CloseStream
  <2>1. PICK t \in Tabs :
          LET u == TabUser[t]
              left == connections[u] - 1
          IN /\ tab[t] # 0
             /\ tab' = [tab EXCEPT ![t] = 0]
             /\ arrived' = [arrived EXCEPT ![t] = {}]
             /\ IF LastCloses(left)
                THEN /\ subject' = [subject EXCEPT ![StreamsAt][u] = 0]
                     /\ connections' = [connections EXCEPT ![u] = 0]
                ELSE /\ connections' = [connections EXCEPT ![u] = left]
                     /\ UNCHANGED subject
    BY <1>3 DEF CloseStream
  <2>2. UNCHANGED <<notice, subjects, notifyReq>>
    BY <1>3 DEF CloseStream
  <2>3. PICK u \in Recipients : u = TabUser[t]
    BY NotificationsAssumption
  <2>4. PICK left : left = connections[u] - 1
    OBVIOUS
  <2>5. /\ tab[t] # 0 /\ tab' = [tab EXCEPT ![t] = 0] /\ arrived' = [arrived EXCEPT ![t] = {}]
        /\ IF left <= 0
           THEN subject' = [subject EXCEPT ![StreamsAt][u] = 0] /\ connections' = [connections EXCEPT ![u] = 0]
           ELSE connections' = [connections EXCEPT ![u] = left] /\ subject' = subject
    BY <1>0, <2>1, <2>3, <2>4 DEF LastCloses
  <2>6. /\ \A v \in Recipients : v # u => OpenTabs(v)' = OpenTabs(v)
        /\ OpenTabs(u)' = OpenTabs(u) \ {t} /\ t \in OpenTabs(u)
    BY <1>0, <2>3, <2>5 DEF OpenTabs
  <2>7. /\ IsFiniteSet(OpenTabs(u)') /\ Cardinality(OpenTabs(u)') = left
        /\ Cardinality(OpenTabs(u)') \in 0..Cardinality(Tabs)
    <3>1. IsFiniteSet(OpenTabs(u) \ {t}) /\ Cardinality(OpenTabs(u) \ {t}) = Cardinality(OpenTabs(u)) - 1
      BY <2>6, OpenTabsCounted, FS_RemoveElement
    <3>2. Cardinality(OpenTabs(u) \ {t}) \in Nat /\ Cardinality(Tabs) \in Nat
      BY <3>1, FS_CardinalityType, NotificationsAssumption
    <3>3. QED
      BY <1>0, <2>4, <2>6, <3>1, <3>2, OpenTabsCounted
  <2>8. /\ connections'[u] = left /\ \A v \in Recipients : v # u => connections'[v] = connections[v]
        /\ connections' \in [Recipients -> 0..Cardinality(Tabs)]
    BY <1>0, <2>5, <2>7
  <2>9. \A v \in Recipients : connections'[v] = Cardinality(OpenTabs(v))'
    BY <1>0, <2>6, <2>7, <2>8
  <2>10. /\ subject' \in [Services -> [Recipients -> 0..MaxSubjects]] /\ tab' \in [Tabs -> 0..MaxSubjects]
         /\ arrived' \in [Tabs -> SUBSET Notices]
    <3>1. 0 \in 0..MaxSubjects
      BY NotificationsAssumption
    <3>2. subject' \in [Services -> [Recipients -> 0..MaxSubjects]]
      <4>1. subject' = subject \/ subject' = [subject EXCEPT ![StreamsAt][u] = 0]
        BY <2>5
      <4>2. subject[StreamsAt] \in [Recipients -> 0..MaxSubjects]
        BY <1>0
      <4>3. [subject[StreamsAt] EXCEPT ![u] = 0] \in [Recipients -> 0..MaxSubjects]
        BY <3>1, <4>2
      <4>4. [subject EXCEPT ![StreamsAt] = [subject[StreamsAt] EXCEPT ![u] = 0]]
              \in [Services -> [Recipients -> 0..MaxSubjects]]
        BY <1>0, <4>3
      <4>5. QED
        BY <1>0, <4>1, <4>4
    <3>3. tab' \in [Tabs -> 0..MaxSubjects] /\ arrived' \in [Tabs -> SUBSET Notices]
      BY <1>0, <2>5, <3>1
    <3>4. QED
      BY <3>2, <3>3
  <2>11. TabsKeepTheirSubject'
    <3>1. ASSUME NEW q \in Tabs, tab'[q] # 0 PROVE tab'[q] = subject'[StreamsAt][TabUser[q]]
      <4>1. q # t /\ tab[q] # 0 /\ tab'[q] = tab[q] /\ tab[q] = subject[StreamsAt][TabUser[q]]
            /\ TabUser[q] \in Recipients
        BY <1>0, <2>5, <3>1, NotificationsAssumption
      <4>2. CASE TabUser[q] # u \/ ~ (left <= 0)
        BY <1>0, <2>5, <4>1, <4>2
      <4>3. CASE TabUser[q] = u /\ left <= 0
        <5>1. Cardinality(OpenTabs(u)') = 0
          BY <2>7, <4>3
        <5>2. OpenTabs(u)' = {}
          BY <2>7, <5>1, FS_EmptySet
        <5>3. q \in OpenTabs(u)'
          BY <3>1, <4>3 DEF OpenTabs
        <5>4. QED
          BY <5>2, <5>3
      <4>4. QED
        BY <4>2, <4>3
    <3>2. QED
      BY <3>1 DEF TabsKeepTheirSubject
  <2>12. NothingIsPushed'
    BY <1>0, <2>5 DEF NothingIsPushed
  <2>13. NotificationsTypeOK'
    BY <1>0, <2>2, <2>5, <2>8, <2>10, NotificationsTyped DEF NotificationsTypeOK, NotificationsInv, Notifyings
  <2>14. QED
    BY <1>0, <2>2, <2>5, <2>9, <2>11, <2>12, <2>13 DEF NotificationsInv
<1>4. CASE MarkRead
  <2>1. PICK some :
          notice' = [n \in Notices |->
            IF n \in some /\ notice[n].user # NoRow THEN [notice[n] EXCEPT !.read = TRUE] ELSE notice[n]]
    BY <1>4 DEF MarkRead
  <2>2. UNCHANGED <<subject, subjects, connections, tab, arrived, notifyReq>>
    BY <1>4 DEF MarkRead
  <2>3. ASSUME NEW n \in Notices
        PROVE  notice'[n] \in [user : Recipients \cup {NoRow}, read : BOOLEAN]
               /\ notice'[n].user = notice[n].user
    <3>1. PICK r \in [user : Recipients \cup {NoRow}, read : BOOLEAN] : r = notice[n]
      BY <1>0
    <3>2. notice'[n] = IF n \in some /\ r.user # NoRow THEN [r EXCEPT !.read = TRUE] ELSE r
      BY <2>1, <3>1
    <3>3. QED
      BY <3>1, <3>2
  <2>4. notice' = [n \in Notices |-> notice'[n]]
    BY <2>1
  <2>5. notice' \in [Notices -> [user : Recipients \cup {NoRow}, read : BOOLEAN]]
    BY <2>3, <2>4
  <2>6. NotificationsTypeOK'
    BY <1>0, <2>2, <2>5, NotificationsTyped DEF NotificationsTypeOK, NotificationsInv, Notifyings
  <2>7. QED
    BY <1>0, <2>2, <2>3, <2>6, StreamsKept DEF NotificationsInv, NothingIsPushed, StreamsStay
<1>5. ASSUME NEW c \in Clients, ReadRecipients(c) \/ FailNotice(c) \/ EndNotify(c)
      PROVE  NotificationsInv'
  <2>1. PICK r \in {Idle} \cup Notifyings :
          notifyReq' = [notifyReq EXCEPT ![c] = r] /\ r.op # "emit"
    <3>1. CASE ReadRecipients(c)
      <4>1. PICK users \in SUBSET Recipients :
              notifyReq' = [notifyReq EXCEPT ![c] =
                [op |-> "insert", row |-> NoRow, users |-> users, failed |-> {}]]
        BY <3>1 DEF ReadRecipients
      <4>2. PICK r : r = [op |-> "insert", row |-> NoRow, users |-> users, failed |-> {}]
        OBVIOUS
      <4>3. r \in Notifyings /\ r.op # "emit"
        BY <4>2 DEF Notifyings
      <4>4. QED
        BY <4>1, <4>2, <4>3
    <3>2. CASE FailNotice(c)
      <4>1. PICK q : q = notifyReq[c]
        OBVIOUS
      <4>2. PICK u \in q.users :
              notifyReq' = [notifyReq EXCEPT ![c].users = @ \ {u}, ![c].failed = @ \cup {u}]
        BY <3>2, <4>1 DEF FailNotice
      <4>3. q \in Notifyings /\ q.op = "insert"
        BY <1>0, <3>2, <4>1 DEF FailNotice, Idle
      <4>4. PICK r : r = [q EXCEPT !.users = @ \ {u}, !.failed = @ \cup {u}]
        OBVIOUS
      <4>5. r \in Notifyings /\ r.op = "insert"
        BY <4>2, <4>3, <4>4 DEF Notifyings
      <4>6. notifyReq' = [notifyReq EXCEPT ![c] = r]
        BY <1>0, <4>1, <4>2, <4>4
      <4>7. QED
        BY <4>5, <4>6
    <3>3. CASE EndNotify(c)
      <4>1. Idle.op # "emit"
        BY DEF Idle
      <4>2. QED
        BY <3>3, <4>1 DEF EndNotify
    <3>4. QED
      BY <1>5, <3>1, <3>2, <3>3
  <2>2. UNCHANGED <<notice, subject, subjects, connections, tab, arrived>>
    BY <1>5 DEF ReadRecipients, FailNotice, EndNotify
  <2>3. notifyReq' \in [Clients -> {Idle} \cup Notifyings]
    BY <1>0, <2>1
  <2>4. \A d \in Clients : notifyReq'[d].op = "emit" => notifyReq'[d].row \in Notices
    BY <1>0, <2>1
  <2>5. NotificationsTypeOK'
    BY <1>0, <2>2, <2>3, NotificationsTyped DEF NotificationsTypeOK, NotificationsInv, Notifyings
  <2>6. QED
    BY <1>0, <2>2, <2>4, <2>5, StreamsKept DEF NotificationsInv, NothingIsPushed, StreamsStay
<1>6. ASSUME NEW c \in Clients, InsertNotice(c) PROVE NotificationsInv'
  <2>1. PICK q : q = notifyReq[c]
    OBVIOUS
  <2>2. q \in Notifyings
    BY <1>0, <1>6, <2>1 DEF InsertNotice, Idle
  <2>3. PICK u \in q.users :
          \E n \in Notices :
            /\ notice[n] = NoNotice
            /\ notice' = [notice EXCEPT ![n] = [user |-> u, read |-> FALSE]]
            /\ notifyReq' = [notifyReq EXCEPT ![c].op = "emit", ![c].row = n]
    BY <1>6, <2>1 DEF InsertNotice
  <2>4. PICK n \in Notices :
            /\ notice[n] = NoNotice
            /\ notice' = [notice EXCEPT ![n] = [user |-> u, read |-> FALSE]]
            /\ notifyReq' = [notifyReq EXCEPT ![c].op = "emit", ![c].row = n]
    BY <2>3
  <2>5. UNCHANGED <<subject, subjects, connections, tab, arrived>>
    BY <1>6 DEF InsertNotice
  <2>6. PICK r : r = [q EXCEPT !.op = "emit", !.row = n]
    OBVIOUS
  <2>7. r \in Notifyings /\ r.row = n
    BY <2>2, <2>6 DEF Notifyings
  <2>8. notifyReq' = [notifyReq EXCEPT ![c] = r]
    BY <1>0, <2>1, <2>4, <2>6
  <2>9. notifyReq' \in [Clients -> {Idle} \cup Notifyings]
    BY <1>0, <2>7, <2>8
  <2>10. \A d \in Clients : notifyReq'[d].op = "emit" => notifyReq'[d].row \in Notices
    BY <1>0, <2>7, <2>8
  <2>11. u \in Recipients
    BY <2>2, <2>3 DEF Notifyings
  <2>12. notice' \in [Notices -> [user : Recipients \cup {NoRow}, read : BOOLEAN]]
    BY <1>0, <2>4, <2>11
  <2>13. NotificationsTypeOK'
    BY <1>0, <2>5, <2>9, <2>12, NotificationsTyped DEF NotificationsTypeOK, NotificationsInv, Notifyings
  <2>14. QED
    BY <1>0, <2>5, <2>10, <2>13, StreamsKept DEF NotificationsInv, NothingIsPushed, StreamsStay
<1>7. ASSUME NEW c \in Clients, EmitNotice(c) PROVE NotificationsInv'
  <2>1. PICK q : q = notifyReq[c]
    OBVIOUS
  <2>2. PICK n : n = q.row
    OBVIOUS
  <2>3. PICK u : u = notice[n].user
    OBVIOUS
  <2>4. Listeners(EmitsAt, u) = {}
    BY DEF Listeners, EmitsAt, StreamsAt
  <2>5. PICK left : left = q.users \ {u}
    OBVIOUS
  <2>6. /\ arrived' = [t \in Tabs |-> IF t \in Listeners(EmitsAt, u) THEN arrived[t] \cup {n} ELSE arrived[t]]
        /\ notifyReq' = [notifyReq EXCEPT ![c] =
             IF left = {} THEN Idle ELSE [@ EXCEPT !.op = "insert", !.row = NoRow, !.users = left]]
    BY <1>7, <2>1, <2>2, <2>3, <2>5 DEF EmitNotice
  <2>7. UNCHANGED <<notice, subject, subjects, connections, tab>> /\ q.op = "emit"
    BY <1>7, <2>1 DEF EmitNotice
  <2>8. q \in Notifyings
    BY <1>0, <2>1, <2>7 DEF Idle
  <2>9. /\ NothingIsPushed' /\ arrived' \in [Tabs -> SUBSET Notices]
    BY <1>0, <2>4, <2>6 DEF NothingIsPushed
  <2>10. PICK r : r = IF left = {} THEN Idle ELSE [q EXCEPT !.op = "insert", !.row = NoRow, !.users = left]
    OBVIOUS
  <2>11. r \in {Idle} \cup Notifyings /\ r.op # "emit"
    BY <2>5, <2>8, <2>10 DEF Notifyings, Idle
  <2>12. notifyReq' = [notifyReq EXCEPT ![c] = r]
    BY <1>0, <2>1, <2>6, <2>10
  <2>13. notifyReq' \in [Clients -> {Idle} \cup Notifyings]
    BY <1>0, <2>11, <2>12
  <2>14. \A d \in Clients : notifyReq'[d].op = "emit" => notifyReq'[d].row \in Notices
    BY <1>0, <2>11, <2>12
  <2>15. NotificationsTypeOK'
    BY <1>0, <2>7, <2>9, <2>13, NotificationsTyped DEF NotificationsTypeOK, NotificationsInv, Notifyings
  <2>16. QED
    BY <1>0, <2>7, <2>9, <2>14, <2>15, StreamsKept DEF NotificationsInv, StreamsStay
<1>8. QED
  BY <1>1, <1>2, <1>3, <1>4, <1>5, <1>6, <1>7 DEF NotificationsNext

(*************************************************************************)
(* The rate limit.                                                       *)
(* A tick that a window to come can hold has counted the calls it let    *)
(* through.                                                              *)
(*************************************************************************)

\* The scores of the window that ends at a tick.
WindowOf(end) == {t \in Times : t <= end /\ t + Window > end}

\* No call has a time to come; and while every call let through was counted at its own
\* time, a score that a window to come can hold has no fewer members than calls that were
\* let through.
ThrottleInv ==
  /\ ThrottleTypeOK
  /\ \A c \in Clients : throttleReq[c].op = "count" => throttleReq[c].row <= now
  /\ ~unbounded =>
       /\ \A t \in Times : t > now => admitted[t] = 0
       /\ \A t \in Times : t + Window > now => admitted[t] <= hits[t]
       /\ \A end \in Times : SumFunctionOnSet(admitted, WindowOf(end)) <= HitLimit

\* The ticks of the model are finitely many.
LEMMA TimesFinite == IsFiniteSet(Times) /\ Times \subseteq Nat
<1>1. 0 \in Int /\ MaxTime \in Int
  BY ThrottleAssumption
<1>2. QED
  BY <1>1, FS_Interval DEF Times

\* A window holds ticks.
LEMMA WindowFinite ==
  ASSUME NEW end
  PROVE  WindowOf(end) \subseteq Times /\ IsFiniteSet(WindowOf(end))
BY TimesFinite, FS_Subset DEF WindowOf

\* A caller that has not called is within the limit.
LEMMA ThrottleStart == ThrottleInit => ThrottleInv
<1> SUFFICES ASSUME ThrottleInit PROVE ThrottleInv
  OBVIOUS
<1>1. \A t \in Times : admitted[t] = 0 /\ hits[t] = 0
  BY DEF ThrottleInit
<1>2. ThrottleTypeOK
  <2>1. 0 \in Times /\ 0 \in 0..MaxHits
    BY ThrottleAssumption DEF Times
  <2>2. QED
    BY <2>1 DEF ThrottleInit, ThrottleTypeOK
<1>3. \A c \in Clients : throttleReq[c].op # "count"
  BY DEF ThrottleInit, Idle
<1>4. ASSUME NEW end \in Times
      PROVE  SumFunctionOnSet(admitted, WindowOf(end)) <= HitLimit
  <2>1. \A t \in WindowOf(end) : admitted[t] \in 0..0
    BY <1>1, WindowFinite
  <2>2. /\ SumFunctionOnSet(admitted, WindowOf(end)) <= 0 * Cardinality(WindowOf(end))
        /\ SumFunctionOnSet(admitted, WindowOf(end)) \in Nat
    BY <2>1, WindowFinite, SumAtMost
  <2>4. Cardinality(WindowOf(end)) \in Nat /\ HitLimit \in Nat
    BY WindowFinite, FS_CardinalityType, ThrottleAssumption
  <2>5. QED
    BY <2>2, <2>4
<1>5. QED
  BY <1>1, <1>2, <1>3, <1>4, TimesFinite DEF ThrottleInv

\* Every step of the rate limit keeps the invariant: what a window to come can hold was
\* counted by its sorted set.
LEMMA ThrottleStep == ASSUME ThrottleInv, [ThrottleNext]_throttleVars PROVE ThrottleInv'
<1> DEFINE Requesting == {Idle} \cup [op : {"count"}, row : Times]
<1>0. /\ now \in Times /\ hits \in [Times -> 0..MaxHits] /\ admitted \in [Times -> Nat]
      /\ throttleReq \in [Clients -> Requesting] /\ unbounded \in BOOLEAN
  BY DEF ThrottleInv, ThrottleTypeOK
<1>1. CASE UNCHANGED throttleVars
  BY <1>1 DEF throttleVars, ThrottleInv, ThrottleTypeOK, WindowOf
<1>2. CASE Tick
  <2>1. now' = now + 1 /\ now < MaxTime /\ UNCHANGED <<hits, admitted, throttleReq, unbounded>>
    BY <1>2 DEF Tick
  <2>2. now' \in Times /\ now \in Nat
    BY <1>0, <2>1, ThrottleAssumption DEF Times
  <2>3. ThrottleTypeOK'
    BY <1>0, <2>1, <2>2 DEF ThrottleTypeOK
  <2>4. \A c \in Clients : throttleReq'[c].op = "count" => throttleReq'[c].row <= now'
    <3>1. SUFFICES ASSUME NEW c \in Clients, throttleReq[c].op = "count"
                   PROVE  throttleReq[c].row <= now'
      BY <2>1
    <3>2. PICK r : r = throttleReq[c]
      OBVIOUS
    <3>3. r \in Requesting /\ r.op = "count" /\ r.row <= now
      BY <1>0, <3>1, <3>2 DEF ThrottleInv
    <3>4. r.row \in Times
      BY <3>3 DEF Idle
    <3>5. r.row \in Nat
      BY <3>4, TimesFinite
    <3>6. QED
      BY <2>1, <2>2, <3>2, <3>3, <3>5
  <2>5. ASSUME ~ unbounded', NEW t \in Times
        PROVE  (t > now' => admitted'[t] = 0) /\ (t + Window > now' => admitted'[t] <= hits'[t])
    <3>1. t \in Nat /\ Window \in Nat
      BY TimesFinite, ThrottleAssumption
    <3>2. (t > now => admitted[t] = 0) /\ (t + Window > now => admitted[t] <= hits[t])
      BY <2>1, <2>5 DEF ThrottleInv
    <3>3. QED
      BY <2>1, <2>2, <3>1, <3>2
  <2>6. ~ unbounded' => \A end \in Times : SumFunctionOnSet(admitted', WindowOf(end)') <= HitLimit
    BY <2>1 DEF ThrottleInv, WindowOf
  <2>7. QED
    BY <2>3, <2>4, <2>5, <2>6 DEF ThrottleInv
<1>3. ASSUME NEW c \in Clients, TakeTime(c) \/ FailOpen(c) PROVE ThrottleInv'
  <2>1. PICK r \in Requesting :
          throttleReq' = [throttleReq EXCEPT ![c] = r] /\ (r.op = "count" => r.row <= now)
    <3>1. now \in Nat
      BY <1>0, TimesFinite
    <3>2. CASE TakeTime(c)
      <4>1. PICK r : r = [op |-> "count", row |-> now]
        OBVIOUS
      <4>2. r \in Requesting /\ r.row <= now
        BY <1>0, <3>1, <4>1
      <4>3. QED
        BY <3>2, <4>1, <4>2 DEF TakeTime
    <3>3. CASE FailOpen(c)
      <4>1. Idle \in Requesting /\ Idle.op # "count"
        BY DEF Idle
      <4>2. QED
        BY <3>3, <4>1 DEF FailOpen
    <3>4. QED
      BY <1>3, <3>2, <3>3
  <2>2. UNCHANGED <<now, hits, admitted>> /\ (unbounded' = unbounded \/ unbounded' = TRUE)
    BY <1>3 DEF TakeTime, FailOpen
  <2>3. throttleReq' \in [Clients -> Requesting]
    BY <1>0, <2>1
  <2>4. \A d \in Clients : throttleReq'[d].op = "count" => throttleReq'[d].row <= now
    BY <1>0, <2>1 DEF ThrottleInv
  <2>5. ThrottleTypeOK'
    BY <1>0, <2>2, <2>3 DEF ThrottleTypeOK
  <2>6. QED
    BY <2>2, <2>4, <2>5 DEF ThrottleInv, WindowOf
<1>4. ASSUME NEW c \in Clients, CountHit(c) PROVE ThrottleInv'
  <2>1. PICK at : at = throttleReq[c].row
    OBVIOUS
  <2>2. PICK kept : kept = [t \in Times |->
           IF Outside(t, at) THEN 0 ELSE IF t = at THEN hits[t] + 1 ELSE hits[t]]
    OBVIOUS
  <2>3. PICK pass \in BOOLEAN : pass <=> SumFunctionOnSet(kept, Times) <= HitLimit
    <3>1. CASE SumFunctionOnSet(kept, Times) <= HitLimit
      BY <3>1, Zenon
    <3>2. CASE ~ (SumFunctionOnSet(kept, Times) <= HitLimit)
      BY <3>2, Zenon
    <3>3. QED
      BY <3>1, <3>2
  <2>4. /\ throttleReq[c].op = "count" /\ hits[at] < MaxHits /\ hits' = kept
        /\ admitted' = IF pass THEN [admitted EXCEPT ![at] = @ + 1] ELSE admitted
        /\ unbounded' = (unbounded \/ (pass /\ at # now))
        /\ throttleReq' = [throttleReq EXCEPT ![c] = Idle]
        /\ now' = now
    BY <1>4, <2>1, <2>2, <2>3 DEF CountHit
  <2>5. at \in Times /\ at <= now
    <3>1. PICK r : r = throttleReq[c]
      OBVIOUS
    <3>2. r \in Requesting /\ r.op = "count"
      BY <1>0, <2>4, <3>1
    <3>3. r.row \in Times
      BY <3>2 DEF Idle
    <3>4. QED
      BY <2>1, <2>4, <3>1, <3>3 DEF ThrottleInv
  <2>6. /\ at \in Nat /\ now \in Nat /\ Window \in Nat /\ Window # 0
        /\ MaxHits \in Nat /\ HitLimit \in Nat /\ \A t \in Times : t \in Nat /\ hits[t] \in Nat
    <3>1. at \in Nat /\ now \in Nat /\ \A t \in Times : t \in Nat
      BY <1>0, <2>5, TimesFinite
    <3>2. \A t \in Times : hits[t] \in Nat
      BY <1>0
    <3>3. QED
      BY <3>1, <3>2, ThrottleAssumption
  <2>7. \A t \in Times :
          kept[t] = IF Outside(t, at) THEN 0 ELSE IF t = at THEN hits[t] + 1 ELSE hits[t]
    BY <2>2
  <2>8. kept \in [Times -> 0..MaxHits] /\ \A t \in Times : kept[t] \in Nat
    <3>1. \A t \in Times : kept[t] \in 0..MaxHits
      BY <1>0, <2>4, <2>6, <2>7
    <3>2. QED
      BY <2>2, <3>1
  <2>9. admitted' \in [Times -> Nat]
    <3>1. admitted[at] + 1 \in Nat
      BY <1>0, <2>5
    <3>2. QED
      BY <1>0, <2>4, <2>5, <3>1
  <2>10. ThrottleTypeOK' /\ \A d \in Clients : throttleReq'[d].op = "count" => throttleReq'[d].row <= now'
    <3>1. throttleReq' \in [Clients -> Requesting]
      BY <1>0, <2>4
    <3>2. unbounded' \in BOOLEAN
      BY <1>0, <2>3, <2>4
    <3>3. \A d \in Clients : throttleReq'[d].op = "count" => throttleReq'[d].row <= now'
      BY <1>0, <2>4 DEF ThrottleInv, Idle
    <3>4. QED
      BY <1>0, <2>4, <2>8, <2>9, <3>1, <3>2, <3>3 DEF ThrottleTypeOK
  <2>11. SUFFICES ASSUME ~ unbounded'
                  PROVE  /\ \A t \in Times : t > now => admitted'[t] = 0
                         /\ \A t \in Times : t + Window > now => admitted'[t] <= kept[t]
                         /\ \A end \in Times : SumFunctionOnSet(admitted', WindowOf(end)) <= HitLimit
    BY <2>4, <2>10 DEF ThrottleInv, WindowOf
  <2>12. /\ ~ unbounded /\ (pass => at = now)
         /\ \A t \in Times : t > now => admitted[t] = 0
         /\ \A t \in Times : t + Window > now => admitted[t] <= hits[t]
         /\ \A end \in Times : SumFunctionOnSet(admitted, WindowOf(end)) <= HitLimit
    BY <2>3, <2>4, <2>11 DEF ThrottleInv
  <2>13. \A t \in Times : admitted[t] \in Nat /\ admitted'[t] \in Nat
           /\ admitted'[t] = IF pass /\ t = at THEN admitted[t] + 1 ELSE admitted[t]
    BY <1>0, <2>3, <2>4, <2>9
  <2>14. \A t \in Times : t + Window > now => ~ Outside(t, at)
    BY <2>5, <2>6 DEF Outside
  <2>15. \A t \in Times : t > now => admitted'[t] = 0
    BY <2>5, <2>6, <2>12, <2>13
  <2>16. \A t \in Times : t + Window > now => admitted'[t] <= kept[t]
    BY <2>6, <2>7, <2>12, <2>13, <2>14
  <2>17. ASSUME NEW end \in Times PROVE SumFunctionOnSet(admitted', WindowOf(end)) <= HitLimit
    <3>1. PICK A : A = WindowOf(end)
      OBVIOUS
    <3>2. A \subseteq Times /\ IsFiniteSet(A)
      BY <3>1, WindowFinite
    <3>3. \A t \in A : admitted'[t] \in Nat /\ admitted[t] \in Nat
      BY <2>13, <3>2
    <3>4. CASE pass /\ at \in A
      <4>1. \A t \in A : t + Window > now
        BY <2>6, <2>12, <3>1, <3>4 DEF WindowOf
      <4>2. \A t \in A : admitted'[t] <= kept[t]
        BY <2>16, <3>2, <4>1
      <4>3. SumFunctionOnSet(admitted', A) <= SumFunctionOnSet(kept, Times)
        BY <2>8, <3>2, <3>3, <4>2, TimesFinite, SumMonotone
      <4>4. /\ SumFunctionOnSet(admitted', A) \in Nat /\ SumFunctionOnSet(kept, Times) \in Nat
        BY <2>8, <3>2, <3>3, TimesFinite, SumNat
      <4>5. SumFunctionOnSet(kept, Times) <= HitLimit
        BY <2>3, <3>4
      <4>6. QED
        BY <2>6, <3>1, <4>3, <4>4, <4>5
    <3>5. CASE ~ (pass /\ at \in A)
      <4>1. \A t \in A : admitted[t] \in Int /\ admitted'[t] = admitted[t]
        BY <2>13, <3>2, <3>3, <3>5
      <4>2. SumFunctionOnSet(admitted', A) = SumFunctionOnSet(admitted, A)
        BY <3>2, <4>1, SumSame
      <4>3. QED
        BY <2>12, <3>1, <4>2
    <3>6. QED
      BY <3>4, <3>5
  <2>18. QED
    BY <2>15, <2>16, <2>17
<1>5. QED
  BY <1>1, <1>2, <1>3, <1>4 DEF ThrottleNext

(*************************************************************************)
(* The permissions in the tokens.                                        *)
(* A list that still lets the user in was read no longer ago than the time it *)
(* has lain in Redis and in a token, and been under way.                 *)
(*************************************************************************)

\* Entries of Redis and tokens, and requests that are under way.
ListEntries(ttl) == [permissions : TokenPermissions, left : 0..ttl, late : 0..MaxLate]

CallRecords ==
  [op : {"store", "sign", "handle"}, row : {NoRow}, permissions : TokenPermissions,
   late : 0..MaxLate, denied : 0..DeniedBound]

\* How long the user can have been denied what an entry, a token or a request still grants.
ListFresh(e) == e.left > 0 /\ Lets(e.permissions) => deniedFor <= CacheTtl - e.left + e.late
TokenFresh(e) ==
  e.left > 0 /\ Lets(e.permissions) => deniedFor <= (AccessTtl - e.left) + (CacheTtl - 1) + e.late
CallFresh(r) ==
  /\ r.op = "store" /\ Lets(r.permissions) => deniedFor <= r.late
  /\ r.op = "sign" /\ Lets(r.permissions) => deniedFor <= CacheTtl - 1 + r.late
  /\ r.op = "handle" => r.denied < AccessTtl + CacheTtl + r.late

\* The invariant.
GatewayInv ==
  /\ userPermissions \in TokenPermissions
  /\ deniedFor \in 0..DeniedBound
  /\ Lets(userPermissions) => deniedFor = 0
  /\ listing \in ListEntries(CacheTtl) /\ ListFresh(listing)
  /\ accessToken \in [Clients -> ListEntries(AccessTtl)]
  /\ calls \in [Clients -> {Idle} \cup CallRecords]
  /\ \A c \in Clients : TokenFresh(accessToken[c]) /\ CallFresh(calls[c])

\* A request that does not run has no operation of the others.
LEMMA CallKinds ==
  /\ Idle.op = "idle"
  /\ \A r \in {Idle} \cup CallRecords :
       (r # Idle <=> r \in CallRecords) /\ (r # Idle <=> r.op \in {"store", "sign", "handle"})
BY DEF Idle, CallRecords

\* The bounds are numbers.
LEMMA GatewayNumbers ==
  /\ AccessTtl \in Nat /\ AccessTtl >= 1 /\ CacheTtl \in Nat /\ CacheTtl >= 1
  /\ MaxLate \in Nat /\ DeniedBound \in Nat /\ {} \in TokenPermissions
BY GatewayAssumption DEF DeniedBound

\* What was fresh stays so when the time of denial does not grow.
LEMMA StaysFresh ==
  ASSUME deniedFor \in Nat, deniedFor' \in Nat, deniedFor' <= deniedFor
  PROVE  /\ \A e \in ListEntries(CacheTtl) : ListFresh(e) => ListFresh(e)'
         /\ \A e \in ListEntries(AccessTtl) : TokenFresh(e) => TokenFresh(e)'
         /\ \A r \in {Idle} \cup CallRecords : CallFresh(r) => CallFresh(r)'
<1>1. ASSUME NEW e \in ListEntries(CacheTtl), ListFresh(e) PROVE ListFresh(e)'
  <2>1. e.left \in Int /\ e.late \in Int
    BY DEF ListEntries
  <2>2. QED
    BY <1>1, <2>1, GatewayNumbers DEF ListFresh
<1>2. ASSUME NEW e \in ListEntries(AccessTtl), TokenFresh(e) PROVE TokenFresh(e)'
  <2>1. e.left \in Int /\ e.late \in Int
    BY DEF ListEntries
  <2>2. QED
    BY <1>2, <2>1, GatewayNumbers DEF TokenFresh
<1>3. ASSUME NEW r \in {Idle} \cup CallRecords, CallFresh(r) PROVE CallFresh(r)'
  <2>1. CASE r = Idle
    BY <2>1, CallKinds DEF CallFresh
  <2>2. CASE r \in CallRecords
    <3>1. r.late \in Int
      BY <2>2 DEF CallRecords
    <3>2. QED
      BY <1>3, <3>1, GatewayNumbers DEF CallFresh
  <2>3. QED
    BY <2>1, <2>2
<1>4. QED
  BY <1>1, <1>2, <1>3

\* At the start nobody holds a list.
LEMMA GatewayStart == ASSUME GatewayInit PROVE GatewayInv
<1>1. userPermissions \in TokenPermissions /\ (Lets(userPermissions) => deniedFor = 0)
  BY GatewayNumbers DEF GatewayInit
<1>2. deniedFor \in 0..DeniedBound
  BY GatewayNumbers DEF GatewayInit
<1>3. /\ Unlisted \in ListEntries(CacheTtl) /\ Unlisted \in ListEntries(AccessTtl)
      /\ Unlisted.left = 0
  BY GatewayNumbers DEF Unlisted, Listed, ListEntries
<1>4. ListFresh(Unlisted) /\ TokenFresh(Unlisted) /\ CallFresh(Idle)
  BY <1>3, CallKinds DEF ListFresh, TokenFresh, CallFresh
<1>5. /\ listing = Unlisted /\ accessToken = [c \in Clients |-> Unlisted]
      /\ calls = [c \in Clients |-> Idle]
  BY DEF GatewayInit
<1>6. /\ accessToken \in [Clients -> ListEntries(AccessTtl)]
      /\ calls \in [Clients -> {Idle} \cup CallRecords]
  BY <1>3, <1>5
<1>7. \A c \in Clients : TokenFresh(accessToken[c]) /\ CallFresh(calls[c])
  BY <1>4, <1>5
<1>8. QED
  BY <1>1, <1>2, <1>3, <1>4, <1>5, <1>6, <1>7 DEF GatewayInv

\* Every step of the gateway keeps the invariant.
LEMMA GatewayStep == ASSUME GatewayInv, [GatewayNext]_gatewayVars PROVE GatewayInv'
<1>0. /\ userPermissions \in TokenPermissions
      /\ deniedFor \in 0..DeniedBound /\ deniedFor \in Nat
      /\ Lets(userPermissions) => deniedFor = 0
      /\ listing \in ListEntries(CacheTtl) /\ ListFresh(listing)
      /\ accessToken \in [Clients -> ListEntries(AccessTtl)]
      /\ calls \in [Clients -> {Idle} \cup CallRecords]
      /\ \A d \in Clients : TokenFresh(accessToken[d]) /\ CallFresh(calls[d])
  BY GatewayNumbers DEF GatewayInv
<1>1. CASE UNCHANGED gatewayVars
  BY <1>1 DEF gatewayVars, GatewayInv, ListFresh, TokenFresh, CallFresh
<1>2. CASE ChangeRoles
  <2>1. /\ userPermissions' \in TokenPermissions
        /\ deniedFor' = IF Lets(userPermissions') THEN 0 ELSE deniedFor
        /\ UNCHANGED <<listing, accessToken, calls>>
    BY <1>2 DEF ChangeRoles
  <2>2. /\ deniedFor' \in 0..DeniedBound /\ deniedFor' \in Nat
        /\ deniedFor' = 0 \/ deniedFor' = deniedFor
        /\ Lets(userPermissions') => deniedFor' = 0
    BY <1>0, <2>1, GatewayNumbers
  <2>3. deniedFor' <= deniedFor
    BY <1>0, <2>2
  <2>4. ListFresh(listing)'
    BY <1>0, <2>1, <2>2, <2>3, StaysFresh DEF ListFresh
  <2>5. \A d \in Clients : (TokenFresh(accessToken[d]) /\ CallFresh(calls[d]))'
    BY <1>0, <2>1, <2>2, <2>3, StaysFresh DEF TokenFresh, CallFresh
  <2>6. QED
    BY <1>0, <2>1, <2>2, <2>4, <2>5 DEF GatewayInv
<1>3. CASE ForgetListing
  <2>1. listing' = Unlisted /\ UNCHANGED <<userPermissions, deniedFor, accessToken, calls>>
    BY <1>3 DEF ForgetListing
  <2>2. listing' \in ListEntries(CacheTtl) /\ listing'.left = 0
    BY <2>1, GatewayNumbers DEF Unlisted, Listed, ListEntries
  <2>3. ListFresh(listing)'
    BY <2>2 DEF ListFresh
  <2>4. \A d \in Clients : (TokenFresh(accessToken[d]) /\ CallFresh(calls[d]))'
    BY <1>0, <2>1 DEF TokenFresh, CallFresh
  <2>5. QED
    BY <1>0, <2>1, <2>2, <2>3, <2>4 DEF GatewayInv
<1>4. CASE PassTime
  <2>1. /\ \A d \in Clients : Issuing(calls[d]) => calls[d].late < MaxLate
        /\ deniedFor' = IF Lets(userPermissions) \/ deniedFor = DeniedBound THEN deniedFor
                        ELSE deniedFor + 1
        /\ listing' = IF listing.left > 1 THEN [listing EXCEPT !.left = @ - 1] ELSE Unlisted
        /\ accessToken' = [d \in Clients |->
             IF accessToken[d].left > 0 THEN [accessToken[d] EXCEPT !.left = @ - 1] ELSE accessToken[d]]
        /\ calls' = [d \in Clients |->
             IF Issuing(calls[d]) THEN [calls[d] EXCEPT !.late = @ + 1] ELSE calls[d]]
        /\ UNCHANGED userPermissions
    BY <1>4 DEF PassTime
  <2>2. deniedFor' \in 0..DeniedBound /\ deniedFor' \in Nat /\ deniedFor' <= deniedFor + 1
    BY <1>0, <2>1, GatewayNumbers
  <2>3. Lets(userPermissions) => deniedFor' = 0
    BY <1>0, <2>1
  <2>4. listing' \in ListEntries(CacheTtl) /\ ListFresh(listing)'
    <3>1. PICK e \in ListEntries(CacheTtl) : e = listing /\ e.left \in 0..CacheTtl /\ e.late \in 0..MaxLate
      BY <1>0 DEF ListEntries
    <3>2. CASE e.left > 1
      <4>1. PICK k : k = e.left - 1
        OBVIOUS
      <4>2. PICK n : n = [e EXCEPT !.left = k]
        OBVIOUS
      <4>3. k \in 0..CacheTtl
        BY <3>1, <3>2, <4>1, GatewayNumbers
      <4>4. n \in ListEntries(CacheTtl) /\ n.left = k /\ n.late = e.late /\ n.permissions = e.permissions
        BY <3>1, <4>2, <4>3 DEF ListEntries
      <4>5. listing' = n
        BY <2>1, <3>1, <3>2, <4>1, <4>2
      <4>6. Lets(e.permissions) => deniedFor <= CacheTtl - e.left + e.late
        <5>1. e.left > 0
          BY <3>1, <3>2
        <5>2. QED
          BY <1>0, <3>1, <5>1 DEF ListFresh
      <4>7. Lets(e.permissions) => deniedFor' <= CacheTtl - k + e.late
        BY <1>0, <2>2, <3>1, <4>1, <4>6, GatewayNumbers
      <4>8. QED
        BY <4>4, <4>5, <4>7 DEF ListFresh
    <3>3. CASE ~ (e.left > 1)
      <4>1. listing' = Unlisted
        BY <2>1, <3>1, <3>3
      <4>2. listing' \in ListEntries(CacheTtl) /\ listing'.left = 0
        BY <4>1, GatewayNumbers DEF Unlisted, Listed, ListEntries
      <4>3. QED
        BY <4>2 DEF ListFresh
    <3>4. QED
      BY <3>2, <3>3
  <2>5. ASSUME NEW d \in Clients
        PROVE  accessToken'[d] \in ListEntries(AccessTtl) /\ TokenFresh(accessToken[d])'
    <3>1. PICK e \in ListEntries(AccessTtl) : e = accessToken[d] /\ e.left \in 0..AccessTtl /\ e.late \in 0..MaxLate
      BY <1>0 DEF ListEntries
    <3>2. CASE e.left > 0
      <4>1. PICK k : k = e.left - 1
        OBVIOUS
      <4>2. PICK n : n = [e EXCEPT !.left = k]
        OBVIOUS
      <4>3. k \in 0..AccessTtl
        BY <3>1, <3>2, <4>1, GatewayNumbers
      <4>4. n \in ListEntries(AccessTtl) /\ n.left = k /\ n.late = e.late /\ n.permissions = e.permissions
        BY <3>1, <4>2, <4>3 DEF ListEntries
      <4>5. accessToken'[d] = n
        BY <2>1, <3>1, <3>2, <4>1, <4>2
      <4>6. Lets(e.permissions) => deniedFor <= (AccessTtl - e.left) + (CacheTtl - 1) + e.late
        BY <1>0, <3>1, <3>2 DEF TokenFresh
      <4>7. Lets(e.permissions) => deniedFor' <= (AccessTtl - k) + (CacheTtl - 1) + e.late
        BY <1>0, <2>2, <3>1, <4>1, <4>6, GatewayNumbers
      <4>8. QED
        BY <4>4, <4>5, <4>7 DEF TokenFresh
    <3>3. CASE ~ (e.left > 0)
      <4>1. accessToken'[d] = e
        BY <2>1, <3>1, <3>3
      <4>2. QED
        BY <3>3, <4>1 DEF TokenFresh
    <3>4. QED
      BY <3>2, <3>3
  <2>6. ASSUME NEW d \in Clients
        PROVE  calls'[d] \in {Idle} \cup CallRecords /\ CallFresh(calls[d])'
    <3>1. PICK r \in {Idle} \cup CallRecords : r = calls[d]
      BY <1>0
    <3>2. CASE Issuing(r)
      <4>1. r \in CallRecords /\ r.late \in 0..MaxLate /\ r.late < MaxLate /\ r.op \in {"store", "sign"}
        BY <2>1, <3>1, <3>2, CallKinds DEF Issuing, CallRecords
      <4>2. PICK k : k = r.late + 1
        OBVIOUS
      <4>3. PICK n : n = [r EXCEPT !.late = k]
        OBVIOUS
      <4>4. k \in 0..MaxLate
        BY <4>1, <4>2, GatewayNumbers
      <4>5. n \in CallRecords /\ n.op = r.op /\ n.late = k /\ n.permissions = r.permissions
        BY <4>1, <4>3, <4>4 DEF CallRecords
      <4>6. calls'[d] = n
        BY <2>1, <3>1, <3>2, <4>2, <4>3
      <4>7. /\ r.op = "store" /\ Lets(r.permissions) => deniedFor <= r.late
            /\ r.op = "sign" /\ Lets(r.permissions) => deniedFor <= CacheTtl - 1 + r.late
        BY <1>0, <3>1 DEF CallFresh
      <4>8. /\ r.op = "store" /\ Lets(r.permissions) => deniedFor' <= k
            /\ r.op = "sign" /\ Lets(r.permissions) => deniedFor' <= CacheTtl - 1 + k
        BY <1>0, <2>2, <4>1, <4>2, <4>7, GatewayNumbers
      <4>9. QED
        BY <4>1, <4>5, <4>6, <4>8 DEF CallFresh
    <3>3. CASE ~ Issuing(r)
      <4>1. calls'[d] = r
        BY <2>1, <3>1, <3>3
      <4>2. r.op \notin {"store", "sign"}
        BY <3>3 DEF Issuing
      <4>3. QED
        BY <1>0, <3>1, <4>1, <4>2 DEF CallFresh
    <3>4. QED
      BY <3>2, <3>3
  <2>7. accessToken' \in [Clients -> ListEntries(AccessTtl)]
    BY <2>1, <2>5
  <2>8. calls' \in [Clients -> {Idle} \cup CallRecords]
    BY <2>1, <2>6
  <2>9. QED
    BY <1>0, <2>1, <2>2, <2>3, <2>4, <2>5, <2>6, <2>7, <2>8 DEF GatewayInv
<1>5. ASSUME NEW c \in Clients, ReadListing(c) PROVE GatewayInv'
  <2>1. PICK n \in CallRecords : calls' = [calls EXCEPT ![c] = n] /\ CallFresh(n)
    <3>1. CASE listing.left > 0 /\ calls' = [calls EXCEPT ![c] = Call("sign", listing.permissions, listing.late)]
      <4>1. PICK e \in ListEntries(CacheTtl) :
              e = listing /\ e.left \in 0..CacheTtl /\ e.late \in 0..MaxLate /\ e.permissions \in TokenPermissions
        BY <1>0 DEF ListEntries
      <4>2. PICK n : n = Call("sign", e.permissions, e.late)
        OBVIOUS
      <4>3. n \in CallRecords /\ n.op = "sign" /\ n.permissions = e.permissions /\ n.late = e.late
        BY <4>1, <4>2, GatewayNumbers DEF Call, CallRecords
      <4>4. Lets(e.permissions) => deniedFor <= CacheTtl - e.left + e.late
        BY <1>0, <3>1, <4>1 DEF ListFresh
      <4>5. Lets(e.permissions) => deniedFor <= CacheTtl - 1 + e.late
        BY <1>0, <3>1, <4>1, <4>4, GatewayNumbers
      <4>6. CallFresh(n)
        BY <4>3, <4>5 DEF CallFresh
      <4>7. QED
        BY <3>1, <4>1, <4>2, <4>3, <4>6
    <3>2. CASE calls' = [calls EXCEPT ![c] = Call("store", userPermissions, 0)]
      <4>1. PICK n : n = Call("store", userPermissions, 0)
        OBVIOUS
      <4>2. n \in CallRecords /\ n.op = "store" /\ n.permissions = userPermissions /\ n.late = 0
        BY <1>0, <4>1, GatewayNumbers DEF Call, CallRecords
      <4>3. CallFresh(n)
        BY <1>0, <4>2 DEF CallFresh
      <4>4. QED
        BY <3>2, <4>1, <4>2, <4>3
    <3>3. QED
      BY <1>5, <3>1, <3>2 DEF ReadListing
  <2>2. UNCHANGED <<userPermissions, deniedFor, listing, accessToken>>
    BY <1>5 DEF ReadListing
  <2>3. \A d \in Clients : calls'[d] = IF d = c THEN n ELSE calls[d]
    BY <1>0, <2>1
  <2>4. calls' \in [Clients -> {Idle} \cup CallRecords]
    BY <1>0, <2>1
  <2>5. \A d \in Clients : (TokenFresh(accessToken[d]) /\ CallFresh(calls[d]))'
    BY <1>0, <2>1, <2>2, <2>3 DEF TokenFresh, CallFresh
  <2>6. ListFresh(listing)'
    BY <1>0, <2>2 DEF ListFresh
  <2>7. QED
    BY <1>0, <2>2, <2>4, <2>5, <2>6 DEF GatewayInv
<1>6. ASSUME NEW c \in Clients, StoreListing(c) PROVE GatewayInv'
  <2>1. PICK r \in CallRecords :
          /\ r = calls[c] /\ r.op = "store" /\ r.late \in 0..MaxLate
          /\ r.permissions \in TokenPermissions
    BY <1>0, <1>6, CallKinds DEF StoreListing, CallRecords
  <2>2. PICK e : e = Listed(r.permissions, CacheTtl, r.late)
    OBVIOUS
  <2>3. PICK n : n = Call("sign", r.permissions, r.late)
    OBVIOUS
  <2>4. /\ listing' \in {e, listing} /\ calls' = [calls EXCEPT ![c] = n]
        /\ UNCHANGED <<userPermissions, deniedFor, accessToken>>
    BY <1>6, <2>1, <2>2, <2>3 DEF StoreListing
  <2>5. Lets(r.permissions) => deniedFor <= r.late
    BY <1>0, <2>1 DEF CallFresh
  <2>6. /\ e \in ListEntries(CacheTtl) /\ e.left = CacheTtl /\ e.late = r.late
        /\ e.permissions = r.permissions
    BY <2>1, <2>2, GatewayNumbers DEF Listed, ListEntries
  <2>7. Lets(e.permissions) => deniedFor <= CacheTtl - e.left + e.late
    BY <1>0, <2>1, <2>5, <2>6, GatewayNumbers
  <2>8. listing' \in ListEntries(CacheTtl) /\ ListFresh(listing)'
    BY <1>0, <2>4, <2>6, <2>7 DEF ListFresh
  <2>9. n \in CallRecords /\ n.op = "sign" /\ n.permissions = r.permissions /\ n.late = r.late
    BY <2>1, <2>3, GatewayNumbers DEF Call, CallRecords
  <2>10. Lets(n.permissions) => deniedFor <= CacheTtl - 1 + n.late
    BY <1>0, <2>1, <2>5, <2>9, GatewayNumbers
  <2>11. \A d \in Clients : calls'[d] = IF d = c THEN n ELSE calls[d]
    BY <1>0, <2>4
  <2>12. calls' \in [Clients -> {Idle} \cup CallRecords]
    BY <1>0, <2>4, <2>9
  <2>13. \A d \in Clients : (TokenFresh(accessToken[d]) /\ CallFresh(calls[d]))'
    BY <1>0, <2>4, <2>9, <2>10, <2>11 DEF TokenFresh, CallFresh
  <2>14. QED
    BY <1>0, <2>4, <2>8, <2>12, <2>13 DEF GatewayInv
<1>7. ASSUME NEW c \in Clients, SignToken(c) PROVE GatewayInv'
  <2>1. PICK r \in CallRecords :
          /\ r = calls[c] /\ r.op = "sign" /\ r.late \in 0..MaxLate
          /\ r.permissions \in TokenPermissions
    BY <1>0, <1>7, CallKinds DEF SignToken, CallRecords
  <2>2. PICK e : e = Listed(r.permissions, AccessTtl, r.late)
    OBVIOUS
  <2>3. /\ accessToken' = [accessToken EXCEPT ![c] = e] /\ calls' = [calls EXCEPT ![c] = Idle]
        /\ UNCHANGED <<userPermissions, deniedFor, listing>>
    BY <1>7, <2>1, <2>2 DEF SignToken
  <2>4. /\ e \in ListEntries(AccessTtl) /\ e.left = AccessTtl /\ e.late = r.late
        /\ e.permissions = r.permissions
    BY <2>1, <2>2, GatewayNumbers DEF Listed, ListEntries
  <2>5. Lets(r.permissions) => deniedFor <= CacheTtl - 1 + r.late
    BY <1>0, <2>1 DEF CallFresh
  <2>6. Lets(e.permissions) => deniedFor <= (AccessTtl - e.left) + (CacheTtl - 1) + e.late
    BY <1>0, <2>1, <2>4, <2>5, GatewayNumbers
  <2>7. /\ \A d \in Clients : accessToken'[d] = IF d = c THEN e ELSE accessToken[d]
        /\ accessToken' \in [Clients -> ListEntries(AccessTtl)]
    BY <1>0, <2>3, <2>4
  <2>8. /\ \A d \in Clients : calls'[d] = IF d = c THEN Idle ELSE calls[d]
        /\ calls' \in [Clients -> {Idle} \cup CallRecords]
    BY <1>0, <2>3
  <2>9. \A d \in Clients : TokenFresh(accessToken[d])'
    BY <1>0, <2>3, <2>6, <2>7 DEF TokenFresh
  <2>10. \A d \in Clients : CallFresh(calls[d])'
    BY <1>0, <2>3, <2>8, CallKinds DEF CallFresh
  <2>11. ListFresh(listing)'
    BY <1>0, <2>3 DEF ListFresh
  <2>12. QED
    BY <1>0, <2>3, <2>7, <2>8, <2>9, <2>10, <2>11 DEF GatewayInv
<1>8. ASSUME NEW c \in Clients, BeginCall(c) PROVE GatewayInv'
  <2>1. PICK e \in ListEntries(AccessTtl) :
          /\ e = accessToken[c] /\ e.left \in 0..AccessTtl /\ e.late \in 0..MaxLate
          /\ e.left > 0 /\ Lets(e.permissions)
    BY <1>0, <1>8 DEF BeginCall, Verified, ListEntries
  <2>2. PICK n : n = [Call("handle", {}, e.late) EXCEPT !.denied = deniedFor]
    OBVIOUS
  <2>3. calls' = [calls EXCEPT ![c] = n] /\ UNCHANGED <<userPermissions, deniedFor, listing, accessToken>>
    BY <1>8, <2>1, <2>2 DEF BeginCall
  <2>4. n \in CallRecords /\ n.op = "handle" /\ n.late = e.late /\ n.denied = deniedFor
    BY <1>0, <2>1, <2>2, GatewayNumbers DEF Call, CallRecords
  <2>5. deniedFor <= (AccessTtl - e.left) + (CacheTtl - 1) + e.late
    BY <1>0, <2>1 DEF TokenFresh
  <2>6. n.denied < AccessTtl + CacheTtl + n.late
    BY <1>0, <2>1, <2>4, <2>5, GatewayNumbers
  <2>7. /\ \A d \in Clients : calls'[d] = IF d = c THEN n ELSE calls[d]
        /\ calls' \in [Clients -> {Idle} \cup CallRecords]
    BY <1>0, <2>3, <2>4
  <2>8. \A d \in Clients : (TokenFresh(accessToken[d]) /\ CallFresh(calls[d]))'
    BY <1>0, <2>3, <2>4, <2>6, <2>7 DEF TokenFresh, CallFresh
  <2>9. ListFresh(listing)'
    BY <1>0, <2>3 DEF ListFresh
  <2>10. QED
    BY <1>0, <2>3, <2>7, <2>8, <2>9 DEF GatewayInv
<1>9. ASSUME NEW c \in Clients, EndCall(c) PROVE GatewayInv'
  <2>1. /\ calls' = [calls EXCEPT ![c] = Idle]
        /\ UNCHANGED <<userPermissions, deniedFor, listing, accessToken>>
    BY <1>9 DEF EndCall
  <2>2. /\ \A d \in Clients : calls'[d] = IF d = c THEN Idle ELSE calls[d]
        /\ calls' \in [Clients -> {Idle} \cup CallRecords]
    BY <1>0, <2>1
  <2>3. \A d \in Clients : (TokenFresh(accessToken[d]) /\ CallFresh(calls[d]))'
    BY <1>0, <2>1, <2>2, CallKinds DEF TokenFresh, CallFresh
  <2>4. ListFresh(listing)'
    BY <1>0, <2>1 DEF ListFresh
  <2>5. QED
    BY <1>0, <2>1, <2>2, <2>3, <2>4 DEF GatewayInv
<1>10. QED
  BY <1>1, <1>2, <1>3, <1>4, <1>5, <1>6, <1>7, <1>8, <1>9 DEF GatewayNext

\* The types follow, and so does the property.
LEMMA GatewayTyped == ASSUME GatewayInv PROVE GatewayTypeOK /\ ServedWithinTtl
<1>1. listing.left \in 0..CacheTtl /\ listing.late \in 0..MaxLate
  BY DEF GatewayInv, ListEntries
<1>2. \A c \in Clients : accessToken[c].left \in 0..AccessTtl /\ accessToken[c].late \in 0..MaxLate
  BY DEF GatewayInv, ListEntries
<1>3. ASSUME NEW c \in Clients, calls[c] # Idle
      PROVE  /\ calls[c].op \in {"store", "sign", "handle"}
             /\ calls[c].late \in 0..MaxLate
             /\ calls[c].denied \in 0..DeniedBound
  <2>1. PICK r \in CallRecords : r = calls[c]
    BY <1>3 DEF GatewayInv
  <2>2. QED
    BY <2>1 DEF CallRecords
<1>4. GatewayTypeOK
  BY <1>1, <1>2, <1>3 DEF GatewayInv, GatewayTypeOK
<1>5. ServedWithinTtl
  BY DEF GatewayInv, CallFresh, ServedWithinTtl
<1>6. QED
  BY <1>4, <1>5

(*************************************************************************)
(* The scripts that set up.                                              *)
(* A seeding that has ended has granted every permission it knows.       *)
(*************************************************************************)

\* The modules whose permissions are seeded.
ModuleNames ==
  {"system", "auth", "orders", "procurement", "manufacturing", "inventory", "finance", "hr",
   "payroll", "board", "compliance", "reports", "notifications"}

\* The members of a sequence.
Members(s) == {s[k] : k \in DOMAIN s}

ScriptSteps == {"none", "insertUser", "giveRole", "insertRows", "grant", "grantWildcard"}

\* A seeding has inserted or will insert every row, and then grants every one that is there:
\* one that has ended has granted all it knows.
SetupInv ==
  /\ rows \subseteq ModuleNames \cup {"*"} /\ granted \subseteq rows
  /\ role \in BOOLEAN /\ admin \in {"none", "user", "admin"} /\ seeded \in BOOLEAN
  /\ script \in [step : ScriptSteps, left : Seq(ModuleNames \cup {"*"})]
  /\ script.step = "insertRows" =>
       Members(script.left) \subseteq ModuleNames /\ ModuleNames \subseteq rows \cup Members(script.left)
  /\ script.step \in {"grant", "grantWildcard"} => Members(script.left) \subseteq rows
  /\ script.step = "grant" => ModuleNames \subseteq granted \cup Members(script.left)
  /\ seeded => ModuleNames \subseteq granted

\* The list the seeding goes through has every module.
LEMMA SeedsAll ==
  /\ SeedModules \in Seq(ModuleNames) /\ Members(SeedModules) = ModuleNames
  /\ SeedModules \o <<>> = SeedModules
  /\ SeedModules \o <<"*">> \in Seq(ModuleNames \cup {"*"})
  /\ Members(SeedModules \o <<"*">>) = ModuleNames \cup {"*"}
  /\ SeedModules \in Seq(ModuleNames \cup {"*"})
<1>1. SeedModules \in Seq(ModuleNames) /\ Len(SeedModules) = 13 /\ DOMAIN SeedModules = 1..13
  BY DEF SeedModules, ModuleNames
<1>2. \A k \in 1..13 : SeedModules[k] \in ModuleNames
  <2>1. PICK T : T = ModuleNames
    OBVIOUS
  <2>2. PICK s \in Seq(T) : s = SeedModules
    BY <1>1, <2>1
  <2>3. \A k \in DOMAIN s : s[k] \in T
    OBVIOUS
  <2>4. QED
    BY <1>1, <2>1, <2>2, <2>3
<1>3. ASSUME NEW m \in ModuleNames PROVE \E k \in 1..13 : SeedModules[k] = m
  <2>1. /\ SeedModules[1] = "system" /\ SeedModules[2] = "auth" /\ SeedModules[3] = "orders"
        /\ SeedModules[4] = "procurement" /\ SeedModules[5] = "manufacturing" /\ SeedModules[6] = "inventory"
        /\ SeedModules[7] = "finance" /\ SeedModules[8] = "hr" /\ SeedModules[9] = "payroll"
        /\ SeedModules[10] = "board" /\ SeedModules[11] = "compliance" /\ SeedModules[12] = "reports"
        /\ SeedModules[13] = "notifications"
    BY DEF SeedModules
  <2>2. QED
    BY <2>1 DEF ModuleNames
<1>4. Members(SeedModules) = ModuleNames
  BY <1>1, <1>2, <1>3 DEF Members
<1>5. PICK T : T = ModuleNames
  OBVIOUS
<1>6. PICK s \in Seq(T) : s = SeedModules
  BY <1>1, <1>5
<1>7. s \o <<>> = s /\ s \in Seq(T \cup {"*"}) /\ s \o <<"*">> \in Seq(T \cup {"*"})
  BY ONLY <1>6
<1>8. /\ DOMAIN (s \o <<"*">>) = 1..14 /\ (s \o <<"*">>)[14] = "*" /\ \A k \in 1..13 : (s \o <<"*">>)[k] = s[k]
  <2>1. Len(s) = 13
    BY <1>1, <1>6
  <2>2. /\ DOMAIN (s \o <<"*">>) = 1..(Len(s) + 1) /\ (s \o <<"*">>)[Len(s) + 1] = "*"
        /\ \A k \in 1..Len(s) : (s \o <<"*">>)[k] = s[k]
    BY ONLY <1>6
  <2>3. QED
    BY <2>1, <2>2
<1>9. Members(s \o <<"*">>) = T \cup {"*"}
  <2>1. \A k \in 1..14 : k = 14 \/ k \in 1..13
    OBVIOUS
  <2>2. \A k \in 1..13 : k \in 1..14
    OBVIOUS
  <2>3. Members(s \o <<"*">>) \subseteq T \cup {"*"}
    <3>1. ASSUME NEW k \in 1..14 PROVE (s \o <<"*">>)[k] \in T \cup {"*"}
      <4>1. CASE k = 14
        BY <1>8, <4>1
      <4>2. CASE k \in 1..13
        BY <1>2, <1>5, <1>6, <1>8, <4>2
      <4>3. QED
        BY <2>1, <4>1, <4>2
    <3>2. ASSUME NEW m \in Members(s \o <<"*">>) PROVE m \in T \cup {"*"}
      <4>1. PICK k \in DOMAIN (s \o <<"*">>) : m = (s \o <<"*">>)[k]
        BY Zenon, <3>2 DEF Members
      <4>2. QED
        BY ONLY <1>8, <3>1, <4>1
    <3>3. QED
      BY ONLY <3>2
  <2>4. T \cup {"*"} \subseteq Members(s \o <<"*">>)
    <3>1. ASSUME NEW m \in T PROVE m \in Members(s \o <<"*">>)
      <4>1. PICK k \in 1..13 : s[k] = m
        BY <1>3, <1>5, <1>6, <3>1
      <4>2. QED
        BY <1>8, <2>2, <4>1 DEF Members
    <3>2. "*" \in Members(s \o <<"*">>)
      <4>1. 14 \in 1..14
        OBVIOUS
      <4>2. QED
        BY <1>8, <4>1 DEF Members
    <3>3. QED
      BY <3>1, <3>2
  <2>5. QED
    BY <2>3, <2>4
<1>10. QED
  BY <1>1, <1>4, <1>5, <1>6, <1>7, <1>9

\* The first and the others are all members there are.
LEMMA HeadAndTail ==
  ASSUME NEW T, NEW s \in Seq(T), s # <<>>
  PROVE  Head(s) \in T /\ Tail(s) \in Seq(T) /\ Members(s) = {Head(s)} \cup Members(Tail(s))
<1>1. PICK n \in Nat : n = Len(s) /\ n # 0
  OBVIOUS
<1>2. /\ Head(s) = s[1] /\ DOMAIN s = 1..n /\ DOMAIN Tail(s) = 1..(n - 1)
      /\ \A k \in 1..(n - 1) : Tail(s)[k] = s[k + 1]
  BY <1>1
<1>3. Head(s) \in T /\ Tail(s) \in Seq(T)
  OBVIOUS
<1>4. ASSUME NEW k \in 1..n PROVE s[k] \in {Head(s)} \cup Members(Tail(s))
  <2>1. CASE k = 1
    BY <1>2, <2>1
  <2>2. CASE k # 1
    <3>1. k - 1 \in 1..(n - 1) /\ (k - 1) + 1 = k
      BY <2>2
    <3>2. Tail(s)[k - 1] = s[k]
      BY <1>2, <3>1
    <3>3. QED
      BY <1>2, <3>1, <3>2 DEF Members
  <2>3. QED
    BY <2>1, <2>2
<1>5. ASSUME NEW k \in 1..(n - 1) PROVE Tail(s)[k] \in Members(s)
  <2>1. k + 1 \in 1..n
    BY <1>1
  <2>2. QED
    BY <1>2, <2>1 DEF Members
<1>6. Head(s) \in Members(s)
  <2>1. 1 \in 1..n
    BY <1>1
  <2>2. QED
    BY <1>2, <2>1 DEF Members
<1>7. Members(s) \subseteq {Head(s)} \cup Members(Tail(s))
  BY <1>2, <1>4 DEF Members
<1>8. Members(Tail(s)) \subseteq Members(s)
  BY <1>2, <1>5 DEF Members
<1>9. QED
  BY <1>3, <1>6, <1>7, <1>8

\* A sequence that is empty has no members.
LEMMA NoMembers == Members(<<>>) = {} /\ \A T : <<>> \in Seq(T)
<1>1. DOMAIN <<>> = {}
  OBVIOUS
<1>2. QED
  BY <1>1 DEF Members

\* A script at a step.
LEMMA ScriptIs ==
  ASSUME NEW step, NEW left
  PROVE  Script(step, left).step = step /\ Script(step, left).left = left /\ NoScript = Script("none", <<>>)
BY DEF Script, NoScript

\* The database is empty at the start.
LEMMA SetupStart == ASSUME SetupInit PROVE SetupInv
<1>1. rows = {} /\ granted = {} /\ role = FALSE /\ admin = "none" /\ script = NoScript /\ seeded = FALSE
  BY DEF SetupInit
<1>2. PICK Q : Q = Seq(ModuleNames \cup {"*"})
  OBVIOUS
<1>3. <<>> \in Q
  BY <1>2, NoMembers
<1>4. script \in [step : ScriptSteps, left : Q] /\ script.step = "none"
  BY <1>1, <1>3 DEF NoScript, ScriptSteps
<1>5. QED
  BY <1>1, <1>2, <1>4 DEF SetupInv

\* A script that ends or one of the steps about the administrator writes no permission.
LEMMA SetupSame ==
  ASSUME SetupInv, UNCHANGED <<rows, granted, seeded>>, role' \in BOOLEAN, admin' \in {"none", "user", "admin"},
         NEW step \in {"none", "insertUser", "giveRole"}, script' = Script(step, <<>>)
  PROVE  SetupInv'
<1>1. script'.step = step /\ script'.step \notin {"insertRows", "grant", "grantWildcard"}
  BY ScriptIs
<1>2. PICK Q : Q = Seq(ModuleNames \cup {"*"})
  OBVIOUS
<1>3. <<>> \in Q /\ step \in ScriptSteps
  BY <1>2, NoMembers DEF ScriptSteps
<1>4. script' \in [step : ScriptSteps, left : Q]
  BY <1>3 DEF Script
<1>5. QED
  BY <1>1, <1>2, <1>4 DEF SetupInv

\* Every step of the scripts keeps the invariant.
LEMMA SetupStep == ASSUME SetupInv, [SetupNext]_setupVars PROVE SetupInv'
<1>0. /\ rows \subseteq ModuleNames \cup {"*"} /\ granted \subseteq rows
      /\ role \in BOOLEAN /\ admin \in {"none", "user", "admin"} /\ seeded \in BOOLEAN
      /\ script \in [step : ScriptSteps, left : Seq(ModuleNames \cup {"*"})]
  BY DEF SetupInv
<1>1. PICK L \in Seq(ModuleNames \cup {"*"}) : L = script.left
  BY <1>0
<1>2. PICK Q : Q = Seq(ModuleNames \cup {"*"})
  OBVIOUS
<1>3. NoScript = Script("none", <<>>)
  BY ScriptIs
<1>4. CASE UNCHANGED setupVars
  BY <1>4 DEF setupVars, SetupInv
<1>5. CASE StartCreateUser
  BY <1>0, <1>5, SetupSame DEF StartCreateUser
<1>6. CASE InsertUser
  BY <1>0, <1>6, SetupSame DEF InsertUser
<1>7. CASE StartAssignRole
  <2>1. CASE admin = "admin"
    BY <1>0, <1>3, <1>7, <2>1, SetupSame DEF StartAssignRole
  <2>2. CASE admin # "admin"
    BY <1>0, <1>7, <2>2, SetupSame DEF StartAssignRole
  <2>3. QED
    BY <2>1, <2>2
<1>8. CASE GiveRole
  BY <1>0, <1>3, <1>8, SetupSame DEF GiveRole
<1>9. CASE CrashScript
  BY <1>0, <1>3, <1>9, SetupSame DEF CrashScript
<1>10. CASE StartSeed
  <2>1. script' = Script("insertRows", SeedModules) /\ UNCHANGED <<rows, granted, role, admin, seeded>>
    BY <1>10 DEF StartSeed
  <2>2. script'.step = "insertRows" /\ script'.left = SeedModules
    BY <2>1, ScriptIs
  <2>3. script' \in [step : ScriptSteps, left : Q]
    <3>1. SeedModules \in Q
      BY <1>2, SeedsAll
    <3>2. QED
      BY <2>1, <3>1 DEF Script, ScriptSteps
  <2>4. QED
    BY <1>2, <2>1, <2>2, <2>3, SeedsAll DEF SetupInv
<1>11. CASE SeedRows
  <2>1. /\ script.step = "insertRows" /\ L # <<>> /\ rows' = rows \cup {Head(L)}
        /\ script' = Script("insertRows", Tail(L)) /\ UNCHANGED <<granted, role, admin, seeded>>
    BY <1>1, <1>11 DEF SeedRows
  <2>2. Members(L) \subseteq ModuleNames /\ ModuleNames \subseteq rows \cup Members(L)
    BY <1>1, <2>1 DEF SetupInv
  <2>3. Tail(L) \in Q /\ Members(L) = {Head(L)} \cup Members(Tail(L))
    BY <1>1, <1>2, <2>1, HeadAndTail
  <2>4. script'.step = "insertRows" /\ script'.left = Tail(L)
    BY <2>1, ScriptIs
  <2>5. script' \in [step : ScriptSteps, left : Q]
    BY <2>1, <2>3 DEF Script, ScriptSteps
  <2>6. QED
    BY <1>0, <1>2, <2>1, <2>2, <2>3, <2>4, <2>5 DEF SetupInv
<1>12. CASE ReadRows
  <2>1. script.step = "insertRows" /\ L = <<>> /\ UNCHANGED <<rows, granted, role, admin, seeded>>
    BY <1>1, <1>12 DEF ReadRows
  <2>2. ModuleNames \subseteq rows
    BY <1>1, <2>1, NoMembers DEF SetupInv
  <2>3. CASE ~ role
    BY <1>0, <1>3, <1>12, <2>1, <2>3, SetupSame DEF ReadRows
  <2>4. CASE role
    <3>1. PICK S : S = SeedModules \o (IF "*" \in rows THEN <<"*">> ELSE <<>>)
      OBVIOUS
    <3>2. script' = Script("grant", S)
      BY <1>12, <2>4, <3>1 DEF ReadRows
    <3>3. S \in Q /\ Members(S) \subseteq rows /\ ModuleNames \subseteq Members(S)
      <4>1. CASE "*" \in rows
        BY <1>2, <2>2, <3>1, <4>1, SeedsAll
      <4>2. CASE "*" \notin rows
        BY <1>2, <2>2, <3>1, <4>2, SeedsAll
      <4>3. QED
        BY <4>1, <4>2
    <3>4. script'.step = "grant" /\ script'.left = S
      BY <3>2, ScriptIs
    <3>5. script' \in [step : ScriptSteps, left : Q]
      BY <3>2, <3>3 DEF Script, ScriptSteps
    <3>6. QED
      BY <1>0, <1>2, <2>1, <3>3, <3>4, <3>5 DEF SetupInv
  <2>5. QED
    BY <2>3, <2>4
<1>13. CASE GrantRows
  <2>1. /\ script.step \in {"grant", "grantWildcard"} /\ L # <<>> /\ granted' = granted \cup {Head(L)}
        /\ script' = Script(script.step, Tail(L)) /\ UNCHANGED <<rows, role, admin, seeded>>
    BY <1>1, <1>13 DEF GrantRows
  <2>2. Members(L) \subseteq rows /\ (script.step = "grant" => ModuleNames \subseteq granted \cup Members(L))
    BY <1>1, <2>1 DEF SetupInv
  <2>3. Tail(L) \in Q /\ Members(L) = {Head(L)} \cup Members(Tail(L))
    BY <1>1, <1>2, <2>1, HeadAndTail
  <2>4. script'.step = script.step /\ script'.left = Tail(L)
    BY <2>1, ScriptIs
  <2>5. script' \in [step : ScriptSteps, left : Q]
    BY <1>0, <2>1, <2>3 DEF Script
  <2>6. seeded => ModuleNames \subseteq granted
    BY DEF SetupInv
  <2>7. QED
    BY <1>0, <1>2, <2>1, <2>2, <2>3, <2>4, <2>5, <2>6 DEF SetupInv
<1>14. CASE EndScript
  <2>1. /\ script.step \in {"grant", "grantWildcard"} /\ L = <<>> /\ script' = NoScript
        /\ seeded' = (seeded \/ script.step = "grant") /\ UNCHANGED <<rows, granted, role, admin>>
    BY <1>1, <1>14 DEF EndScript
  <2>2. script.step = "grant" => ModuleNames \subseteq granted
    BY <1>1, <2>1, NoMembers DEF SetupInv
  <2>3. seeded => ModuleNames \subseteq granted
    BY DEF SetupInv
  <2>4. PICK b \in BOOLEAN : b = (seeded \/ script.step = "grant")
    BY <1>0
  <2>5. seeded' \in BOOLEAN /\ (seeded' => ModuleNames \subseteq granted')
    BY <1>0, <2>1, <2>2, <2>3, <2>4
  <2>6. script'.step = "none"
    BY <1>3, <2>1, ScriptIs
  <2>7. script' \in [step : ScriptSteps, left : Q]
    <3>1. <<>> \in Q
      BY <1>2, NoMembers
    <3>2. QED
      BY <2>1, <3>1 DEF NoScript, ScriptSteps
  <2>8. QED
    BY <1>0, <1>2, <2>1, <2>5, <2>6, <2>7 DEF SetupInv
<1>15. CASE AddWildcard
  <2>1. rows' = rows \cup {"*"} /\ UNCHANGED <<granted, role, admin, seeded>>
    BY <1>15 DEF AddWildcard
  <2>2. /\ rows' \subseteq ModuleNames \cup {"*"} /\ granted' \subseteq rows'
        /\ seeded' => ModuleNames \subseteq granted'
    BY <1>0, <2>1 DEF SetupInv
  <2>3. CASE role
    <3>1. script' = Script("grantWildcard", <<"*">>)
      BY <1>15, <2>3 DEF AddWildcard
    <3>2. <<"*">> \in Q /\ Members(<<"*">>) = {"*"}
      <4>1. DOMAIN <<"*">> = {1}
        OBVIOUS
      <4>2. QED
        BY <1>2, <4>1 DEF Members
    <3>3. script'.step = "grantWildcard" /\ script'.left = <<"*">>
      BY <3>1, ScriptIs
    <3>4. script' \in [step : ScriptSteps, left : Q]
      BY <3>1, <3>2 DEF Script, ScriptSteps
    <3>5. QED
      BY <1>0, <1>2, <2>1, <2>2, <3>2, <3>3, <3>4 DEF SetupInv
  <2>4. CASE ~ role
    <3>1. script' = NoScript
      BY <1>15, <2>4 DEF AddWildcard
    <3>2. script'.step = "none"
      BY <1>3, <3>1, ScriptIs
    <3>3. script' \in [step : ScriptSteps, left : Q]
      <4>1. <<>> \in Q
        BY <1>2, NoMembers
      <4>2. QED
        BY <3>1, <4>1 DEF NoScript, ScriptSteps
    <3>4. QED
      BY <1>0, <1>2, <2>1, <2>2, <3>2, <3>3 DEF SetupInv
  <2>5. QED
    BY <2>3, <2>4
<1>16. QED
  BY <1>4, <1>5, <1>6, <1>7, <1>8, <1>9, <1>10, <1>11, <1>12, <1>13, <1>14, <1>15 DEF SetupNext

\* The types follow.
LEMMA SetupTyped == ASSUME SetupInv PROVE SetupTypeOK
<1>1. DOMAIN PERMISSIONS = ModuleNames
  BY DEF PERMISSIONS, ModuleNames
<1>2. QED
  BY <1>1 DEF SetupInv, SetupTypeOK, ScriptSteps

(***************************************************************************)
(* The parts together.                                                     *)
(***************************************************************************)

\* The invariants of all parts.
PlatformInv ==
  /\ desk \in Desks
  /\ LeaveInv
  /\ ProvidentInv
  /\ GratuityInv
  /\ EmployeesInv
  /\ AttendanceInv
  /\ LockoutInv
  /\ SessionsInv
  /\ AccessInv
  /\ JobsInv
  /\ DeadLettersInv
  /\ NotificationsInv
  /\ ThrottleInv
  /\ GatewayInv
  /\ SetupInv

\* A step of the platform is a step of each part, or leaves it alone.
PartSteps ==
  /\ desk' = desk
  /\ [LeaveNext]_leaveVars
  /\ [ProvidentNext]_pfVars
  /\ [GratuityNext]_gratuityVars
  /\ [EmployeesNext]_employeeVars
  /\ [AttendanceNext]_attendanceVars
  /\ [LockoutNext]_lockoutVars
  /\ [SessionsNext]_sessionVars
  /\ [AccessNext]_accessVars
  /\ [JobsNext]_jobVars
  /\ [DeadLettersNext]_deadLetterVars
  /\ [NotificationsNext]_notificationVars
  /\ [ThrottleNext]_throttleVars
  /\ [GatewayNext]_gatewayVars
  /\ [SetupNext]_setupVars

\* Only one part moves.
LEMMA OnePartMoves == ASSUME [PlatformNext]_platformVars PROVE PartSteps
<1>1. CASE UNCHANGED platformVars
  BY <1>1 DEF platformVars, PartSteps
<1>2. CASE Only("leave") /\ LeaveNext
  BY ONLY <1>2 DEF Only, PartSteps
<1>3. CASE Only("provident") /\ ProvidentNext
  BY ONLY <1>3 DEF Only, PartSteps
<1>4. CASE Only("gratuity") /\ GratuityNext
  BY ONLY <1>4 DEF Only, PartSteps
<1>5. CASE Only("employees") /\ EmployeesNext
  BY ONLY <1>5 DEF Only, PartSteps
<1>6. CASE Only("attendance") /\ AttendanceNext
  BY ONLY <1>6 DEF Only, PartSteps
<1>7. CASE Only("lockout") /\ LockoutNext
  BY ONLY <1>7 DEF Only, PartSteps
<1>8. CASE Only("sessions") /\ SessionsNext
  BY ONLY <1>8 DEF Only, PartSteps
<1>9. CASE Only("access") /\ AccessNext
  BY ONLY <1>9 DEF Only, PartSteps
<1>10. CASE Only("jobs") /\ JobsNext
  BY ONLY <1>10 DEF Only, PartSteps
<1>11. CASE Only("deadLetters") /\ DeadLettersNext
  BY ONLY <1>11 DEF Only, PartSteps
<1>12. CASE Only("notifications") /\ NotificationsNext
  BY ONLY <1>12 DEF Only, PartSteps
<1>13. CASE Only("throttle") /\ ThrottleNext
  BY ONLY <1>13 DEF Only, PartSteps
<1>14. CASE Only("gateway") /\ GatewayNext
  BY ONLY <1>14 DEF Only, PartSteps
<1>15. CASE Only("setup") /\ SetupNext
  BY ONLY <1>15 DEF Only, PartSteps
<1>16. QED
  BY <1>1, <1>2, <1>3, <1>4, <1>5, <1>6, <1>7, <1>8, <1>9, <1>10, <1>11, <1>12, <1>13, <1>14, <1>15
     DEF PlatformNext

\* The invariants of the parts hold at the start.
LEMMA PlatformStart == ASSUME PlatformInit PROVE PlatformInv
BY LeaveStart, ProvidentStart, GratuityStart, EmployeesStart, AttendanceStart, LockoutStart,
   SessionsStart, AccessStart, JobsStart, DeadLettersStart, NotificationsStart, ThrottleStart,
   GatewayStart, SetupStart DEF PlatformInit, PlatformInv

\* And every step keeps them.
LEMMA PlatformStep == ASSUME PlatformInv, [PlatformNext]_platformVars PROVE PlatformInv'
<1>1. PartSteps
  BY OnePartMoves
<1>2. desk' \in Desks
  BY <1>1 DEF PartSteps, PlatformInv
<1>3. LeaveInv' /\ ProvidentInv' /\ GratuityInv'
  BY <1>1, LeaveStep, ProvidentStep, GratuityStep DEF PartSteps, PlatformInv
<1>4. EmployeesInv' /\ AttendanceInv' /\ LockoutInv'
  BY <1>1, EmployeesStep, AttendanceStep, LockoutStep DEF PartSteps, PlatformInv
<1>5. SessionsInv' /\ AccessInv' /\ JobsInv' /\ DeadLettersInv'
  BY <1>1, SessionsStep, AccessStep, JobsStep, DeadLettersStep DEF PartSteps, PlatformInv
<1>6. NotificationsInv' /\ ThrottleInv' /\ GatewayInv' /\ SetupInv'
  BY <1>1, NotificationsStep, ThrottleStep, GatewayStep, SetupStep DEF PartSteps, PlatformInv
<1>7. QED
  BY <1>2, <1>3, <1>4, <1>5, <1>6 DEF PlatformInv

\* In every state the platform can be in, each part is as its requests have read it.
THEOREM PlatformInvAlways == PlatformSpec => []PlatformInv
<1>1. PlatformInit => PlatformInv
  BY PlatformStart
<1>2. PlatformInv /\ [PlatformNext]_platformVars => PlatformInv'
  BY PlatformStep
<1>3. QED
  BY <1>1, <1>2, PTL DEF PlatformSpec

\* The tables, the caches and the requests of every part have their types.
THEOREM PlatformTypeCorrect == PlatformSpec => []PlatformTypeOK
<1>1. PlatformInv => PlatformTypeOK
  <2>1. SUFFICES ASSUME PlatformInv PROVE PlatformTypeOK
    OBVIOUS
  <2>2. desk \in Desks /\ LeaveTypeOK /\ ProvidentTypeOK /\ GratuityTypeOK /\ LockoutTypeOK
    BY <2>1 DEF PlatformInv, LeaveInv, ProvidentInv, GratuityInv, LockoutInv
  <2>3. EmployeesTypeOK /\ AttendanceTypeOK /\ GatewayTypeOK /\ SetupTypeOK
    BY <2>1, EmployeesTyped, AttendanceSafe, GatewayTyped, SetupTyped DEF PlatformInv
  <2>4. SessionsTypeOK /\ AccessTypeOK /\ JobsTypeOK /\ DeadLettersTypeOK
    BY <2>1 DEF PlatformInv, SessionsInv, AccessInv, JobsInv, DeadLettersInv
  <2>5. NotificationsTypeOK /\ ThrottleTypeOK
    BY <2>1 DEF PlatformInv, NotificationsInv, ThrottleInv
  <2>6. QED
    BY <2>2, <2>3, <2>4, <2>5 DEF PlatformTypeOK
<1>2. QED
  BY <1>1, PlatformInvAlways, PTL

\* What an employee is owed is what the records add up to, whatever the order of the
\* requests: leave taken, the provident fund and the gratuity charged; and leaves do not
\* overlap.
THEOREM BalancesAddUpSafe == PlatformSpec => []BalancesAddUp
<1>1. PlatformInv => BalancesAddUp
  BY GratuitySafe DEF PlatformInv, LeaveInv, ProvidentInv, BalancesAddUp
<1>2. QED
  BY <1>1, PlatformInvAlways, PTL

\* Employment events and manual corrections tell how the rows came to be what they are.
THEOREM HistoryExplainsStateSafe == PlatformSpec => []HistoryExplainsState
<1>1. PlatformInv => HistoryExplainsState
  BY AttendanceSafe DEF PlatformInv, EmployeesInv, HistoryExplainsState
<1>2. QED
  BY <1>1, PlatformInvAlways, PTL

\* A job runs on one instance at a time while its lock lasts, mails are sent and jobs are
\* parked once, open tabs keep their stream and no notice is pushed to them.
THEOREM DeliveredOnceSafe == PlatformSpec => []DeliveredOnce
<1>1. PlatformInv => DeliveredOnce
  BY JobsSafe, ProvidentRunsAlone DEF PlatformInv, DeadLettersInv, NotificationsInv, DeliveredOnce
<1>2. QED
  BY <1>1, PlatformInvAlways, PTL

\* Who may do what follows the accounts and the roles: refresh tokens are used once and end
\* with the change of the password, wrong passwords and calls are counted, cached
\* permissions are those of the tables unless a request decided by something it had seen
\* before, and a permission taken away is gone with the last token that carries it.
THEOREM AccessIsCurrentSafe == PlatformSpec => []AccessIsCurrent
<1>1. ThrottleInv => WindowHolds
  BY DEF ThrottleInv, WindowHolds, WindowOf
<1>2. PlatformInv => AccessIsCurrent
  BY <1>1, GatewayTyped DEF PlatformInv, SessionsInv, LockoutInv, AccessInv, AccessIsCurrent
<1>3. QED
  BY <1>2, PlatformInvAlways, PTL

\* What the scripts give to Super Admin: what was granted, and nothing is lost on the way.
LEMMA AdminHolds ==
  ASSUME SetupInv
  PROVE  /\ "*" \in granted => <<"*", "*">> \in AdminPermissions
         /\ seeded => \A m \in DOMAIN PERMISSIONS : \A a \in PERMISSIONS[m] : <<m, a>> \in AdminPermissions
<1>1. PICK Of : Of = [m \in granted |->
        IF m = "*" THEN {<<"*", "*">>} ELSE {<<m, a>> : a \in PERMISSIONS[m]}]
  OBVIOUS
<1>2. ASSUME NEW m \in granted, NEW p \in Of[m] PROVE p \in AdminPermissions
  BY <1>1, <1>2 DEF AdminPermissions
<1>3. ASSUME "*" \in granted PROVE <<"*", "*">> \in AdminPermissions
  <2>1. <<"*", "*">> \in Of["*"]
    BY <1>1, <1>3
  <2>2. QED
    BY <1>2, <1>3, <2>1
<1>4. ASSUME seeded, NEW m \in DOMAIN PERMISSIONS, NEW a \in PERMISSIONS[m]
      PROVE  <<m, a>> \in AdminPermissions
  <2>1. m \in ModuleNames
    BY DEF PERMISSIONS, ModuleNames
  <2>2. m \in granted /\ m # "*"
    BY <1>4, <2>1 DEF SetupInv, ModuleNames
  <2>3. <<m, a>> \in Of[m]
    BY <1>1, <2>2
  <2>4. QED
    BY <1>2, <2>2, <2>3
<1>5. QED
  BY <1>3, <1>4

\* The scripts give the administrator what every route asks for, in whatever order they
\* are run and wherever they die, if the table of routes fits the seed.
THEOREM AdminReachesEveryRouteSafe ==
  RoutesFitSeed => (PlatformSpec => []AdminReachesEveryRoute)
<1>1. RoutesFitSeed /\ PlatformInv => AdminReachesEveryRoute
  <2>1. SUFFICES ASSUME RoutesFitSeed, PlatformInv, seeded \/ "*" \in granted, NEW i \in DOMAIN Routes
                 PROVE  Reached[i] = i /\ Permitted(AdminPermissions, Routes[i].needs)
    BY DEF AdminReachesEveryRoute
  <2>2. Reached[i] = i
    BY <2>1 DEF RoutesFitSeed
  <2>3. SetupInv
    BY <2>1 DEF PlatformInv
  <2>4. CASE "*" \in granted
    BY <2>3, <2>4, AdminHolds, <2>2 DEF Permitted
  <2>5. CASE seeded
    <3>1. CASE Routes[i].needs = {}
      BY <2>2, <3>1 DEF Permitted
    <3>2. CASE Routes[i].needs # {}
      <4>1. PICK p \in Routes[i].needs : TRUE
        BY <3>2
      <4>2. PICK m \in DOMAIN PERMISSIONS : \E a \in PERMISSIONS[m] : p = <<m, a>>
        BY <2>1 DEF RoutesFitSeed
      <4>3. p \in AdminPermissions
        BY <2>3, <2>5, <4>2, AdminHolds
      <4>4. QED
        BY <2>2, <4>1, <4>3 DEF Permitted
    <3>3. QED
      BY <3>1, <3>2
  <2>6. QED
    BY <2>1, <2>4, <2>5
<1>2. ASSUME RoutesFitSeed PROVE PlatformSpec => []AdminReachesEveryRoute
  <2>1. PlatformInv => AdminReachesEveryRoute
    BY <1>1, <1>2
  <2>2. QED
    BY <2>1, PlatformInvAlways, PTL
<1>3. QED
  BY <1>2
=============================================================================
