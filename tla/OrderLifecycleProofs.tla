------------------------ MODULE OrderLifecycleProofs ------------------------
(***************************************************************************)
(* Proofs about OrderLifecycle for any number of requests, orders, samples *)
(* and delivery dates.                                                     *)
(*                                                                         *)
(* The properties are not inductive: what a request writes is decided by   *)
(* the row it read, so the invariant must say what a request in flight can *)
(* still carry.  RequestInv does: an update was read in draft, and a       *)
(* transition was legal for the row it read, and if that row was past      *)
(* confirmation the milestones are in the table (they are never deleted).  *)
(* RowInv ties the milestones to the status of the row.                    *)
(***************************************************************************)
EXTENDS OrderLifecycle, TLAPS

RequestOK(r) ==
    /\ r.kind = "update" => r.seen.status = "draft"
    /\ r.kind = "transition" =>
        /\ CanTransition(r.seen, r.to)
        /\ r.seen.status \notin {"draft", "cancelled"} => MilestonesOf(r.order) # {}

RequestInv == \A c \in Clients : RequestOK(req[c])

RowInv ==
    \A o \in Orders :
        /\ order[o].status \in {"none", "draft"} => MilestonesOf(o) = {}
        /\ order[o].status \in Produced \cup {"confirmed"} => MilestonesOf(o) # {}

IInv == TypeOK /\ RequestInv /\ RowInv

\* A plan consists of milestone rows of its order, six of them.
LEMMA PlanType ==
    ASSUME NEW o \in Orders, NEW d \in Int
    PROVE  /\ Plan(o, d) \subseteq
                  [order : Orders, type : MilestoneTypes, planned : Int]
           /\ Plan(o, d) # {}
           /\ \A r \in Plan(o, d) : r.order = o
<1>1. \A m \in MilestoneTypes : LeadDays[m] \in Int
  BY DEF MilestoneTypes, LeadDays
<1>2. "qc" \in MilestoneTypes
  BY DEF MilestoneTypes, LeadDays
<1>3. \A m \in MilestoneTypes : d - LeadDays[m] \in Int
  BY <1>1
<1>4. Plan(o, d) \subseteq [order : Orders, type : MilestoneTypes, planned : Int]
  BY <1>3 DEF Plan
<1>5. [order |-> o, type |-> "qc", planned |-> d - LeadDays["qc"]] \in Plan(o, d)
  BY <1>2 DEF Plan
<1>6. \A r \in Plan(o, d) : r.order = o
  BY DEF Plan
<1>7. QED
  BY <1>4, <1>5, <1>6

\* A write of an order row keeps the shapes if no row disappears and the request goes on
\* to announce an order that exists, or ends.
LEMMA KeepsShape ==
    ASSUME TypeOK, NEW c \in Clients, NEW q \in Request, req' = [req EXCEPT ![c] = q],
           q = Idle \/ (q.kind = "announce" /\ order'[q.order] # NoRow),
           order' \in [Orders -> Row \cup {NoRow}],
           \A p \in Orders : order[p] # NoRow => order'[p] # NoRow,
           milestones' \subseteq [order : Orders, type : MilestoneTypes, planned : Int],
           overtaken' \in [Orders -> BOOLEAN],
           UNCHANGED <<approval, announced, approvalEvents>>
    PROVE  TypeOK'
<1>1. req' \in [Clients -> Request]
  BY DEF TypeOK
<1>2. ASSUME NEW d \in Clients,
             req'[d].kind \in {"update", "transition", "started", "announce"}
      PROVE  order'[req'[d].order] # NoRow
  <2>1. CASE d = c
    BY <1>2, <2>1 DEF TypeOK, Idle
  <2>2. CASE d # c
    <3>1. req'[d] = req[d]
      BY <2>2 DEF TypeOK
    <3>2. order[req[d].order] # NoRow
      BY <1>2, <3>1 DEF TypeOK, Exists
    <3>3. req[d].order \in Orders
      BY <1>2, <3>1 DEF TypeOK, Request, Idle
    <3>4. QED
      BY <3>1, <3>2, <3>3
  <2>3. QED
    BY <2>1, <2>2
<1>3. ASSUME NEW d \in Clients, req'[d].kind \in {"announceSample", "reject"}
      PROVE  approval'[req'[d].sample] # "none"
  <2>1. d # c
    BY <1>3 DEF TypeOK, Idle
  <2>2. QED
    BY <1>3, <2>1 DEF TypeOK
<1>4. ASSUME NEW s \in Samples, approval'[s] # "none" PROVE order'[SampleOrder[s]] # NoRow
  <2>1. SampleOrder[s] \in Orders
    BY SampleAssumption
  <2>2. order[SampleOrder[s]] # NoRow
    BY <1>4 DEF TypeOK, Exists
  <2>3. QED
    BY <2>1, <2>2
<1>5. /\ approval' \in [Samples -> {"none", "pending", "approved", "rejected"}]
      /\ announced' \in [Orders -> Nat] /\ approvalEvents' \subseteq Samples
  BY DEF TypeOK
<1>6. QED
  BY <1>1, <1>2, <1>3, <1>4, <1>5 DEF TypeOK, Exists

\* Every table, request and event keeps its shape, and a request in flight
\* refers to an order that exists.
THEOREM TypeCorrect == Spec => []TypeOK
<1>1. Init => TypeOK
  BY DEF Init, TypeOK, Request, Idle, NoRow, Exists
<1>2. TypeOK /\ [Next]_vars => TypeOK'
  <2> SUFFICES ASSUME TypeOK, [Next]_vars PROVE TypeOK'
    OBVIOUS
  <2> USE DEF TypeOK, Exists
  <2>1. ASSUME NEW o \in Orders, CreateOrder(o) PROVE TypeOK'
    BY <2>1 DEF CreateOrder, Row, OrderStatus, NoRow
  <2>2. ASSUME NEW s \in Samples, CreateSample(s) PROVE TypeOK'
    BY <2>2 DEF CreateSample
  <2>3. ASSUME NEW c \in Clients, NEW o \in Orders, ReadForUpdate(c, o)
        PROVE  TypeOK'
    BY <2>3 DEF ReadForUpdate, Request, NoRow, Row
  <2>4. ASSUME NEW c \in Clients, NEW o \in Orders, NEW to \in OrderStatus,
               ReadForTransition(c, o, to)
        PROVE  TypeOK'
    BY <2>4 DEF ReadForTransition, Request, NoRow, Row
  <2>5. ASSUME NEW c \in Clients, NEW o \in Orders, ProductionStarted(c, o)
        PROVE  TypeOK'
    BY <2>5 DEF ProductionStarted, Request, NoRow, Row
  <2>6. ASSUME NEW c \in Clients, NEW s \in Samples, ApproveSample(c, s)
        PROVE  TypeOK'
    <3>1. /\ SampleOrder[s] \in Orders
          /\ order[SampleOrder[s]] \in Row
      BY <2>6, SampleAssumption DEF ApproveSample
    <3>2. order' \in [Orders -> Row \cup {NoRow}]
      BY <2>6, <3>1 DEF ApproveSample, Row
    <3>3. \A o \in Orders : order[o] # NoRow => order'[o] # NoRow
      BY <2>6, <3>1 DEF ApproveSample, Row, NoRow
    <3>4. req' \in [Clients -> Request]
      BY <2>6 DEF ApproveSample, Request
    <3>5. QED
      BY <2>6, <3>2, <3>3, <3>4 DEF ApproveSample
  <2>7. ASSUME NEW c \in Clients, NEW s \in Samples, ReadForReject(c, s)
        PROVE  TypeOK'
    BY <2>7 DEF ReadForReject, Request
  <2>8. ASSUME NEW c \in Clients, WriteUpdate(c) PROVE TypeOK'
    <3> DEFINE o == req[c].order
    <3>1. /\ o \in Orders
          /\ order[o] \in Row
          /\ req[c].deliveryDate \in Dates \cup {Keep}
          /\ req[c].sampleApproved \in BOOLEAN \cup {Keep}
      BY <2>8 DEF WriteUpdate, Request, Idle
    <3>2. /\ Patched(req[c].deliveryDate, order[o].deliveryDate) \in Dates
          /\ Patched(req[c].sampleApproved, order[o].sampleApproved) \in BOOLEAN
      BY <3>1 DEF Patched, Row
    <3>3. order' = [order EXCEPT ![o] =
             [status |-> order[o].status,
              sampleApproved |->
                  Patched(req[c].sampleApproved, order[o].sampleApproved),
              deliveryDate |->
                  Patched(req[c].deliveryDate, order[o].deliveryDate)]]
      BY <2>8 DEF WriteUpdate
    <3>4. order' \in [Orders -> Row \cup {NoRow}]
      BY <3>1, <3>2, <3>3 DEF Row
    <3>5. \A p \in Orders : order[p] # NoRow => order'[p] # NoRow
      BY <3>1, <3>2, <3>3 DEF Row, NoRow
    <3>6. req' = [req EXCEPT ![c] = Idle] /\ Idle \in Request
      BY <2>8 DEF WriteUpdate, Request
    <3>7. overtaken' \in [Orders -> BOOLEAN]
      BY <2>8, <3>1 DEF WriteUpdate, MarkOvertaken
    <3>8. UNCHANGED <<milestones, approval, announced, approvalEvents>>
      BY <2>8 DEF WriteUpdate
    <3>9. QED
      BY <3>4, <3>5, <3>6, <3>7, <3>8, KeepsShape
  <2>9. ASSUME NEW c \in Clients, StartedTransition(c) PROVE TypeOK'
    BY <2>9 DEF StartedTransition, Request, NoRow, Row, Idle, OrderStatus
  <2>10. ASSUME NEW c \in Clients, Confirm(c) PROVE TypeOK'
    <3>1. /\ req[c].order \in Orders
          /\ order[req[c].order] \in Row
      BY <2>10 DEF Confirm, Confirms, Request, Idle
    <3>2. Plan(req[c].order, order[req[c].order].deliveryDate)
            \subseteq [order : Orders, type : MilestoneTypes, planned : Int]
      BY <3>1, PlanType, DateAssumption DEF Row
    <3>3. /\ order' = [order EXCEPT ![req[c].order].status = "confirmed"]
          /\ order' \in [Orders -> Row \cup {NoRow}]
          /\ order'[req[c].order] # NoRow
      BY <2>10, <3>1 DEF Confirm, Row, NoRow, OrderStatus
    <3>4. \A p \in Orders : order[p] # NoRow => order'[p] # NoRow
      BY <3>1, <3>3
    <3>5. PICK q : q = [kind |-> "announce", order |-> req[c].order]
      OBVIOUS
    <3>6. /\ req' = [req EXCEPT ![c] = q] /\ q \in Request
          /\ q.kind = "announce" /\ order'[q.order] # NoRow
      BY <2>10, <3>1, <3>3, <3>5 DEF Confirm, Request
    <3>7. overtaken' \in [Orders -> BOOLEAN]
      BY <2>10, <3>1 DEF Confirm, MarkOvertaken
    <3>8. /\ milestones' \subseteq [order : Orders, type : MilestoneTypes, planned : Int]
          /\ UNCHANGED <<approval, announced, approvalEvents>>
      BY <2>10, <3>2 DEF Confirm
    <3>9. QED
      BY <3>3, <3>4, <3>6, <3>7, <3>8, KeepsShape
  <2>11. ASSUME NEW c \in Clients, ConfirmConflict(c) PROVE TypeOK'
    BY <2>11 DEF ConfirmConflict, Request, Idle
  <2>12. ASSUME NEW c \in Clients, AnnounceConfirmed(c) PROVE TypeOK'
    BY <2>12 DEF AnnounceConfirmed, Request, Idle
  <2>13. ASSUME NEW c \in Clients, WriteTransition(c) PROVE TypeOK'
    <3> DEFINE o == req[c].order
    <3>1. o \in Orders /\ order[o] \in Row /\ req[c].to \in OrderStatus
      BY <2>13 DEF WriteTransition, Request, Idle
    <3>2. order' \in [Orders -> Row \cup {NoRow}]
      BY <2>13, <3>1 DEF WriteTransition, Row
    <3>3. \A p \in Orders : order[p] # NoRow => order'[p] # NoRow
      BY <2>13, <3>1 DEF WriteTransition, Row, NoRow, OrderStatus
    <3>4. req' = [req EXCEPT ![c] = Idle] /\ Idle \in Request
      BY <2>13 DEF WriteTransition, Request
    <3>5. overtaken' \in [Orders -> BOOLEAN]
      BY <2>13, <3>1 DEF WriteTransition, MarkOvertaken
    <3>6. UNCHANGED <<milestones, approval, announced, approvalEvents>>
      BY <2>13 DEF WriteTransition
    <3>7. QED
      BY <3>2, <3>3, <3>4, <3>5, <3>6, KeepsShape
  <2>14. ASSUME NEW c \in Clients, AnnounceSample(c) PROVE TypeOK'
    BY <2>14 DEF AnnounceSample, Request, Idle
  <2>15. ASSUME NEW c \in Clients, RejectSample(c) PROVE TypeOK'
    BY <2>15 DEF RejectSample, Request, Idle
  <2>16. ASSUME NEW c \in Clients, Crash(c) PROVE TypeOK'
    BY <2>16 DEF Crash, Request, Idle
  <2>17. CASE UNCHANGED vars
    BY <2>17 DEF vars
  <2>18. QED
    BY <2>1, <2>2, <2>3, <2>4, <2>5, <2>6, <2>7, <2>8, <2>9, <2>10, <2>11,
       <2>12, <2>13, <2>14, <2>15, <2>16, <2>17 DEF Next
<1>3. QED
  BY <1>1, <1>2, PTL DEF Spec

-----------------------------------------------------------------------------
\* Milestones are never deleted and only Confirm inserts them.
LEMMA MilestonesGrow ==
    ASSUME TypeOK, [Next]_vars, NEW o \in Orders, MilestonesOf(o) # {}
    PROVE  MilestonesOf(o)' # {}
BY DEF MilestonesOf, Next, vars, CreateOrder, CreateSample, ReadForUpdate,
       ReadForTransition, ProductionStarted, ApproveSample, ReadForReject,
       WriteUpdate, StartedTransition, Confirm, ConfirmConflict,
       AnnounceConfirmed, WriteTransition, AnnounceSample, RejectSample, Crash

\* A confirmation gives its order the whole plan of the date in the row and
\* leaves the milestones of every other order alone.
LEMMA ConfirmPlans ==
    ASSUME TypeOK, NEW c \in Clients, Confirm(c)
    PROVE  \E o \in Orders :
              /\ o = req[c].order
              /\ order[o] \in Row
              /\ order' = [order EXCEPT ![o].status = "confirmed"]
              /\ MilestonesOf(o) = {}
              /\ MilestonesOf(o)' = Plan(o, order[o].deliveryDate)
              /\ MilestonesOf(o)' # {}
              /\ \A p \in Orders \ {o} : MilestonesOf(p)' = MilestonesOf(p)
<1>1. PICK o \in Orders : o = req[c].order /\ order[o] \in Row
  BY DEF TypeOK, Confirm, Confirms, Request, Idle, Exists
<1> DEFINE P == Plan(o, order[o].deliveryDate)
<1>2. /\ order' = [order EXCEPT ![o].status = "confirmed"]
      /\ milestones' = milestones \cup P
      /\ MilestonesOf(o) = {}
  BY <1>1 DEF Confirm
<1>3. P # {} /\ \A r \in P : r.order = o
  BY <1>1, PlanType, DateAssumption DEF Row
<1> HIDE DEF P
<1>4. MilestonesOf(o)' = P
  BY <1>2, <1>3 DEF MilestonesOf
<1>5. \A p \in Orders \ {o} : MilestonesOf(p)' = MilestonesOf(p)
  BY <1>2, <1>3 DEF MilestonesOf
<1>6. QED
  BY <1>1, <1>2, <1>3, <1>4, <1>5 DEF P

\* What a request in flight may carry still holds after the step: no step
\* takes a milestone away from under it.
LEMMA RequestKept ==
    ASSUME IInv, [Next]_vars, NEW c \in Clients, req'[c] = req[c]
    PROVE  RequestOK(req[c])'
<1> USE DEF IInv
<1>1. RequestOK(req[c])
  BY DEF RequestInv
<1>2. CASE req[c].kind = "transition"
  <2>1. req[c].order \in Orders
    BY <1>2 DEF TypeOK, Request, Idle
  <2>2. MilestonesOf(req[c].order) # {} => MilestonesOf(req[c].order)' # {}
    <3> DEFINE o == req[c].order
    <3>1. MilestonesOf(o) # {} => {r \in milestones' : r.order = o} # {}
      BY <2>1, MilestonesGrow DEF MilestonesOf
    <3>2. QED
      BY <3>1 DEF MilestonesOf
  <2>3. QED
    BY <1>1, <1>2, <2>2 DEF RequestOK, MilestonesOf
<1>3. CASE req[c].kind # "transition"
  BY <1>1, <1>3 DEF RequestOK
<1>4. QED
  BY <1>2, <1>3

\* A step that gives one request a record it may carry preserves RequestInv.
LEMMA OneRequest ==
    ASSUME IInv, [Next]_vars, NEW c \in Clients, NEW r,
           req' = [req EXCEPT ![c] = r],
           r.kind = "update" => r.seen.status = "draft",
           r.kind = "transition" =>
               /\ CanTransition(r.seen, r.to)
               /\ r.seen.status \notin {"draft", "cancelled"} =>
                      MilestonesOf(r.order)' # {}
    PROVE  RequestInv'
<1>1. req'[c] = r
  BY DEF IInv, TypeOK
<1>2. RequestOK(req[c])'
  BY <1>1 DEF RequestOK, MilestonesOf
<1>3. ASSUME NEW d \in Clients, d # c PROVE RequestOK(req[d])'
  <2>1. req'[d] = req[d]
    BY <1>3 DEF IInv, TypeOK
  <2>2. QED
    BY <2>1, RequestKept
<1>4. QED
  BY <1>2, <1>3 DEF RequestInv

\* Reading an order for a transition records a legal transition.
LEMMA ReadTransition ==
    ASSUME IInv, [Next]_vars, NEW c \in Clients, NEW o \in Orders,
           NEW to \in OrderStatus,
           milestones' = milestones, Exists(o), CanTransition(order[o], to),
           req' = [req EXCEPT ![c] = [kind |-> "transition", order |-> o,
                                      seen |-> order[o], to |-> to]]
    PROVE  RequestInv'
<1> DEFINE r == [kind |-> "transition", order |-> o, seen |-> order[o], to |-> to]
<1>1. order[o].status \in OrderStatus
  BY DEF IInv, TypeOK, Exists, Row
<1>2. order[o].status \notin {"draft", "cancelled"} => MilestonesOf(o) # {}
  BY <1>1 DEF IInv, RowInv, OrderStatus, Produced
<1>3. MilestonesOf(o)' = MilestonesOf(o)
  BY DEF MilestonesOf
<1>4. r.seen.status \notin {"draft", "cancelled"} => MilestonesOf(o)' # {}
  BY <1>2, <1>3
<1>5. /\ r.kind = "transition" /\ r.order = o /\ CanTransition(r.seen, r.to)
  OBVIOUS
<1> HIDE DEF r
<1>6. QED
  BY <1>4, <1>5, OneRequest DEF r

\* RequestInv: reads record what the state machine and the milestones say.
LEMMA RequestStep == IInv /\ [Next]_vars => RequestInv'
<1> SUFFICES ASSUME IInv, [Next]_vars PROVE RequestInv'
  OBVIOUS
<1>1. ASSUME NEW c \in Clients, NEW o \in Orders, ReadForUpdate(c, o)
      PROVE  RequestInv'
  <2>1. PICK d \in Dates \cup {Keep}, a \in BOOLEAN \cup {Keep} :
          req' = [req EXCEPT ![c] =
                    [kind |-> "update", order |-> o, seen |-> order[o],
                     deliveryDate |-> d, sampleApproved |-> a]]
    BY <1>1 DEF ReadForUpdate
  <2>2. order[o].status = "draft"
    BY <1>1 DEF ReadForUpdate
  <2>3. QED
    BY <2>1, <2>2, OneRequest
<1>2. ASSUME NEW c \in Clients, NEW o \in Orders, NEW to \in OrderStatus,
             ReadForTransition(c, o, to)
      PROVE  RequestInv'
  BY <1>2, ReadTransition DEF ReadForTransition
<1>3. ASSUME NEW c \in Clients, NEW o \in Orders, ProductionStarted(c, o)
      PROVE  RequestInv'
  BY <1>3, OneRequest DEF ProductionStarted
<1>4. ASSUME NEW c \in Clients, StartedTransition(c)
      PROVE  RequestInv'
  <2>1. req[c].order \in Orders /\ Exists(req[c].order)
    BY <1>4 DEF StartedTransition, IInv, TypeOK, Request, Idle
  <2>2. CASE CanTransition(order[req[c].order], "in_production")
    <3>1. "in_production" \in OrderStatus
      BY DEF OrderStatus
    <3>2. QED
      BY <1>4, <2>1, <2>2, <3>1, ReadTransition DEF StartedTransition
  <2>3. CASE ~ CanTransition(order[req[c].order], "in_production")
    BY <1>4, <2>3, OneRequest DEF StartedTransition, Idle
  <2>4. QED
    BY <2>2, <2>3
<1>5. ASSUME NEW c \in Clients, NEW s \in Samples, ApproveSample(c, s)
      PROVE  RequestInv'
  BY <1>5, OneRequest DEF ApproveSample
<1>6. ASSUME NEW c \in Clients, NEW s \in Samples, ReadForReject(c, s)
      PROVE  RequestInv'
  BY <1>6, OneRequest DEF ReadForReject
<1>7. ASSUME NEW c \in Clients, Confirm(c)
      PROVE  RequestInv'
  BY <1>7, OneRequest DEF Confirm
<1>8. ASSUME NEW c \in Clients, req' = [req EXCEPT ![c] = Idle]
      PROVE  RequestInv'
  BY <1>8, OneRequest DEF Idle
<1>9. CASE UNCHANGED req
  BY <1>9, RequestKept DEF RequestInv
<1>10. QED
  BY <1>1, <1>2, <1>3, <1>4, <1>5, <1>6, <1>7, <1>8, <1>9
     DEF Next, vars, CreateOrder, CreateSample, WriteUpdate, ConfirmConflict,
         AnnounceConfirmed, WriteTransition, AnnounceSample, RejectSample, Crash

\* What a plain transition writes: cancelled, or a status past confirmation of
\* an order that has its milestones.
LEMMA TransitionWrites ==
    ASSUME IInv, NEW c \in Clients, WriteTransition(c)
    PROVE  \E o \in Orders :
              /\ o = req[c].order
              /\ order[o] \in Row
              /\ req[c].to \in OrderStatus \ {"draft", "confirmed"}
              /\ order' = [order EXCEPT ![o].status = req[c].to]
              /\ order'[o].status = req[c].to
              /\ req[c].to # "cancelled" => MilestonesOf(o) # {}
              /\ CanTransition(req[c].seen, req[c].to)
<1>1. PICK o \in Orders : o = req[c].order /\ order[o] \in Row
  BY DEF IInv, TypeOK, WriteTransition, Request, Idle, Exists
<1>2. req[c].seen \in Row /\ req[c].to \in OrderStatus
  BY DEF IInv, TypeOK, WriteTransition, Request, Idle
<1>3. req[c].seen.status \in OrderStatus
  BY <1>2 DEF Row
<1>4. /\ CanTransition(req[c].seen, req[c].to)
      /\ req[c].seen.status \notin {"draft", "cancelled"} => MilestonesOf(o) # {}
  BY <1>1 DEF IInv, RequestInv, RequestOK, WriteTransition
<1>5. req[c].to \in STATUS_TRANSITIONS[req[c].seen.status]
  BY <1>4 DEF CanTransition
<1>6. ~ (req[c].seen.status = "draft" /\ req[c].to = "confirmed")
  BY DEF WriteTransition, Confirms
<1>7. /\ req[c].to \notin {"draft", "confirmed"}
      /\ req[c].seen.status # "cancelled"
      /\ req[c].to # "cancelled" => req[c].seen.status # "draft"
  BY <1>3, <1>5, <1>6 DEF STATUS_TRANSITIONS, OrderStatus
<1>8. /\ order' = [order EXCEPT ![o].status = req[c].to]
      /\ order'[o].status = req[c].to
  BY <1>1 DEF WriteTransition, IInv, TypeOK, Row
<1>9. QED
  BY <1>1, <1>2, <1>4, <1>7, <1>8

\* RowInv: milestones appear exactly when an order leaves draft for
\* confirmed, and every later status was reached past that point.
LEMMA RowStep == IInv /\ [Next]_vars => RowInv'
<1> SUFFICES ASSUME IInv, [Next]_vars PROVE RowInv'
  OBVIOUS
<1>1. ASSUME milestones' = milestones,
             \A o \in Orders :
                \/ order'[o].status = order[o].status
                \/ order'[o].status = "cancelled"
                \/ order'[o].status = "draft" /\ MilestonesOf(o) = {}
                \/ order'[o].status \notin {"none", "draft"} /\ MilestonesOf(o) # {}
      PROVE  RowInv'
  <2>1. \A o \in Orders : MilestonesOf(o)' = MilestonesOf(o)
    BY <1>1 DEF MilestonesOf
  <2>2. QED
    BY <1>1, <2>1 DEF IInv, RowInv, Produced
<1>2. ASSUME NEW o \in Orders, CreateOrder(o) PROVE RowInv'
  <2>1. order[o].status = "none" /\ milestones' = milestones
    BY <1>2 DEF CreateOrder, Exists, NoRow
  <2>2. MilestonesOf(o) = {}
    BY <2>1 DEF IInv, RowInv
  <2>3. order'[o].status = "draft" /\ \A p \in Orders \ {o} : order'[p] = order[p]
    BY <1>2 DEF CreateOrder, IInv, TypeOK
  <2>4. QED
    BY <1>1, <2>1, <2>2, <2>3
<1>3. ASSUME NEW c \in Clients, WriteUpdate(c) PROVE RowInv'
  <2>1. \A o \in Orders : order'[o].status = order[o].status
    BY <1>3 DEF WriteUpdate, IInv, TypeOK
  <2>2. QED
    BY <1>1, <1>3, <2>1 DEF WriteUpdate
<1>4. ASSUME NEW c \in Clients, NEW s \in Samples, ApproveSample(c, s)
      PROVE  RowInv'
  <2>1. order[SampleOrder[s]] \in Row /\ SampleOrder[s] \in Orders
    BY <1>4, SampleAssumption DEF ApproveSample, IInv, TypeOK, Exists
  <2>2. \A o \in Orders : order'[o].status = order[o].status
    BY <1>4, <2>1 DEF ApproveSample, IInv, TypeOK, Row
  <2>3. QED
    BY <1>1, <1>4, <2>2 DEF ApproveSample
<1>5. ASSUME NEW c \in Clients, WriteTransition(c) PROVE RowInv'
  <2>1. PICK o \in Orders :
          /\ order'[o].status = req[c].to
          /\ order' = [order EXCEPT ![o].status = req[c].to]
          /\ req[c].to \in OrderStatus \ {"draft", "confirmed"}
          /\ req[c].to # "cancelled" => MilestonesOf(o) # {}
    BY <1>5, TransitionWrites
  <2>2. \A p \in Orders \ {o} : order'[p] = order[p]
    BY <2>1 DEF IInv, TypeOK
  <2>3. milestones' = milestones
    BY <1>5 DEF WriteTransition
  <2>4. QED
    BY <1>1, <2>1, <2>2, <2>3 DEF OrderStatus
<1>6. ASSUME NEW c \in Clients, Confirm(c) PROVE RowInv'
  <2>1. PICK o \in Orders :
          /\ order[o] \in Row
          /\ order' = [order EXCEPT ![o].status = "confirmed"]
          /\ MilestonesOf(o)' # {}
          /\ \A p \in Orders \ {o} : MilestonesOf(p)' = MilestonesOf(p)
    BY <1>6, ConfirmPlans DEF IInv
  <2>2. order'[o].status = "confirmed"
    BY <2>1 DEF IInv, TypeOK, Row
  <2>3. \A p \in Orders \ {o} : order'[p] = order[p]
    BY <2>1 DEF IInv, TypeOK
  <2>4. QED
    BY <2>1, <2>2, <2>3 DEF IInv, RowInv, Produced
<1>7. CASE UNCHANGED <<order, milestones>>
  BY <1>7, <1>1
<1>8. QED
  BY <1>2, <1>3, <1>4, <1>5, <1>6, <1>7
     DEF Next, vars, CreateSample, ReadForUpdate, ReadForTransition,
         ProductionStarted, ReadForReject, StartedTransition, ConfirmConflict,
         AnnounceConfirmed, AnnounceSample, RejectSample, Crash

\* The inductive invariant holds in every reachable state.
THEOREM Inductive == Spec => []IInv
<1>1. Init => RequestInv /\ RowInv
  BY DEF Init, RequestInv, RequestOK, RowInv, Idle, NoRow, MilestonesOf, Produced
<1>2. QED
  BY <1>1, TypeCorrect, RequestStep, RowStep, PTL DEF Spec, IInv

-----------------------------------------------------------------------------
\* NeverReconfirmed: only a confirmation writes confirmed, and it finds the
\* milestones of an earlier one in its way.
THEOREM NeverReconfirmedSafe == Spec => NeverReconfirmed
<1>1. ASSUME IInv, [Next]_vars, NEW o \in Orders, MilestonesOf(o) # {},
             order'[o].status = "confirmed"
      PROVE  order[o].status = "confirmed"
  <2>1. ASSUME NEW p \in Orders, CreateOrder(p)
        PROVE  order[o].status = "confirmed"
    BY <1>1, <2>1 DEF CreateOrder, IInv, TypeOK
  <2>2. ASSUME NEW c \in Clients, WriteUpdate(c)
        PROVE  order[o].status = "confirmed"
    BY <1>1, <2>2 DEF WriteUpdate, IInv, TypeOK
  <2>3. ASSUME NEW c \in Clients, NEW s \in Samples, ApproveSample(c, s)
        PROVE  order[o].status = "confirmed"
    <3>1. SampleOrder[s] \in Orders /\ order[SampleOrder[s]] \in Row
      BY <1>1, <2>3, SampleAssumption DEF ApproveSample, IInv, TypeOK, Exists
    <3>2. QED
      BY <1>1, <2>3, <3>1 DEF ApproveSample, IInv, TypeOK, Row
  <2>4. ASSUME NEW c \in Clients, WriteTransition(c)
        PROVE  order[o].status = "confirmed"
    <3>1. PICK p \in Orders :
            /\ order'[p].status = req[c].to
            /\ order' = [order EXCEPT ![p].status = req[c].to]
            /\ req[c].to # "confirmed"
      BY <1>1, <2>4, TransitionWrites
    <3>2. o # p
      BY <1>1, <3>1
    <3>3. QED
      BY <1>1, <3>1, <3>2 DEF IInv, TypeOK
  <2>5. ASSUME NEW c \in Clients, Confirm(c)
        PROVE  order[o].status = "confirmed"
    <3>1. PICK p \in Orders :
            /\ order' = [order EXCEPT ![p].status = "confirmed"]
            /\ MilestonesOf(p) = {}
      BY <1>1, <2>5, ConfirmPlans DEF IInv
    <3>2. o # p
      BY <1>1, <3>1
    <3>3. QED
      BY <1>1, <3>1, <3>2 DEF IInv, TypeOK
  <2>6. CASE UNCHANGED order
    BY <1>1, <2>6
  <2>7. QED
    BY <1>1, <2>1, <2>2, <2>3, <2>4, <2>5, <2>6
       DEF Next, vars, CreateSample, ReadForUpdate, ReadForTransition,
           ProductionStarted, ReadForReject, StartedTransition,
           ConfirmConflict, AnnounceConfirmed, AnnounceSample, RejectSample,
           Crash
<1>2. IInv /\ [Next]_vars =>
          [\A o \in Orders :
              MilestonesOf(o) # {} /\ order'[o].status = "confirmed" =>
                  order[o].status = "confirmed"]_vars
  BY <1>1
<1>3. QED
  BY <1>2, Inductive, PTL DEF Spec, NeverReconfirmed

\* AnnouncedOnce: the request that inserted the milestones is the only one
\* that ever announces the order, and it does so once.
THEOREM AnnouncedOnceSafe == Spec => []AnnouncedOnce
<1>1. Init => AnnouncedOnce
  BY DEF Init, AnnouncedOnce, Announcing, Idle
<1>2. TypeOK /\ AnnouncedOnce /\ [Next]_vars => AnnouncedOnce'
  <2> SUFFICES ASSUME TypeOK, AnnouncedOnce, [Next]_vars, NEW o \in Orders
               PROVE  /\ announced'[o] \in {0, 1}
                      /\ announced'[o] = 1 => Announcing(o)' = {}
                      /\ \A c, d \in Announcing(o)' : c = d
                      /\ announced'[o] = 1 \/ Announcing(o)' # {} =>
                             MilestonesOf(o)' # {}
    BY DEF AnnouncedOnce
  <2>1. /\ announced[o] \in {0, 1}
        /\ announced[o] = 1 => Announcing(o) = {}
        /\ \A c, d \in Announcing(o) : c = d
        /\ announced[o] = 1 \/ Announcing(o) # {} => MilestonesOf(o) # {}
    BY DEF AnnouncedOnce
  <2>2. MilestonesOf(o) # {} => MilestonesOf(o)' # {}
    BY MilestonesGrow
  <2>3. CASE announced'[o] = announced[o] /\ Announcing(o)' \subseteq Announcing(o)
    BY <2>1, <2>2, <2>3
  <2>4. ASSUME NEW c \in Clients, Confirm(c) PROVE announced'[o] = announced[o]
                      /\ Announcing(o)' \subseteq Announcing(o) \cup {c}
    BY <2>4 DEF Confirm, Announcing, TypeOK
  <2>5. ASSUME NEW c \in Clients, Confirm(c), req[c].order # o
        PROVE  Announcing(o)' \subseteq Announcing(o)
    BY <2>5 DEF Confirm, Announcing, TypeOK
  <2>6. ASSUME NEW c \in Clients, Confirm(c), req[c].order = o
        PROVE  MilestonesOf(o) = {} /\ MilestonesOf(o)' # {}
    BY <2>6, ConfirmPlans
  <2>7. ASSUME NEW c \in Clients, AnnounceConfirmed(c), req[c].order = o
        PROVE  /\ c \in Announcing(o)
               /\ announced'[o] = announced[o] + 1
               /\ Announcing(o)' \subseteq Announcing(o) \ {c}
    BY <2>7 DEF AnnounceConfirmed, Announcing, TypeOK, Idle
  <2>8. ASSUME NEW c \in Clients, AnnounceConfirmed(c), req[c].order # o
        PROVE  announced'[o] = announced[o] /\ Announcing(o)' \subseteq Announcing(o)
    BY <2>8 DEF AnnounceConfirmed, Announcing, TypeOK, Idle
  <2>9. ASSUME NEW c \in Clients, NEW r, r.kind # "announce",
               req' = [req EXCEPT ![c] = r], announced' = announced
        PROVE  announced'[o] = announced[o] /\ Announcing(o)' \subseteq Announcing(o)
    BY <2>9 DEF Announcing, TypeOK
  <2>10. CASE UNCHANGED <<req, announced>>
    BY <2>1, <2>2, <2>10 DEF Announcing
  <2>11. CASE \E c \in Clients : Confirm(c)
    <3>1. PICK c \in Clients : Confirm(c)
      BY <2>11
    <3>2. CASE req[c].order = o
      BY <2>1, <2>4, <2>6, <3>1, <3>2
    <3>3. CASE req[c].order # o
      BY <2>3, <2>4, <2>5, <3>1, <3>3
    <3>4. QED
      BY <3>2, <3>3
  <2>12. CASE \E c \in Clients : AnnounceConfirmed(c)
    <3>1. PICK c \in Clients : AnnounceConfirmed(c)
      BY <2>12
    <3>2. CASE req[c].order = o
      BY <2>1, <2>2, <2>7, <3>1, <3>2
    <3>3. CASE req[c].order # o
      BY <2>3, <2>8, <3>1, <3>3
    <3>4. QED
      BY <3>2, <3>3
  <2>13. CASE \E c \in Clients, p \in Orders : ReadForUpdate(c, p)
    BY <2>3, <2>9, <2>13 DEF ReadForUpdate
  <2>14. CASE \E c \in Clients, p \in Orders, to \in OrderStatus :
                  ReadForTransition(c, p, to)
    BY <2>3, <2>9, <2>14 DEF ReadForTransition
  <2>15. CASE \E c \in Clients, p \in Orders : ProductionStarted(c, p)
    BY <2>3, <2>9, <2>15 DEF ProductionStarted
  <2>16. CASE \E c \in Clients : StartedTransition(c)
    <3>1. PICK c \in Clients : StartedTransition(c)
      BY <2>16
    <3>2. CASE CanTransition(order[req[c].order], "in_production")
      BY <2>3, <2>9, <3>1, <3>2 DEF StartedTransition
    <3>3. CASE ~ CanTransition(order[req[c].order], "in_production")
      BY <2>3, <2>9, <3>1, <3>3 DEF StartedTransition, Idle
    <3>4. QED
      BY <3>2, <3>3
  <2>17. CASE \E c \in Clients, s \in Samples :
                  ApproveSample(c, s) \/ ReadForReject(c, s)
    BY <2>3, <2>9, <2>17 DEF ApproveSample, ReadForReject
  <2>18. CASE \E c \in Clients :
                \/ WriteUpdate(c) \/ ConfirmConflict(c) \/ WriteTransition(c)
                \/ AnnounceSample(c) \/ RejectSample(c) \/ Crash(c)
    <3>1. PICK c \in Clients : req' = [req EXCEPT ![c] = Idle] /\ announced' = announced
      BY <2>18 DEF WriteUpdate, ConfirmConflict, WriteTransition,
                   AnnounceSample, RejectSample, Crash
    <3>2. QED
      BY <2>3, <2>9, <3>1 DEF Idle
  <2>19. QED
    BY <2>10, <2>11, <2>12, <2>13, <2>14, <2>15, <2>16, <2>17, <2>18
       DEF Next, vars, CreateOrder, CreateSample
<1>3. QED
  BY <1>1, <1>2, TypeCorrect, PTL DEF Spec

-----------------------------------------------------------------------------
\* MilestonesComplete: the only step that inserts milestones inserts a whole
\* plan, and into nothing.
THEOREM MilestonesCompleteSafe == Spec => []MilestonesComplete
<1>1. Init => MilestonesComplete
  BY DEF Init, MilestonesComplete, MilestonesOf
<1>2. TypeOK /\ MilestonesComplete /\ [Next]_vars => MilestonesComplete'
  <2> SUFFICES ASSUME TypeOK, MilestonesComplete, [Next]_vars
               PROVE  MilestonesComplete'
    OBVIOUS
  <2>1. ASSUME NEW c \in Clients, Confirm(c) PROVE MilestonesComplete'
    <3>1. PICK p \in Orders :
            /\ order[p] \in Row
            /\ MilestonesOf(p)' = Plan(p, order[p].deliveryDate)
            /\ \A q \in Orders \ {p} : MilestonesOf(q)' = MilestonesOf(q)
      BY <2>1, ConfirmPlans
    <3>2. order[p].deliveryDate \in Dates
      BY <3>1 DEF Row
    <3>3. \A q \in Orders :
            MilestonesOf(q)' # {} => \E d \in Dates : MilestonesOf(q)' = Plan(q, d)
      BY <3>1, <3>2 DEF MilestonesComplete
    <3>4. QED
      BY <3>3 DEF MilestonesComplete, MilestonesOf
  <2>2. CASE UNCHANGED milestones
    BY <2>2 DEF MilestonesComplete, MilestonesOf
  <2>3. QED
    BY <2>1, <2>2
       DEF Next, vars, CreateOrder, CreateSample, ReadForUpdate,
           ReadForTransition, ProductionStarted, ApproveSample, ReadForReject,
           WriteUpdate, StartedTransition, ConfirmConflict, AnnounceConfirmed,
           WriteTransition, AnnounceSample, RejectSample, Crash
<1>3. QED
  BY <1>1, <1>2, TypeCorrect, PTL DEF Spec

\* An update that finds the row it read finds a draft, so it moves the
\* delivery date of an order that has no plan yet.
LEMMA FreshUpdate ==
    ASSUME IInv, NEW c \in Clients, WriteUpdate(c)
    PROVE  \E o \in Orders :
              /\ o = req[c].order
              /\ \A p \in Orders \ {o} :
                    order'[p] = order[p] /\ overtaken'[p] = overtaken[p]
              /\ order'[o].status = order[o].status
              /\ overtaken[o] => overtaken'[o]
              /\ ~ overtaken'[o] => order[o].status = "draft" /\ MilestonesOf(o) = {}
<1>1. PICK o \in Orders : o = req[c].order
  BY DEF IInv, TypeOK, WriteUpdate, Request, Idle
<1>2. /\ overtaken' = [overtaken EXCEPT ![o] = overtaken[o] \/ order[o] # req[c].seen]
      /\ req[c].seen.status = "draft"
  BY <1>1 DEF WriteUpdate, MarkOvertaken, IInv, RequestInv, RequestOK
<1>3. /\ order'[o].status = order[o].status
      /\ \A p \in Orders \ {o} : order'[p] = order[p]
  BY <1>1 DEF WriteUpdate, IInv, TypeOK
<1>4. \A p \in Orders \ {o} : overtaken'[p] = overtaken[p]
  BY <1>2 DEF IInv, TypeOK
<1>5. overtaken'[o] = (overtaken[o] \/ order[o] # req[c].seen)
  BY <1>2 DEF IInv, TypeOK
<1>6. ~ overtaken'[o] => order[o].status = "draft"
  BY <1>2, <1>5
<1>7. order[o].status = "draft" => MilestonesOf(o) = {}
  BY DEF IInv, RowInv
<1>8. QED
  BY <1>1, <1>3, <1>4, <1>5, <1>6, <1>7

\* PlanFollowsDeliveryDate: with the row unchanged since it was read, only a
\* draft's delivery date can move.
THEOREM PlanFollowsDeliveryDateSafe == Spec => []PlanFollowsDeliveryDate
<1>1. Init => PlanFollowsDeliveryDate
  BY DEF Init, PlanFollowsDeliveryDate, MilestonesOf
<1>2. IInv /\ PlanFollowsDeliveryDate /\ [Next]_vars => PlanFollowsDeliveryDate'
  <2> SUFFICES ASSUME IInv, PlanFollowsDeliveryDate, [Next]_vars,
                      NEW o \in Orders, MilestonesOf(o)' # {}, ~ overtaken'[o]
               PROVE  MilestonesOf(o)' = Plan(o, order'[o].deliveryDate)
    BY DEF PlanFollowsDeliveryDate, MilestonesOf, Plan
  <2>1. MilestonesOf(o) # {} /\ ~ overtaken[o] =>
            MilestonesOf(o) = Plan(o, order[o].deliveryDate)
    BY DEF PlanFollowsDeliveryDate
  <2>2. CASE /\ MilestonesOf(o)' = MilestonesOf(o)
             /\ overtaken[o] => overtaken'[o]
             /\ order'[o].deliveryDate = order[o].deliveryDate
    BY <2>1, <2>2
  <2>3. ASSUME NEW p \in Orders, CreateOrder(p)
        PROVE  MilestonesOf(o)' = Plan(o, order'[o].deliveryDate)
    <3>1. MilestonesOf(o)' = MilestonesOf(o) /\ overtaken' = overtaken
      BY <2>3 DEF CreateOrder, MilestonesOf
    <3>2. o # p
      BY <2>3, <3>1 DEF CreateOrder, Exists, NoRow, IInv, RowInv
    <3>3. order'[o] = order[o]
      BY <2>3, <3>2 DEF CreateOrder, IInv, TypeOK
    <3>4. QED
      BY <2>2, <3>1, <3>3
  <2>4. ASSUME NEW c \in Clients, WriteUpdate(c)
        PROVE  MilestonesOf(o)' = Plan(o, order'[o].deliveryDate)
    <3>1. MilestonesOf(o)' = MilestonesOf(o)
      BY <2>4 DEF WriteUpdate, MilestonesOf
    <3>2. QED
      BY <2>2, <2>4, <3>1, FreshUpdate
  <2>5. ASSUME NEW c \in Clients, Confirm(c)
        PROVE  MilestonesOf(o)' = Plan(o, order'[o].deliveryDate)
    <3>1. PICK p \in Orders :
            /\ p = req[c].order
            /\ order[p] \in Row
            /\ order' = [order EXCEPT ![p].status = "confirmed"]
            /\ MilestonesOf(p)' = Plan(p, order[p].deliveryDate)
            /\ \A q \in Orders \ {p} : MilestonesOf(q)' = MilestonesOf(q)
      BY <2>5, ConfirmPlans DEF IInv
    <3>2. order'[o].deliveryDate = order[o].deliveryDate
      BY <3>1 DEF IInv, TypeOK, Row
    <3>3. overtaken[o] => overtaken'[o]
      BY <2>5 DEF Confirm, MarkOvertaken, IInv, TypeOK
    <3>4. QED
      BY <2>2, <3>1, <3>2, <3>3
  <2>6. ASSUME NEW c \in Clients, WriteTransition(c)
        PROVE  MilestonesOf(o)' = Plan(o, order'[o].deliveryDate)
    <3>1. PICK p \in Orders :
            /\ order[p] \in Row
            /\ order' = [order EXCEPT ![p].status = req[c].to]
      BY <2>6, TransitionWrites
    <3>2. order'[o].deliveryDate = order[o].deliveryDate
      BY <3>1 DEF IInv, TypeOK, Row
    <3>3. overtaken[o] => overtaken'[o]
      BY <2>6 DEF WriteTransition, MarkOvertaken, IInv, TypeOK
    <3>4. MilestonesOf(o)' = MilestonesOf(o)
      BY <2>6 DEF WriteTransition, MilestonesOf
    <3>5. QED
      BY <2>2, <3>2, <3>3, <3>4
  <2>7. ASSUME NEW c \in Clients, NEW s \in Samples, ApproveSample(c, s)
        PROVE  MilestonesOf(o)' = Plan(o, order'[o].deliveryDate)
    <3>1. SampleOrder[s] \in Orders /\ order[SampleOrder[s]] \in Row
      BY <2>7, SampleAssumption DEF ApproveSample, IInv, TypeOK, Exists
    <3>2. order'[o].deliveryDate = order[o].deliveryDate
      BY <2>7, <3>1 DEF ApproveSample, IInv, TypeOK, Row
    <3>3. MilestonesOf(o)' = MilestonesOf(o) /\ overtaken' = overtaken
      BY <2>7 DEF ApproveSample, MilestonesOf
    <3>4. QED
      BY <2>2, <3>2, <3>3
  <2>8. CASE UNCHANGED <<order, milestones, overtaken>>
    BY <2>2, <2>8 DEF MilestonesOf
  <2>9. QED
    BY <2>3, <2>4, <2>5, <2>6, <2>7, <2>8
       DEF Next, vars, CreateSample, ReadForUpdate, ReadForTransition,
           ProductionStarted, ReadForReject, StartedTransition,
           ConfirmConflict, AnnounceConfirmed, AnnounceSample, RejectSample,
           Crash
<1>3. QED
  BY <1>1, <1>2, Inductive, PTL DEF Spec

\* FollowsStateMachine: the transition a request carries is legal for the row
\* it read, and the row is that one unless the request has been overtaken.
THEOREM FollowsStateMachineSafe == Spec => FollowsStateMachine
<1>1. ASSUME IInv, [Next]_vars, NEW o \in Orders, Exists(o),
             order'[o].status # order[o].status
      PROVE  overtaken'[o] \/ CanTransition(order[o], order'[o].status)
  <2>1. ASSUME NEW p \in Orders, CreateOrder(p) PROVE FALSE
    BY <1>1, <2>1 DEF CreateOrder, IInv, TypeOK
  <2>2. ASSUME NEW c \in Clients, WriteUpdate(c) PROVE FALSE
    BY <1>1, <2>2, FreshUpdate
  <2>3. ASSUME NEW c \in Clients, NEW s \in Samples, ApproveSample(c, s) PROVE FALSE
    <3>1. SampleOrder[s] \in Orders /\ order[SampleOrder[s]] \in Row
      BY <1>1, <2>3, SampleAssumption DEF ApproveSample, IInv, TypeOK, Exists
    <3>2. QED
      BY <1>1, <2>3, <3>1 DEF ApproveSample, IInv, TypeOK, Row
  <2>4. ASSUME NEW c \in Clients, WriteTransition(c)
        PROVE  overtaken'[o] \/ CanTransition(order[o], order'[o].status)
    <3>1. PICK p \in Orders :
            /\ p = req[c].order
            /\ order' = [order EXCEPT ![p].status = req[c].to]
            /\ order'[p].status = req[c].to
            /\ CanTransition(req[c].seen, req[c].to)
      BY <1>1, <2>4, TransitionWrites
    <3>2. o = p
      BY <1>1, <3>1 DEF IInv, TypeOK
    <3>3. overtaken'[o] = (overtaken[o] \/ order[o] # req[c].seen)
      BY <1>1, <2>4, <3>1, <3>2 DEF WriteTransition, MarkOvertaken, IInv, TypeOK
    <3>4. QED
      BY <3>1, <3>2, <3>3
  <2>5. ASSUME NEW c \in Clients, Confirm(c)
        PROVE  overtaken'[o] \/ CanTransition(order[o], order'[o].status)
    <3>1. PICK p \in Orders :
            /\ p = req[c].order
            /\ order[p] \in Row
            /\ order' = [order EXCEPT ![p].status = "confirmed"]
      BY <1>1, <2>5, ConfirmPlans DEF IInv
    <3>2. o = p /\ order'[o].status = "confirmed"
      BY <1>1, <3>1 DEF IInv, TypeOK, Row
    <3>3. overtaken'[o] = (overtaken[o] \/ order[o] # req[c].seen)
      BY <1>1, <2>5, <3>1, <3>2 DEF Confirm, MarkOvertaken, IInv, TypeOK
    <3>4. CanTransition(req[c].seen, "confirmed")
      BY <1>1, <2>5 DEF Confirm, Confirms, IInv, RequestInv, RequestOK
    <3>5. QED
      BY <3>2, <3>3, <3>4
  <2>6. CASE UNCHANGED order
    BY <1>1, <2>6
  <2>7. QED
    BY <1>1, <2>1, <2>2, <2>3, <2>4, <2>5, <2>6
       DEF Next, vars, CreateSample, ReadForUpdate, ReadForTransition,
           ProductionStarted, ReadForReject, StartedTransition,
           ConfirmConflict, AnnounceConfirmed, AnnounceSample, RejectSample,
           Crash
<1>2. IInv /\ [Next]_vars =>
          [\A o \in Orders :
              Exists(o) /\ order'[o].status # order[o].status =>
                  overtaken'[o] \/ CanTransition(order[o], order'[o].status)]_vars
  BY <1>1
<1>3. QED
  BY <1>2, Inductive, PTL DEF Spec, FollowsStateMachine

-----------------------------------------------------------------------------
\* A transition that finds the row it read passes the sample gate: into
\* production only from an approved sample, further on only from production.
LEMMA FreshTransition ==
    ASSUME NEW row \in Row, NEW to \in Produced, CanTransition(row, to)
    PROVE  row.sampleApproved \/ row.status \in Produced
<1>1. row.status \in OrderStatus
  BY DEF Row
<1>2. row.status \in Produced \cup {"confirmed"}
  BY <1>1 DEF CanTransition, STATUS_TRANSITIONS, OrderStatus, Produced
<1>3. row.status = "confirmed" => to = "in_production"
  BY DEF CanTransition, STATUS_TRANSITIONS, Produced
<1>4. QED
  BY <1>2, <1>3 DEF CanTransition

\* ProductionNeedsConfirmation: RowInv gives the milestones; the sample stays
\* approved because only an update can withdraw it, and an update that finds
\* the row it read finds a draft.
THEOREM ProductionNeedsConfirmationSafe == Spec => []ProductionNeedsConfirmation
<1> DEFINE Gate(o) ==
      order[o].status \in Produced /\ ~ overtaken[o] => order[o].sampleApproved
<1>1. Init => \A o \in Orders : Gate(o)
  BY DEF Init, NoRow, Produced
<1>2. IInv /\ (\A o \in Orders : Gate(o)) /\ [Next]_vars => (\A o \in Orders : Gate(o))'
  <2> SUFFICES ASSUME IInv, \A o \in Orders : Gate(o), [Next]_vars, NEW o \in Orders,
                      order'[o].status \in Produced, ~ overtaken'[o]
               PROVE  order'[o].sampleApproved
    OBVIOUS
  <2>1. order[o].status \in Produced /\ ~ overtaken[o] => order[o].sampleApproved
    OBVIOUS
  <2>2. CASE order'[o] = order[o] /\ (overtaken[o] => overtaken'[o])
    BY <2>1, <2>2
  <2>3. ASSUME NEW p \in Orders, CreateOrder(p) PROVE order'[o].sampleApproved
    <3>1. o # p
      BY <2>3 DEF CreateOrder, IInv, TypeOK, Produced
    <3>2. QED
      BY <2>2, <2>3, <3>1 DEF CreateOrder, IInv, TypeOK
  <2>4. ASSUME NEW c \in Clients, WriteUpdate(c) PROVE order'[o].sampleApproved
    <3>1. PICK p \in Orders :
            /\ \A q \in Orders \ {p} :
                  order'[q] = order[q] /\ overtaken'[q] = overtaken[q]
            /\ order'[p].status = order[p].status
            /\ ~ overtaken'[p] => order[p].status = "draft"
      BY <2>4, FreshUpdate
    <3>2. o # p
      BY <3>1 DEF Produced
    <3>3. QED
      BY <2>2, <3>1, <3>2
  <2>5. ASSUME NEW c \in Clients, NEW s \in Samples, ApproveSample(c, s)
        PROVE  order'[o].sampleApproved
    <3>1. SampleOrder[s] \in Orders /\ order[SampleOrder[s]] \in Row
      BY <2>5, SampleAssumption DEF ApproveSample, IInv, TypeOK, Exists
    <3>2. CASE o = SampleOrder[s]
      BY <2>5, <3>1, <3>2 DEF ApproveSample, IInv, TypeOK, Row
    <3>3. CASE o # SampleOrder[s]
      BY <2>2, <2>5, <3>1, <3>3 DEF ApproveSample, IInv, TypeOK
    <3>4. QED
      BY <3>2, <3>3
  <2>6. ASSUME NEW c \in Clients, WriteTransition(c) PROVE order'[o].sampleApproved
    <3>1. PICK p \in Orders :
            /\ p = req[c].order
            /\ order[p] \in Row
            /\ order' = [order EXCEPT ![p].status = req[c].to]
            /\ order'[p].status = req[c].to
            /\ CanTransition(req[c].seen, req[c].to)
      BY <2>6, TransitionWrites
    <3>2. overtaken' = [overtaken EXCEPT ![p] = overtaken[p] \/ order[p] # req[c].seen]
      BY <2>6, <3>1 DEF WriteTransition, MarkOvertaken
    <3>3. CASE o # p
      BY <2>2, <3>1, <3>2, <3>3 DEF IInv, TypeOK
    <3>4. CASE o = p
      <4>1. ~ overtaken[o] /\ order[o] = req[c].seen
        BY <3>2, <3>4 DEF IInv, TypeOK
      <4>2. order[o].sampleApproved \/ order[o].status \in Produced
        BY <3>1, <3>4, <4>1, FreshTransition
      <4>3. order'[o].sampleApproved = order[o].sampleApproved
        BY <3>1, <3>4 DEF IInv, TypeOK, Row
      <4>4. QED
        BY <2>1, <4>1, <4>2, <4>3
    <3>5. QED
      BY <3>3, <3>4
  <2>7. ASSUME NEW c \in Clients, Confirm(c) PROVE order'[o].sampleApproved
    <3>1. PICK p \in Orders :
            /\ p = req[c].order
            /\ order[p] \in Row
            /\ order' = [order EXCEPT ![p].status = "confirmed"]
      BY <2>7, ConfirmPlans DEF IInv
    <3>2. o # p
      BY <3>1 DEF IInv, TypeOK, Row, Produced
    <3>3. overtaken[o] => overtaken'[o]
      BY <2>7 DEF Confirm, MarkOvertaken, IInv, TypeOK
    <3>4. QED
      BY <2>2, <3>1, <3>2, <3>3 DEF IInv, TypeOK
  <2>8. CASE UNCHANGED <<order, overtaken>>
    BY <2>2, <2>8
  <2>9. QED
    BY <2>3, <2>4, <2>5, <2>6, <2>7, <2>8
       DEF Next, vars, CreateSample, ReadForUpdate, ReadForTransition,
           ProductionStarted, ReadForReject, StartedTransition,
           ConfirmConflict, AnnounceConfirmed, AnnounceSample, RejectSample,
           Crash
<1>3. IInv /\ (\A o \in Orders : Gate(o)) => ProductionNeedsConfirmation
  BY DEF IInv, RowInv, ProductionNeedsConfirmation
<1>4. QED
  BY <1>1, <1>2, <1>3, Inductive, PTL DEF Spec

=============================================================================
