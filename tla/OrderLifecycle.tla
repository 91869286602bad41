--------------------------- MODULE OrderLifecycle ---------------------------
(***************************************************************************)
(* Sales orders, their milestones and their samples: OrdersService,        *)
(* SamplesService, the state machine in order-state-machine.ts and the     *)
(* handler of production.started.                                          *)
(*                                                                         *)
(* Every handler awaits between its reads and its writes, so a request is  *)
(* a small process: one action reads the rows and validates, a later one   *)
(* writes.  The write is an unconditional UPDATE ... WHERE id = $1: it does *)
(* not look at the row again.  A transaction is one action, because its    *)
(* first statement locks the order row until it commits.                   *)
(***************************************************************************)
EXTENDS Integers

CONSTANTS
    Clients,      \* requests and event handlers running at the same time
    Orders,
    Samples,
    SampleOrder,  \* SampleOrder[s]: the order a sample belongs to
    Dates,        \* delivery dates, in days
    Keep          \* a field the update request leaves alone

ASSUME SampleAssumption == SampleOrder \in [Samples -> Orders]
ASSUME DateAssumption == Dates \subseteq Int

VARIABLES
    order,           \* ord.orders
    milestones,      \* ord.order_milestones
    approval,        \* ord.samples.approval_status
    req,             \* what each running request has read and is about to do
    announced,       \* order.confirmed events emitted, per order
    approvalEvents,  \* samples with a sample.approved event
    overtaken        \* history: a request wrote over a row that had changed
                     \* since the request read it

vars == <<order, milestones, approval, req, announced, approvalEvents, overtaken>>

OrderStatus ==
    {"draft", "confirmed", "in_production", "qc", "packed", "delivered",
     "cancelled"}

\* STATUS_TRANSITIONS: the states a status may move to.
STATUS_TRANSITIONS ==
    [draft         |-> {"confirmed", "cancelled"},
     confirmed     |-> {"in_production", "cancelled"},
     in_production |-> {"qc"},
     qc            |-> {"packed"},
     packed        |-> {"delivered"},
     delivered     |-> {},
     cancelled     |-> {}]

\* Mutant: validateTransition without the sample gate.
CanTransitionUngated(row, to) == to \in STATUS_TRANSITIONS[row.status]

\* validateTransition(from, to, sampleApproved): the map and the sample gate.
CanTransition(row, to) ==
    /\ to \in STATUS_TRANSITIONS[row.status]
    /\ row.status = "confirmed" /\ to = "in_production" => row.sampleApproved

\* The *_LEAD_DAYS constants, by the milestone they plan.
LeadDays ==
    [material_booking |-> 90, pp_sample |-> 75, bulk_start |-> 60,
     qc |-> 21, packing |-> 14, shipment |-> 7]

MilestoneTypes == DOMAIN LeadDays

\* The six rows generateMilestonesInTx inserts.
Plan(o, date) ==
    {[order |-> o, type |-> m, planned |-> date - LeadDays[m]] :
        m \in MilestoneTypes}

MilestonesOf(o) == {r \in milestones : r.order = o}

NoRow == [status |-> "none"]

Row == [status : OrderStatus, sampleApproved : BOOLEAN, deliveryDate : Dates]

Exists(o) == order[o] # NoRow

Idle == [kind |-> "idle"]

\* A write of request c to order o, whose row the request read as seen.
MarkOvertaken(o, seen) ==
    overtaken' = [overtaken EXCEPT ![o] = @ \/ order[o] # seen]

-----------------------------------------------------------------------------
Init ==
    /\ order = [o \in Orders |-> NoRow]
    /\ milestones = {}
    /\ approval = [s \in Samples |-> "none"]
    /\ req = [c \in Clients |-> Idle]
    /\ announced = [o \in Orders |-> 0]
    /\ approvalEvents = {}
    /\ overtaken = [o \in Orders |-> FALSE]

\* create: one transaction, always in draft.
CreateOrder(o) ==
    /\ ~ Exists(o)
    /\ \E d \in Dates :
        order' = [order EXCEPT ![o] =
            [status |-> "draft", sampleApproved |-> FALSE, deliveryDate |-> d]]
    /\ UNCHANGED <<milestones, approval, req, announced, approvalEvents, overtaken>>

\* Mutant: update accepts an order in any status.
ReadForUpdateAnyStatus(c, o) ==
    /\ req[c] = Idle
    /\ Exists(o)
    /\ \E d \in Dates \cup {Keep}, a \in BOOLEAN \cup {Keep} :
        req' = [req EXCEPT ![c] =
            [kind |-> "update", order |-> o, seen |-> order[o],
             deliveryDate |-> d, sampleApproved |-> a]]
    /\ UNCHANGED <<order, milestones, approval, announced, approvalEvents, overtaken>>

\* update, up to its last await: only draft orders can be edited.
ReadForUpdate(c, o) ==
    /\ req[c] = Idle
    /\ order[o].status = "draft"
    /\ \E d \in Dates \cup {Keep}, a \in BOOLEAN \cup {Keep} :
        req' = [req EXCEPT ![c] =
            [kind |-> "update", order |-> o, seen |-> order[o],
             deliveryDate |-> d, sampleApproved |-> a]]
    /\ UNCHANGED <<order, milestones, approval, announced, approvalEvents, overtaken>>

\* Mutant: an absent field is written as undefined.
PatchedAlways(field, value) == field

\* A field of an update request, or the row's own value when it is absent.
Patched(field, value) == IF field = Keep THEN value ELSE field

\* update's prisma.order.update.
WriteUpdate(c) ==
    /\ req[c].kind = "update"
    /\ LET o == req[c].order IN
        /\ order' = [order EXCEPT ![o] =
               [status |-> order[o].status,
                sampleApproved |->
                    Patched(req[c].sampleApproved, order[o].sampleApproved),
                deliveryDate |->
                    Patched(req[c].deliveryDate, order[o].deliveryDate)]]
        /\ MarkOvertaken(o, req[c].seen)
    /\ req' = [req EXCEPT ![c] = Idle]
    /\ UNCHANGED <<milestones, approval, announced, approvalEvents>>

\* transitionStatus up to validateTransition, for a user or for the handler
\* of production.completed, which asks for qc.
ReadForTransition(c, o, to) ==
    /\ req[c] = Idle
    /\ Exists(o)
    /\ CanTransition(order[o], to)
    /\ req' = [req EXCEPT ![c] =
           [kind |-> "transition", order |-> o, seen |-> order[o], to |-> to]]
    /\ UNCHANGED <<order, milestones, approval, announced, approvalEvents, overtaken>>

\* ProductionStartedHandler.handle: its own read and checks, then a call of
\* transitionStatus, which reads the row once more.
ProductionStarted(c, o) ==
    /\ req[c] = Idle
    /\ Exists(o)
    /\ order[o].status = "confirmed" /\ order[o].sampleApproved
    /\ req' = [req EXCEPT ![c] = [kind |-> "started", order |-> o]]
    /\ UNCHANGED <<order, milestones, approval, announced, approvalEvents, overtaken>>

\* Mutant: the handler relies on its own check and skips validateTransition.
StartedTransitionUnvalidated(c) ==
    /\ req[c].kind = "started"
    /\ req' = [req EXCEPT ![c] =
           [kind |-> "transition", order |-> req[c].order,
            seen |-> order[req[c].order], to |-> "in_production"]]
    /\ UNCHANGED <<order, milestones, approval, announced, approvalEvents, overtaken>>

\* The handler's transitionStatus reads and validates; an error is swallowed.
StartedTransition(c) ==
    /\ req[c].kind = "started"
    /\ LET o == req[c].order IN
        req' = [req EXCEPT ![c] =
            IF CanTransition(order[o], "in_production")
              THEN [kind |-> "transition", order |-> o, seen |-> order[o],
                    to |-> "in_production"]
              ELSE Idle]
    /\ UNCHANGED <<order, milestones, approval, announced, approvalEvents, overtaken>>

Confirms(c) ==
    req[c].kind = "transition" /\ req[c].seen.status = "draft" /\ req[c].to = "confirmed"

\* Mutant: the milestones are inserted without UNIQUE(order_id, milestone_type).
ConfirmTwice(c) ==
    /\ Confirms(c)
    /\ LET o == req[c].order IN
        /\ order' = [order EXCEPT ![o].status = "confirmed"]
        /\ milestones' = milestones \cup Plan(o, order[o].deliveryDate)
        /\ MarkOvertaken(o, req[c].seen)
        /\ req' = [req EXCEPT ![c] = [kind |-> "announce", order |-> o]]
    /\ UNCHANGED <<approval, announced, approvalEvents>>

\* Mutant: the shipment milestone is forgotten.
ConfirmFiveMilestones(c) ==
    /\ Confirms(c)
    /\ LET o == req[c].order IN
        /\ MilestonesOf(o) = {}
        /\ milestones' = milestones \cup
               {r \in Plan(o, order[o].deliveryDate) : r.type # "shipment"}
        /\ order' = [order EXCEPT ![o].status = "confirmed"]
        /\ MarkOvertaken(o, req[c].seen)
        /\ req' = [req EXCEPT ![c] = [kind |-> "announce", order |-> o]]
    /\ UNCHANGED <<approval, announced, approvalEvents>>

\* draft -> confirmed: the transaction sets the status and inserts the six
\* milestones, planned from the date it finds in the row.
Confirm(c) ==
    /\ Confirms(c)
    /\ LET o == req[c].order IN
        /\ MilestonesOf(o) = {}
        /\ order' = [order EXCEPT ![o].status = "confirmed"]
        /\ milestones' = milestones \cup Plan(o, order[o].deliveryDate)
        /\ MarkOvertaken(o, req[c].seen)
        /\ req' = [req EXCEPT ![c] = [kind |-> "announce", order |-> o]]
    /\ UNCHANGED <<approval, announced, approvalEvents>>

\* UNIQUE(order_id, milestone_type) fails: the whole transaction rolls back.
ConfirmConflict(c) ==
    /\ Confirms(c)
    /\ MilestonesOf(req[c].order) # {}
    /\ req' = [req EXCEPT ![c] = Idle]
    /\ UNCHANGED <<order, milestones, approval, announced, approvalEvents, overtaken>>

\* order.confirmed is emitted after the transaction has committed.
AnnounceConfirmed(c) ==
    /\ req[c].kind = "announce"
    /\ announced' = [announced EXCEPT ![req[c].order] = @ + 1]
    /\ req' = [req EXCEPT ![c] = Idle]
    /\ UNCHANGED <<order, milestones, approval, approvalEvents, overtaken>>

\* Cancellation and all other transitions: a plain update of the status.
WriteTransition(c) ==
    /\ req[c].kind = "transition"
    /\ ~ Confirms(c)
    /\ LET o == req[c].order IN
        /\ order' = [order EXCEPT ![o].status = req[c].to]
        /\ MarkOvertaken(o, req[c].seen)
    /\ req' = [req EXCEPT ![c] = Idle]
    /\ UNCHANGED <<milestones, approval, announced, approvalEvents>>

\* SamplesService.create, for an order that exists.
CreateSample(s) ==
    /\ Exists(SampleOrder[s])
    /\ approval[s] = "none"
    /\ approval' = [approval EXCEPT ![s] = "pending"]
    /\ UNCHANGED <<order, milestones, req, announced, approvalEvents, overtaken>>

\* approveSample: the sample and orders.sample_approved in one transaction,
\* whatever the sample's status was; the event follows.
ApproveSample(c, s) ==
    /\ req[c] = Idle
    /\ approval[s] # "none"
    /\ approval' = [approval EXCEPT ![s] = "approved"]
    /\ order' = [order EXCEPT ![SampleOrder[s]].sampleApproved = TRUE]
    /\ req' = [req EXCEPT ![c] = [kind |-> "announceSample", sample |-> s]]
    /\ UNCHANGED <<milestones, announced, approvalEvents, overtaken>>

AnnounceSample(c) ==
    /\ req[c].kind = "announceSample"
    /\ approvalEvents' = approvalEvents \cup {req[c].sample}
    /\ req' = [req EXCEPT ![c] = Idle]
    /\ UNCHANGED <<order, milestones, approval, announced, overtaken>>

\* rejectSample: only pending samples, checked before the write.
ReadForReject(c, s) ==
    /\ req[c] = Idle
    /\ approval[s] = "pending"
    /\ req' = [req EXCEPT ![c] = [kind |-> "reject", sample |-> s]]
    /\ UNCHANGED <<order, milestones, approval, announced, approvalEvents, overtaken>>

RejectSample(c) ==
    /\ req[c].kind = "reject"
    /\ approval' = [approval EXCEPT ![req[c].sample] = "rejected"]
    /\ req' = [req EXCEPT ![c] = Idle]
    /\ UNCHANGED <<order, milestones, announced, approvalEvents, overtaken>>

\* The process dies or the connection is lost between two awaits.
Crash(c) ==
    /\ req[c] # Idle
    /\ req' = [req EXCEPT ![c] = Idle]
    /\ UNCHANGED <<order, milestones, approval, announced, approvalEvents, overtaken>>

Next ==
    \/ \E o \in Orders : CreateOrder(o)
    \/ \E s \in Samples : CreateSample(s)
    \/ \E c \in Clients :
        \/ \E o \in Orders :
            \/ ReadForUpdate(c, o)
            \/ \E to \in OrderStatus : ReadForTransition(c, o, to)
            \/ ProductionStarted(c, o)
        \/ \E s \in Samples : ApproveSample(c, s) \/ ReadForReject(c, s)
        \/ WriteUpdate(c)
        \/ StartedTransition(c)
        \/ Confirm(c)
        \/ ConfirmConflict(c)
        \/ AnnounceConfirmed(c)
        \/ WriteTransition(c)
        \/ AnnounceSample(c)
        \/ RejectSample(c)
        \/ Crash(c)

Spec == Init /\ [][Next]_vars

-----------------------------------------------------------------------------
Request ==
    {Idle}
    \cup [kind : {"update"}, order : Orders, seen : Row,
          deliveryDate : Dates \cup {Keep}, sampleApproved : BOOLEAN \cup {Keep}]
    \cup [kind : {"transition"}, order : Orders, seen : Row, to : OrderStatus]
    \cup [kind : {"started", "announce"}, order : Orders]
    \cup [kind : {"announceSample", "reject"}, sample : Samples]

\* Rows, requests and events have the shape of the schema and the DTOs, and a
\* running request refers to rows that exist.
TypeOK ==
    /\ order \in [Orders -> Row \cup {NoRow}]
    /\ milestones \subseteq [order : Orders, type : MilestoneTypes, planned : Int]
    /\ approval \in [Samples -> {"none", "pending", "approved", "rejected"}]
    /\ req \in [Clients -> Request]
    /\ announced \in [Orders -> Nat]
    /\ approvalEvents \subseteq Samples
    /\ overtaken \in [Orders -> BOOLEAN]
    /\ \A c \in Clients :
        req[c].kind \in {"update", "transition", "started", "announce"} =>
            Exists(req[c].order)
    /\ \A c \in Clients :
        req[c].kind \in {"announceSample", "reject"} =>
            approval[req[c].sample] # "none"
    /\ \A s \in Samples : approval[s] # "none" => Exists(SampleOrder[s])

Produced == {"in_production", "qc", "packed", "delivered"}

Announcing(o) ==
    {c \in Clients : req[c].kind = "announce" /\ req[c].order = o}

\* However many requests confirm one order at once, order.confirmed is
\* emitted at most once, and only when the transaction that inserted the six
\* milestones has committed.
AnnouncedOnce ==
    \A o \in Orders :
        /\ announced[o] \in {0, 1}
        /\ announced[o] = 1 => Announcing(o) = {}
        /\ \A c, d \in Announcing(o) : c = d
        /\ announced[o] = 1 \/ Announcing(o) # {} => MilestonesOf(o) # {}

\* The milestones of an order are all there or not there at all, and they are
\* planned from one delivery date.
MilestonesComplete ==
    \A o \in Orders :
        MilestonesOf(o) # {} => \E d \in Dates : MilestonesOf(o) = Plan(o, d)

\* No order is produced, inspected, packed or delivered that was not
\* confirmed; and while no request overwrote what it had not seen, its sample
\* is approved.
ProductionNeedsConfirmation ==
    \A o \in Orders : order[o].status \in Produced =>
        /\ MilestonesOf(o) # {}
        /\ ~ overtaken[o] => order[o].sampleApproved

\* "planned_date for each milestone is back-calculated from delivery_date":
\* the delivery date of a confirmed order does not move away from its plan,
\* unless a request overwrote what it had not seen.
PlanFollowsDeliveryDate ==
    \A o \in Orders :
        MilestonesOf(o) # {} /\ ~ overtaken[o] =>
            MilestonesOf(o) = Plan(o, order[o].deliveryDate)

\* A confirmed order that moved on is never put back to confirmed, not even
\* by a confirmation that read the order while it was a draft.
NeverReconfirmed ==
    [][\A o \in Orders :
        MilestonesOf(o) # {} /\ order'[o].status = "confirmed" =>
            order[o].status = "confirmed"]_vars

\* Every change of status is one STATUS_TRANSITIONS lists, with the sample
\* gate open, except by a request that overwrote what it had not seen.
FollowsStateMachine ==
    [][\A o \in Orders :
        Exists(o) /\ order'[o].status # order[o].status =>
            overtaken'[o] \/ CanTransition(order[o], order'[o].status)]_vars

\* order-state-machine.ts: "Terminal states (delivered, cancelled) have empty
\* arrays - no further transitions are allowed."
TerminalStatesAreFinal ==
    [][\A o \in Orders :
        order[o].status \in {"delivered", "cancelled"} =>
            order'[o].status = order[o].status]_vars

=============================================================================
