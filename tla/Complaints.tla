---- MODULE Complaints ----
(***************************************************************************)
(* Complaints and their CAPA actions: ComplaintsService and                *)
(* CapaActionsService.  A complaint is resolved by hand, or by the         *)
(* transaction that sets the last of its actions to done.                  *)
(***************************************************************************)
EXTENDS Requests

CONSTANTS
  ComplaintRows,  \* rows of ord.complaints
  CapaRows,       \* rows of ord.capa_actions
  CapaComplaint   \* the complaint of each action

ASSUME ComplaintsAssumption == CapaComplaint \in [CapaRows -> ComplaintRows]

VARIABLES
  complaint,       \* status of each complaint, and whether its cause is known
  capa,            \* status of each action
  capaReq,         \* the request of each client
  escalated,       \* severe complaints of which management was notified
  resolvedEvents,  \* complaints for which complaint.resolved was emitted
  capaOvertaken    \* complaints written by a request that had seen something old

complaintVars == <<complaint, capa, capaReq, escalated, resolvedEvents, capaOvertaken>>

\* Mutant: a resolved complaint can be reopened.
TransitionsReopening ==
  [open |-> {"under_investigation", "resolved"},
   under_investigation |-> {"resolved"},
   resolved |-> {"under_investigation"}]

ALLOWED_COMPLAINT_TRANSITIONS ==
  [open |-> {"under_investigation", "resolved"},
   under_investigation |-> {"resolved"},
   resolved |-> {}]

ComplaintStatus == DOMAIN ALLOWED_COMPLAINT_TRANSITIONS
CapaStatus == {"open", "in_progress", "done"}

NoComplaint == [status |-> "none", severe |-> FALSE, rootCause |-> FALSE]

ComplaintsInit ==
  /\ complaint = [k \in ComplaintRows |-> NoComplaint]
  /\ capa = [a \in CapaRows |-> "none"]
  /\ capaReq = [c \in Clients |-> Idle]
  /\ escalated = {}
  /\ resolvedEvents = {}
  /\ capaOvertaken = {}

\* A request of client c on a complaint or an action starts; `to` is the status it
\* sets, or the severity it reports.
StartCapaRequest(c, op, row, to) ==
  /\ capaReq[c] = Idle
  /\ capaReq' = [capaReq EXCEPT ![c] =
       [op |-> op, row |-> row, to |-> to, all |-> FALSE, stale |-> FALSE]]

EndCapaRequest(c) == capaReq' = [capaReq EXCEPT ![c] = Idle]

\* create: the complaint is inserted in a transaction, which stays open while
\* notifyRole stores the notifications of a severe one with statements of its own.
InsertComplaint(c) ==
  /\ \E k \in ComplaintRows, s \in {"mild", "severe"} :
       /\ complaint[k] = NoComplaint
       /\ \A d \in Clients : capaReq[d].row # k
       /\ StartCapaRequest(c, "raise", k, s)
       /\ escalated' = IF s = "severe" THEN escalated \cup {k} ELSE escalated
  /\ UNCHANGED <<complaint, capa, resolvedEvents, capaOvertaken>>

CommitComplaint(c) ==
  /\ capaReq[c].op = "raise"
  /\ complaint' = [complaint EXCEPT ![capaReq[c].row] =
       [NoComplaint EXCEPT !.status = "open", !.severe = capaReq[c].to = "severe"]]
  /\ EndCapaRequest(c)
  /\ UNCHANGED <<capa, escalated, resolvedEvents, capaOvertaken>>

\* updateRootCause and updateStatus read the complaint and check its status.
ReadComplaint(c) ==
  /\ \E k \in ComplaintRows :
       /\ complaint[k] # NoComplaint
       /\ \/ complaint[k].status # "resolved" /\ StartCapaRequest(c, "rootCause", k, "none")
          \/ \E to \in ALLOWED_COMPLAINT_TRANSITIONS[complaint[k].status] :
               StartCapaRequest(c, "status", k, to)
  /\ UNCHANGED <<complaint, capa, escalated, resolvedEvents, capaOvertaken>>

\* Request c changes complaint k: whoever has read it has now seen something old.
WriteComplaint(c, k, next, new) ==
  /\ complaint' = [complaint EXCEPT ![k] = new]
  /\ capaReq' = Overtake(capaReq, c, next, LAMBDA d : capaReq[d].row = k)
  /\ capaOvertaken' = IF capaReq[c].stale THEN capaOvertaken \cup {k} ELSE capaOvertaken
  /\ UNCHANGED <<capa, escalated, resolvedEvents>>

SetRootCause(c) ==
  /\ capaReq[c].op = "rootCause"
  /\ LET k == capaReq[c].row IN WriteComplaint(c, k, Idle, [complaint[k] EXCEPT !.rootCause = TRUE])

\* A request that resolved complaint k has still to emit complaint.resolved.
Resolving(k) == [op |-> "resolved", row |-> k, to |-> "resolved", all |-> TRUE, stale |-> FALSE]

SetComplaintStatus(c) ==
  /\ capaReq[c].op = "status"
  /\ LET k == capaReq[c].row
         to == capaReq[c].to
     IN WriteComplaint(c, k, IF to = "resolved" THEN Resolving(k) ELSE Idle,
                       [complaint[k] EXCEPT !.status = to])

EmitResolved(c) ==
  /\ capaReq[c].op = "resolved"
  /\ resolvedEvents' = resolvedEvents \cup {capaReq[c].row}
  /\ EndCapaRequest(c)
  /\ UNCHANGED <<complaint, capa, escalated, capaOvertaken>>

\* create of an action: the complaint is read, and must not be resolved.  An update
\* of an action changes texts and its owner only.
ReadComplaintOfCapa(c) ==
  /\ \E a \in CapaRows :
       /\ capa[a] = "none"
       /\ \A d \in Clients : capaReq[d].row # a
       /\ complaint[CapaComplaint[a]].status \in {"open", "under_investigation"}
       /\ StartCapaRequest(c, "add", a, "open")
  /\ UNCHANGED <<complaint, capa, escalated, resolvedEvents, capaOvertaken>>

CapasOf(k) == {a \in CapaRows : CapaComplaint[a] = k /\ capa[a] # "none"}

\* A transaction of updateStatus that has counted the actions of complaint k.
Counting(d, k) == capaReq[d].op = "count" /\ CapaComplaint[capaReq[d].row] = k

InsertCapa(c) ==
  /\ capaReq[c].op = "add"
  /\ LET a == capaReq[c].row
     IN /\ capa' = [capa EXCEPT ![a] = "open"]
        /\ capaReq' = Overtake(capaReq, c, Idle, LAMBDA d : Counting(d, CapaComplaint[a]))
  /\ UNCHANGED <<complaint, escalated, resolvedEvents, capaOvertaken>>

\* Mutant: the counts run outside of the transaction and miss its own update.
AllDoneOutside(a, to) == \A b \in CapasOf(CapaComplaint[a]) : capa[b] = "done"

\* The two counts of updateStatus: the transaction sees its own update of action a
\* and what others have committed.
AllDone(a, to) ==
  \A b \in CapasOf(CapaComplaint[a]) : (IF b = a THEN to ELSE capa[b]) = "done"

\* updateStatus updates the action, whose row it locks, and counts.  It checks no
\* status: an action that is done can be set again.
CountCapas(c) ==
  /\ capaReq[c] = Idle
  /\ \E a \in CapaRows, to \in CapaStatus :
       /\ capa[a] # "none"
       /\ \A d \in Clients : ~(capaReq[d].op = "count" /\ capaReq[d].row = a)
       /\ capaReq' = [capaReq EXCEPT ![c] =
            [op |-> "count", row |-> a, to |-> to, all |-> AllDone(a, to), stale |-> FALSE]]
  /\ UNCHANGED <<complaint, capa, escalated, resolvedEvents, capaOvertaken>>

\* The commit of updateStatus: the action and, if all were done, the complaint.
CommitCapa(c) ==
  /\ capaReq[c].op = "count"
  /\ LET r == capaReq[c]
         k == CapaComplaint[r.row]
     IN /\ capa' = [capa EXCEPT ![r.row] = r.to]
        /\ complaint' = IF r.all THEN [complaint EXCEPT ![k].status = "resolved"] ELSE complaint
        /\ capaReq' = Overtake(capaReq, c, IF r.all THEN Resolving(k) ELSE Idle,
                               LAMBDA d : Counting(d, k) \/ (r.all /\ capaReq[d].row = k))
        /\ capaOvertaken' = IF r.stale THEN capaOvertaken \cup {k} ELSE capaOvertaken
  /\ UNCHANGED <<escalated, resolvedEvents>>

\* A transaction is rolled back, or the process of a request dies.
DropCapaRequest(c) ==
  /\ capaReq[c] # Idle
  /\ EndCapaRequest(c)
  /\ UNCHANGED <<complaint, capa, escalated, resolvedEvents, capaOvertaken>>

ComplaintsNext ==
  \E c \in Clients :
    \/ InsertComplaint(c)
    \/ CommitComplaint(c)
    \/ ReadComplaint(c)
    \/ SetRootCause(c)
    \/ SetComplaintStatus(c)
    \/ EmitResolved(c)
    \/ ReadComplaintOfCapa(c)
    \/ InsertCapa(c)
    \/ CountCapas(c)
    \/ CommitCapa(c)
    \/ DropCapaRequest(c)

ComplaintsSpec == ComplaintsInit /\ [][ComplaintsNext]_complaintVars

\* Types, and: management was notified of every severe complaint.
ComplaintsTypeOK ==
  /\ complaint \in [ComplaintRows -> [status : ComplaintStatus \cup {"none"},
                                      severe : BOOLEAN, rootCause : BOOLEAN]]
  /\ capa \in [CapaRows -> CapaStatus \cup {"none"}]
  /\ \A c \in Clients :
       \/ capaReq[c] = Idle
       \/ capaReq[c] \in
            [op : {"raise", "rootCause", "status", "resolved"}, row : ComplaintRows,
             to : ComplaintStatus \cup {"none", "mild", "severe"}, all : BOOLEAN, stale : BOOLEAN]
       \/ capaReq[c] \in [op : {"add", "count"}, row : CapaRows, to : CapaStatus,
                          all : BOOLEAN, stale : BOOLEAN]
  /\ resolvedEvents \subseteq ComplaintRows
  /\ capaOvertaken \subseteq ComplaintRows
  /\ \A k \in ComplaintRows : complaint[k].severe => k \in escalated

\* A complaint whose actions are all done is resolved, unless a transaction that
\* had counted them was overtaken: of two that set the last two actions to done,
\* neither sees the other (capa-actions.service.ts, updateStatus).
AllDoneResolves ==
  \A k \in ComplaintRows :
    /\ CapasOf(k) # {}
    /\ \A a \in CapasOf(k) : capa[a] = "done"
    => complaint[k].status = "resolved" \/ k \in capaOvertaken

\* complaint.resolved is emitted for complaints that stay resolved, unless a manual
\* status change wrote over the resolution it had not seen (updateStatus).
ResolvedAsAnnounced ==
  \A k \in resolvedEvents : complaint[k].status = "resolved" \/ k \in capaOvertaken
====
