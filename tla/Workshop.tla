---- MODULE Workshop ----
(***************************************************************************)
(* Machines and their maintenance (MachinesService) and the disposal of    *)
(* scrap (ScrapService).  Opening a maintenance and marking the machine,   *)
(* and closing the last one and releasing it, are separate commits.        *)
(***************************************************************************)
EXTENDS Requests

CONSTANTS
  Maintenances,  \* rows of mfg.machine_maintenance of one machine
  Scrap,         \* rows of mfg.scrap_records
  Approvers      \* who may authorise a disposal

ASSUME WorkshopAssumption == Approvers \cap {"none", "waiting"} = {}

VARIABLES
  machine,      \* status of the machine
  maintenance,  \* none, open or closed
  disposal,     \* who authorised the disposal of each scrap record
  workshopReq,  \* the request of each client
  machineStale, \* the status was set by hand, a request stopped halfway, or a count was old
  scrapStale    \* scrap records authorised by a request that had read an old one

workshopVars == <<machine, maintenance, disposal, workshopReq, machineStale, scrapStale>>

MachineStatus == {"active", "under_maintenance", "breakdown", "retired"}

WorkshopInit ==
  /\ machine = "none"
  /\ maintenance = [m \in Maintenances |-> "none"]
  /\ disposal = [s \in Scrap |-> "none"]
  /\ workshopReq = [c \in Clients |-> Idle]
  /\ machineStale = FALSE
  /\ scrapStale = {}

\* create; the unique index refuses a code that exists.
CreateMachine ==
  /\ machine = "none"
  /\ machine' = "active"
  /\ UNCHANGED <<maintenance, disposal, workshopReq, machineStale, scrapStale>>

\* update sets any status, whatever maintenance is open.
UpdateMachine ==
  /\ machine # "none"
  /\ \E status \in MachineStatus \ {machine} : machine' = status
  /\ machineStale' = TRUE
  /\ UNCHANGED <<maintenance, disposal, workshopReq, scrapStale>>

WorkshopReq(op, row) == [op |-> op, row |-> row, stale |-> FALSE]

CountingOpen(d) == workshopReq[d].op = "release"

\* addMaintenance inserts the row, and then marks the machine.
AddMaintenance(c) ==
  /\ workshopReq[c] = Idle
  /\ machine # "none"
  /\ \E m \in Maintenances :
       /\ maintenance[m] = "none"
       /\ maintenance' = [maintenance EXCEPT ![m] = "open"]
       /\ workshopReq' = Overtake(workshopReq, c, WorkshopReq("mark", m), CountingOpen)
  /\ UNCHANGED <<machine, disposal, machineStale, scrapStale>>

\* The machine is marked, even when its maintenance was closed meanwhile.
MarkMachine(c) ==
  /\ workshopReq[c].op = "mark"
  /\ machine' = "under_maintenance"
  /\ workshopReq' = Overtake(workshopReq, c, Idle, CountingOpen)
  /\ UNCHANGED <<maintenance, disposal, machineStale, scrapStale>>

\* closeMaintenance reads a row that is open, and ends it.
ReadMaintenance(c) ==
  /\ workshopReq[c] = Idle
  /\ \E m \in Maintenances :
       /\ maintenance[m] = "open"
       /\ workshopReq' = [workshopReq EXCEPT ![c] = WorkshopReq("end", m)]
  /\ UNCHANGED <<machine, maintenance, disposal, machineStale, scrapStale>>

EndMaintenance(c) ==
  /\ workshopReq[c].op = "end"
  /\ maintenance' = [maintenance EXCEPT ![workshopReq[c].row] = "closed"]
  /\ workshopReq' = [workshopReq EXCEPT ![c].op = "count"]
  /\ UNCHANGED <<machine, disposal, machineStale, scrapStale>>

\* Mutant: only the row that was closed counts.
NoneOpenHere(m) == maintenance[m] # "open"

\* No maintenance of the machine is open.
NoneOpen(m) == \A n \in Maintenances : maintenance[n] # "open"

\* The open rows are counted, and the machine is released if there is none.
CountOpen(c) ==
  /\ workshopReq[c].op = "count"
  /\ workshopReq' = [workshopReq EXCEPT ![c] =
       IF NoneOpen(workshopReq[c].row) THEN WorkshopReq("release", workshopReq[c].row) ELSE Idle]
  /\ UNCHANGED <<machine, maintenance, disposal, machineStale, scrapStale>>

ReleaseMachine(c) ==
  /\ workshopReq[c].op = "release"
  /\ machine' = "active"
  /\ machineStale' = (machineStale \/ workshopReq[c].stale)
  /\ workshopReq' = [workshopReq EXCEPT ![c] = Idle]
  /\ UNCHANGED <<maintenance, disposal, scrapStale>>

\* ScrapService.create
RecordScrap ==
  /\ \E s \in Scrap :
       /\ disposal[s] = "none"
       /\ disposal' = [disposal EXCEPT ![s] = "waiting"]
  /\ UNCHANGED <<machine, maintenance, workshopReq, machineStale, scrapStale>>

\* Mutant: a disposal may be authorised again.
AwaitsDisposalOrDone(s) == disposal[s] # "none"

\* disposalAuthorisedBy is null.
AwaitsDisposal(s) == disposal[s] = "waiting"

ReadScrap(c) ==
  /\ workshopReq[c] = Idle
  /\ \E s \in Scrap :
       /\ AwaitsDisposal(s)
       /\ workshopReq' = [workshopReq EXCEPT ![c] = WorkshopReq("dispose", s)]
  /\ UNCHANGED <<machine, maintenance, disposal, machineStale, scrapStale>>

\* authorizeDisposal writes by id.
AuthorizeDisposal(c) ==
  /\ workshopReq[c].op = "dispose"
  /\ \E a \in Approvers : disposal' = [disposal EXCEPT ![workshopReq[c].row] = a]
  /\ workshopReq' = Overtake(workshopReq, c, Idle, LAMBDA d : workshopReq[d].row = workshopReq[c].row)
  /\ scrapStale' = IF workshopReq[c].stale THEN scrapStale \cup {workshopReq[c].row} ELSE scrapStale
  /\ UNCHANGED <<machine, maintenance, machineStale>>

DropWorkshopRequest(c) ==
  /\ workshopReq[c] # Idle
  /\ machineStale' = (machineStale \/ workshopReq[c].op \in {"mark", "count", "release"})
  /\ workshopReq' = [workshopReq EXCEPT ![c] = Idle]
  /\ UNCHANGED <<machine, maintenance, disposal, scrapStale>>

WorkshopNext ==
  \/ CreateMachine
  \/ UpdateMachine
  \/ RecordScrap
  \/ \E c \in Clients :
       \/ AddMaintenance(c)
       \/ MarkMachine(c)
       \/ ReadMaintenance(c)
       \/ EndMaintenance(c)
       \/ CountOpen(c)
       \/ ReleaseMachine(c)
       \/ ReadScrap(c)
       \/ AuthorizeDisposal(c)
       \/ DropWorkshopRequest(c)

WorkshopSpec == WorkshopInit /\ [][WorkshopNext]_workshopVars

WorkshopTypeOK ==
  /\ machine \in MachineStatus \cup {"none"}
  /\ maintenance \in [Maintenances -> {"none", "open", "closed"}]
  /\ disposal \in [Scrap -> Approvers \cup {"none", "waiting"}]
  /\ workshopReq \in [Clients -> {Idle} \cup
       [op : {"mark", "end", "count", "release", "dispose"}, row : Maintenances \cup Scrap, stale : BOOLEAN]]
  /\ machineStale \in BOOLEAN
  /\ scrapStale \subseteq Scrap

\* A machine with an open maintenance that nobody is about to mark is not in use, unless
\* its status was set by hand, a request stopped halfway, or a maintenance was opened
\* after another request had counted none (addMaintenance, closeMaintenance).
MaintainedIsMarked ==
  \/ machineStale
  \/ machine # "active"
  \/ \A m \in Maintenances : maintenance[m] = "open" =>
       \E c \in Clients : workshopReq[c].op = "mark" /\ workshopReq[c].row = m

\* The disposal of scrap is authorised once, unless two approvers read the record before
\* either had decided (authorizeDisposal).
DisposalStands ==
  [][\A s \in Scrap \ scrapStale' : disposal[s] \in Approvers => disposal'[s] = disposal[s]]_workshopVars
====
