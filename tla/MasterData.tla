---- MODULE MasterData ----
(***************************************************************************)
(* The rows other documents refer to: buyers, articles, vendors, vendor    *)
(* categories, warehouses, stock items, departments and designations.      *)
(* Their services differ in few things, which Tables lists.                *)
(***************************************************************************)
EXTENDS Requests

CONSTANTS
  MasterRows,  \* rows of all these tables
  RowTable,    \* the table of each
  Codes,       \* unique codes
  Uses,        \* documents that refer to them
  UsedRow      \* the row each document refers to

VARIABLES
  master,          \* state and code of each row
  used,            \* documents: "none", "linked", or "unlinked" from their row
  masterReq,       \* the request of each client
  removedMaster,   \* buyers and articles that were removed and not restored knowingly
  masterOvertaken  \* rows written by a request that had seen something old

masterVars == <<master, used, masterReq, removedMaster, masterOvertaken>>

\* coded: a unique index on a code.  checksCode: the code is looked up before it is
\* written.  removal: `hide` sets deletedAt, after which no operation finds the row;
\* `deactivate` clears isActive; `delete` deletes a row no document uses; `none` has no
\* removal but isActive may be set; `never` has neither.  onDelete:
\* what the foreign key does to the documents of a deleted row.
BuyerTable == [coded |-> FALSE, checksCode |-> FALSE, removal |-> "hide", onDelete |-> "restrict"]

ArticleTable == [coded |-> TRUE, checksCode |-> TRUE, removal |-> "hide", onDelete |-> "restrict"]

VendorTable == [coded |-> TRUE, checksCode |-> FALSE, removal |-> "delete", onDelete |-> "restrict"]

CategoryTable == [coded |-> TRUE, checksCode |-> FALSE, removal |-> "delete", onDelete |-> "unlink"]

WarehouseTable ==
  [coded |-> TRUE, checksCode |-> FALSE, removal |-> "deactivate", onDelete |-> "restrict"]

StockItemTable ==
  [coded |-> TRUE, checksCode |-> FALSE, removal |-> "deactivate", onDelete |-> "restrict"]

DepartmentTable == [coded |-> TRUE, checksCode |-> FALSE, removal |-> "none", onDelete |-> "restrict"]

DesignationTable ==
  [coded |-> TRUE, checksCode |-> FALSE, removal |-> "never", onDelete |-> "restrict"]

Tables ==
  [buyers |-> BuyerTable, articles |-> ArticleTable, vendors |-> VendorTable,
   categories |-> CategoryTable, warehouses |-> WarehouseTable, stockItems |-> StockItemTable,
   departments |-> DepartmentTable, designations |-> DesignationTable]

ASSUME MasterDataAssumption ==
  /\ RowTable \in [MasterRows -> DOMAIN Tables]
  /\ UsedRow \in [Uses -> MasterRows]
  /\ Codes # {}

TableOf(m) == Tables[RowTable[m]]

MasterStates == {"none", "active", "inactive", "removed"}
NoMaster == [state |-> "none", code |-> CHOOSE k \in Codes : TRUE]

MasterDataInit ==
  /\ master = [m \in MasterRows |-> NoMaster]
  /\ used = [u \in Uses |-> "none"]
  /\ masterReq = [c \in Clients |-> Idle]
  /\ removedMaster = {}
  /\ masterOvertaken = {}

\* A row with the code in the table of m, removed rows included.
CodeTaken(m, code) ==
  \E n \in MasterRows \ {m} :
    RowTable[n] = RowTable[m] /\ master[n].state # "none" /\ master[n].code = code

\* What the unique index accepts.
IndexAccepts(m, code) == TableOf(m).coded => ~CodeTaken(m, code)

StartMasterRequest(c, op, row, state, code) ==
  /\ masterReq[c] = Idle
  /\ masterReq' = [masterReq EXCEPT ![c] =
       [op |-> op, row |-> row, state |-> state, code |-> code, stale |-> FALSE]]

\* create, up to the insert.
CheckNewMaster(c) ==
  /\ \E m \in MasterRows, code \in Codes, state \in {"active", "inactive"} :
       /\ master[m].state = "none"
       /\ TableOf(m).removal \in {"hide", "never"} => state = "active"
       /\ TableOf(m).checksCode => ~CodeTaken(m, code)
       /\ StartMasterRequest(c, "create", m, state, code)
  /\ UNCHANGED <<master, used, removedMaster, masterOvertaken>>

CreateMaster(c) ==
  /\ masterReq[c].op = "create"
  /\ LET r == masterReq[c]
     IN /\ master[r.row].state = "none"
        /\ IndexAccepts(r.row, r.code)
        /\ master' = [master EXCEPT ![r.row] = [state |-> r.state, code |-> r.code]]
  /\ masterReq' = [masterReq EXCEPT ![c] = Idle]
  /\ UNCHANGED <<used, removedMaster, masterOvertaken>>

\* Mutant: update finds removed rows.
FoundAny == {"active", "inactive", "removed"}

\* The states in which findOne, and the read of an update or removal, find a row.
Found == {"active", "inactive"}

\* The state an update or removal leads to, if it says: isActive, or a vendor status.
\* Setting isActive of a buyer or an article to false removes it.
UpdatedStates(m) ==
  CASE TableOf(m).removal = "hide" -> {"active", "removed"}
    [] TableOf(m).removal = "never" -> {"active"}
    [] OTHER -> {"active", "inactive"}

\* update, and the removals that only write, read the row first.  state "none"
\* stands for an update that leaves the state alone.
ReadMaster(c) ==
  /\ \E m \in MasterRows, state \in MasterStates, code \in Codes :
       /\ master[m].state \in Found
       /\ state \in UpdatedStates(m) \cup {"none"}
       /\ TableOf(m).checksCode => code = master[m].code \/ ~CodeTaken(m, code)
       /\ StartMasterRequest(c, "update", m, state, code)
  /\ UNCHANGED <<master, used, removedMaster, masterOvertaken>>

\* Request c has changed or used row m.
OvertakeMaster(c, m) ==
  /\ masterReq' = Overtake(masterReq, c, Idle, LAMBDA d : masterReq[d].row = m)
  /\ masterOvertaken' = IF masterReq[c].stale THEN masterOvertaken \cup {m} ELSE masterOvertaken

UpdateMaster(c) ==
  /\ masterReq[c].op = "update"
  /\ LET r == masterReq[c]
         state == IF r.state = "none" THEN master[r.row].state ELSE r.state
     IN /\ master[r.row].state # "none"
        /\ IndexAccepts(r.row, r.code)
        /\ master' = [master EXCEPT ![r.row] = [state |-> state, code |-> r.code]]
        /\ removedMaster' = IF state = "removed" THEN removedMaster \cup {r.row} ELSE removedMaster
        /\ OvertakeMaster(c, r.row)
  /\ UNCHANGED used

LinkedTo(m) == {u \in Uses : UsedRow[u] = m /\ used[u] = "linked"}

\* Mutant: deleteCategory does not count the vendors of the category.
MayDeleteUsed(m) == TableOf(m).removal = "delete"

\* deleteCategory and the removal of a vendor count what uses the row.
MayDelete(m) == TableOf(m).removal = "delete" /\ LinkedTo(m) = {}

CountUses(c) ==
  /\ \E m \in MasterRows :
       /\ master[m].state \in Found
       /\ MayDelete(m)
       /\ StartMasterRequest(c, "delete", m, "none", master[m].code)
  /\ UNCHANGED <<master, used, removedMaster, masterOvertaken>>

\* The delete.  The foreign key refuses it, or clears the reference of each document.
DeleteMaster(c) ==
  /\ masterReq[c].op = "delete"
  /\ LET m == masterReq[c].row
     IN /\ master[m].state # "none"
        /\ TableOf(m).onDelete = "restrict" => LinkedTo(m) = {}
        /\ master' = [master EXCEPT ![m] = NoMaster]
        /\ used' = [u \in Uses |-> IF u \in LinkedTo(m) THEN "unlinked" ELSE used[u]]
        /\ OvertakeMaster(c, m)
  /\ UNCHANGED removedMaster

\* A document that refers to an active row is created: the row is read and checked,
\* then the document is inserted, and the foreign key checks that the row exists.
CheckUsed(c) ==
  /\ \E u \in Uses :
       /\ used[u] = "none"
       /\ master[UsedRow[u]].state = "active"
       /\ StartMasterRequest(c, "use", u, "none", NoMaster.code)
  /\ UNCHANGED <<master, used, removedMaster, masterOvertaken>>

LinkUse(c) ==
  /\ masterReq[c].op = "use"
  /\ LET u == masterReq[c].row
     IN /\ used[u] = "none"
        /\ master[UsedRow[u]].state # "none"
        /\ used' = [used EXCEPT ![u] = "linked"]
        /\ masterReq' = Overtake(masterReq, c, Idle,
             LAMBDA d : masterReq[d].op = "delete" /\ masterReq[d].row = UsedRow[u])
  /\ UNCHANGED <<master, removedMaster, masterOvertaken>>

\* A request fails on the index or the foreign key, or its process dies.
DropMasterRequest(c) ==
  /\ masterReq[c] # Idle
  /\ masterReq' = [masterReq EXCEPT ![c] = Idle]
  /\ UNCHANGED <<master, used, removedMaster, masterOvertaken>>

MasterDataNext ==
  \E c \in Clients :
    \/ CheckNewMaster(c)
    \/ CreateMaster(c)
    \/ ReadMaster(c)
    \/ UpdateMaster(c)
    \/ CountUses(c)
    \/ DeleteMaster(c)
    \/ CheckUsed(c)
    \/ LinkUse(c)
    \/ DropMasterRequest(c)

MasterDataSpec == MasterDataInit /\ [][MasterDataNext]_masterVars

MasterDataTypeOK ==
  /\ master \in [MasterRows -> [state : MasterStates, code : Codes]]
  /\ used \in [Uses -> {"none", "linked", "unlinked"}]
  /\ masterReq \in [Clients -> {Idle} \cup
       [op : {"create", "update", "delete", "use"}, row : MasterRows \cup Uses,
        state : MasterStates, code : Codes, stale : BOOLEAN]]
  /\ removedMaster \subseteq MasterRows
  /\ masterOvertaken \subseteq MasterRows

\* A removed buyer or article stays removed, unless a request that had read it before
\* wrote isActive over the removal (buyers.service.ts and articles.service.ts, update).
RemovedStaysRemoved ==
  \A m \in removedMaster : master[m].state = "removed" \/ m \in masterOvertaken

\* A document keeps the row it was created with, unless the delete of the row had
\* counted before the document was inserted: a vendor then loses its category
\* (vendors.service.ts, deleteCategory).
ReferencesKept ==
  \A u \in Uses : used[u] = "unlinked" => UsedRow[u] \in masterOvertaken
====
