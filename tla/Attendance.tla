---- MODULE Attendance ----
(***************************************************************************)
(* Attendance records of an employee: AttendanceService.  A device sends a *)
(* batch, which is stored record by record under a log row; a manual       *)
(* correction stores the record and then its reason, in two commits.  Both *)
(* overwrite what is stored for the date.                                  *)
(***************************************************************************)
EXTENDS Requests, Sequences

CONSTANTS
  CheckDates,      \* dates of records
  ClockTimes,      \* what a record says
  MaxCorrections   \* bound: rows of hr.manual_corrections, and of the sync log

ASSUME AttendanceAssumption == IsFiniteSet(CheckDates) /\ MaxCorrections \in Nat

VARIABLES
  attendance,     \* the record of each date
  corrections,    \* manual corrections, oldest first
  syncLog,        \* rows of hr.biometric_sync_log: status and records stored
  attendanceReq,  \* the request of each client
  unexplained     \* dates whose correction was stopped halfway, or overlapped another

attendanceVars == <<attendance, corrections, syncLog, attendanceReq, unexplained>>

NoRecord == [source |-> "none", clock |-> NoRow]

AttendanceInit ==
  /\ attendance = [d \in CheckDates |-> NoRecord]
  /\ corrections = <<>>
  /\ syncLog = <<>>
  /\ attendanceReq = [c \in Clients |-> Idle]
  /\ unexplained = {}

\* ON CONFLICT DO UPDATE: the source and the reason of a correction are overwritten.
Upsert(date, source, clock) ==
  attendance' = [attendance EXCEPT ![date] = [source |-> source, clock |-> clock]]

StartSync(c) ==
  /\ attendanceReq[c] = Idle
  /\ Len(syncLog) < MaxCorrections
  /\ \E batch \in SUBSET CheckDates :
       attendanceReq' = [attendanceReq EXCEPT ![c] =
         [op |-> "sync", row |-> Len(syncLog) + 1, left |-> batch, batch |-> batch]]
  /\ syncLog' = Append(syncLog, [status |-> "running", stored |-> 0])
  /\ UNCHANGED <<attendance, corrections, unexplained>>

StoreRecord(c) ==
  /\ attendanceReq[c].op = "sync"
  /\ \E date \in attendanceReq[c].left, clock \in ClockTimes :
       /\ Upsert(date, "biometric", clock)
       /\ attendanceReq' = [attendanceReq EXCEPT ![c].left = @ \ {date}]
  /\ UNCHANGED <<corrections, syncLog, unexplained>>

\* How a batch ends: a record that is refused ends it with those before it stored.
SyncOutcome(r) == IF r.left = {} THEN "completed" ELSE "failed"

EndSync(c) ==
  /\ attendanceReq[c].op = "sync"
  /\ LET r == attendanceReq[c]
     IN syncLog' = [syncLog EXCEPT ![r.row] =
          [status |-> SyncOutcome(r), stored |-> Cardinality(r.batch \ r.left)]]
  /\ attendanceReq' = [attendanceReq EXCEPT ![c] = Idle]
  /\ UNCHANGED <<attendance, corrections, unexplained>>

\* manualCorrection reads the record.
ReadRecord(c) ==
  /\ attendanceReq[c] = Idle
  /\ \E date \in CheckDates, clock \in ClockTimes :
       attendanceReq' = [attendanceReq EXCEPT ![c] =
         [op |-> "correct", row |-> date, old |-> attendance[date].clock, new |-> clock]]
  /\ UNCHANGED <<attendance, corrections, syncLog, unexplained>>

Correcting(date) == {d \in Clients : attendanceReq[d].op = "explain" /\ attendanceReq[d].row = date}

CorrectRecord(c) ==
  /\ attendanceReq[c].op = "correct"
  /\ LET r == attendanceReq[c]
     IN /\ Upsert(r.row, "manual", r.new)
        /\ attendanceReq' = [attendanceReq EXCEPT ![c].op = "explain"]
        /\ unexplained' = IF Correcting(r.row) = {} THEN unexplained ELSE unexplained \cup {r.row}
  /\ UNCHANGED <<corrections, syncLog>>

\* Mutant: no correction is stored for a date that had no record.
CorrectionOfRecord(r) == IF r.old = NoRow THEN <<>> ELSE <<[date |-> r.row, old |-> r.old, new |-> r.new]>>

\* The correction that is stored.
Correction(r) == <<[date |-> r.row, old |-> r.old, new |-> r.new]>>

ExplainCorrection(c) ==
  /\ attendanceReq[c].op = "explain"
  /\ Len(corrections) < MaxCorrections
  /\ corrections' = corrections \o Correction(attendanceReq[c])
  /\ attendanceReq' = [attendanceReq EXCEPT ![c] = Idle]
  /\ UNCHANGED <<attendance, syncLog, unexplained>>

\* The request fails or the server dies: a batch stays running, a correction may stay
\* without its reason.
CrashAttendance(c) ==
  /\ attendanceReq[c] # Idle
  /\ attendanceReq' = [attendanceReq EXCEPT ![c] = Idle]
  /\ unexplained' = IF attendanceReq[c].op = "explain"
                    THEN unexplained \cup {attendanceReq[c].row} ELSE unexplained
  /\ UNCHANGED <<attendance, corrections, syncLog>>

AttendanceNext ==
  \E c \in Clients :
    \/ StartSync(c)
    \/ StoreRecord(c)
    \/ EndSync(c)
    \/ ReadRecord(c)
    \/ CorrectRecord(c)
    \/ ExplainCorrection(c)
    \/ CrashAttendance(c)

AttendanceSpec == AttendanceInit /\ [][AttendanceNext]_attendanceVars

AttendanceTypeOK ==
  /\ attendance \in [CheckDates -> [source : {"none", "biometric", "manual"}, clock : ClockTimes \cup {NoRow}]]
  /\ Len(corrections) <= MaxCorrections
  /\ \A k \in DOMAIN corrections : corrections[k].date \in CheckDates
  /\ syncLog \in Seq([status : {"running", "completed", "failed"}, stored : 0..Cardinality(CheckDates)])
  /\ \A c \in Clients : attendanceReq[c] # Idle => attendanceReq[c].op \in {"sync", "correct", "explain"}
  /\ unexplained \subseteq CheckDates

\* A record that says it was corrected by hand is what the last correction of its
\* date has made it, unless that one was stopped between its two commits or
\* overlapped another (manualCorrection).
ManualIsExplained ==
  \A d \in CheckDates \ unexplained :
    attendance[d].source = "manual" /\ Correcting(d) = {} =>
      \E k \in DOMAIN corrections :
        /\ corrections[k].date = d
        /\ corrections[k].new = attendance[d].clock
        /\ \A j \in DOMAIN corrections : corrections[j].date = d => j <= k
====
