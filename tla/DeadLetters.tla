---- MODULE DeadLetters ----
(***************************************************************************)
(* The listener that moves a job that has used all its attempts to the     *)
(* dead-letter queue (DeadLetterListener).  Every instance hears of every  *)
(* failure, and the job is added to the one queue before it is removed     *)
(* from the other.  Workers and queues are BullMQ's, outside src/.         *)
(***************************************************************************)
EXTENDS Requests

CONSTANTS
  QueuedJobs,   \* jobs of the queues
  MaxAttempts,  \* attempts of a job
  MaxCopies     \* bound: copies in the dead-letter queue

ASSUME DeadLettersAssumption == MaxAttempts \in Nat \ {0} /\ MaxCopies \in Nat

VARIABLES
  attemptsMade,  \* of each job
  queued,        \* jobs still in their queue
  parked,        \* copies of each job in the dead-letter queue
  heard,         \* failures each instance has yet to handle
  listenerReq,   \* what each instance is handling
  copied         \* jobs copied again: two instances had found them, or one died in between

deadLetterVars == <<attemptsMade, queued, parked, heard, listenerReq, copied>>

DeadLettersInit ==
  /\ attemptsMade = [j \in QueuedJobs |-> 0]
  /\ queued = QueuedJobs
  /\ parked = [j \in QueuedJobs |-> 0]
  /\ heard = [c \in Clients |-> {}]
  /\ listenerReq = [c \in Clients |-> Idle]
  /\ copied = {}

\* A worker fails, and the instances are told.
FailAttempt ==
  /\ \E j \in queued :
       /\ attemptsMade[j] < MaxAttempts
       /\ attemptsMade' = [attemptsMade EXCEPT ![j] = @ + 1]
       /\ heard' = [c \in Clients |-> heard[c] \cup {j}]
  /\ UNCHANGED <<queued, parked, listenerReq, copied>>

\* Mutant: the job is parked while it has an attempt left.
ExhaustedEarly(j) == attemptsMade[j] + 1 >= MaxAttempts

\* attemptsMade >= maxAttempts
Exhausted(j) == attemptsMade[j] >= MaxAttempts

\* handleFailedJob gets the job.  One that is gone, or will be retried, is left alone.
GetJob(c) ==
  /\ listenerReq[c] = Idle
  /\ \E j \in heard[c] :
       /\ heard' = [heard EXCEPT ![c] = @ \ {j}]
       /\ listenerReq' = IF j \in queued /\ Exhausted(j)
                         THEN [listenerReq EXCEPT ![c] =
                           [op |-> "park", row |-> j, stale |-> \E d \in Clients : listenerReq[d].row = j]]
                         ELSE listenerReq
  /\ UNCHANGED <<attemptsMade, queued, parked, copied>>

\* The job is added to the dead-letter queue.
ParkJob(c) ==
  /\ listenerReq[c].op = "park"
  /\ parked[listenerReq[c].row] < MaxCopies
  /\ LET r == listenerReq[c]
     IN /\ parked' = [parked EXCEPT ![r.row] = @ + 1]
        /\ copied' = IF r.stale THEN copied \cup {r.row} ELSE copied
        /\ listenerReq' = Overtake(listenerReq, c, [r EXCEPT !.op = "remove"],
             LAMBDA d : listenerReq[d].row = r.row)
  /\ UNCHANGED <<attemptsMade, queued, heard>>

RemoveJob(c) ==
  /\ listenerReq[c].op = "remove"
  /\ queued' = queued \ {listenerReq[c].row}
  /\ listenerReq' = [listenerReq EXCEPT ![c] = Idle]
  /\ UNCHANGED <<attemptsMade, parked, heard, copied>>

\* The instance dies with what it had heard, or an error is logged.  Another instance may
\* find the job again.
CrashListener(c) ==
  /\ listenerReq[c] # Idle \/ heard[c] # {}
  /\ copied' = IF listenerReq[c].op = "remove" THEN copied \cup {listenerReq[c].row} ELSE copied
  /\ heard' = [heard EXCEPT ![c] = {}]
  /\ listenerReq' = [listenerReq EXCEPT ![c] = Idle]
  /\ UNCHANGED <<attemptsMade, queued, parked>>

DeadLettersNext ==
  \/ FailAttempt
  \/ \E c \in Clients :
       \/ GetJob(c)
       \/ ParkJob(c)
       \/ RemoveJob(c)
       \/ CrashListener(c)

DeadLettersSpec == DeadLettersInit /\ [][DeadLettersNext]_deadLetterVars

DeadLettersTypeOK ==
  /\ attemptsMade \in [QueuedJobs -> 0..MaxAttempts]
  /\ queued \subseteq QueuedJobs
  /\ parked \in [QueuedJobs -> 0..MaxCopies]
  /\ heard \in [Clients -> SUBSET QueuedJobs]
  /\ listenerReq \in [Clients -> {Idle} \cup
       [op : {"park", "remove"}, row : QueuedJobs, stale : BOOLEAN]]
  /\ copied \subseteq QueuedJobs

\* A job is parked when its attempts are used up and never before, a job that has left its
\* queue is parked, and it is parked once unless two instances had found it or one died
\* before removing it (handleFailedJob).
ParkedOnceExhausted ==
  \A j \in QueuedJobs :
    /\ parked[j] > 0 => attemptsMade[j] = MaxAttempts
    /\ j \notin queued => parked[j] > 0
    /\ parked[j] > 1 => j \in copied
====
