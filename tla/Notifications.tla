---- MODULE Notifications ----
(***************************************************************************)
(* Notifications (NotificationsService) and the streams that carry them to *)
(* open browser tabs (SSEService).  A row is inserted and then emitted to  *)
(* the streams of its user.  The streams of a user share one subject,      *)
(* which is completed when the last of them closes.  Two modules provide   *)
(* an SSEService each: tabs are connected to the one of SystemModule, and  *)
(* ComplaintsService, the one caller, emits to the one of OrdersModule.    *)
(***************************************************************************)
EXTENDS Requests

CONSTANTS
  Recipients,   \* users with the role that is notified
  Tabs,         \* browser tabs
  TabUser,      \* the user of each tab
  Notices,      \* rows of sys.notifications
  MaxSubjects   \* bound: subjects made for a user

ASSUME NotificationsAssumption ==
  /\ TabUser \in [Tabs -> Recipients]
  /\ IsFiniteSet(Tabs)
  /\ NoRow \notin Recipients
  /\ MaxSubjects \in Nat

VARIABLES
  notice,      \* each notification: its user, whether it is read
  subject,     \* in each SSEService, the subject in the map of each user; 0 when there is none
  subjects,    \* subjects made for each user
  connections, \* connectionCounts of the SSEService that has the streams
  tab,         \* the subject each open tab listens to; 0 when it is closed
  arrived,     \* notifications each tab has received since it was opened
  notifyReq    \* the request of each client

notificationVars == <<notice, subject, subjects, connections, tab, arrived, notifyReq>>

\* The modules that provide an SSEService.
Services == {"system", "orders"}

\* The one whose NotificationsController opens streams.
StreamsAt == "system"

\* Mutant: there is one SSEService for all.
EmitsAtSystem == "system"

\* The one that ComplaintsService emits to.
EmitsAt == "orders"

\* The tabs that hear of what a service emits to a user: those that listen to the subject
\* in its map.
Listeners(service, u) ==
  {t \in Tabs : service = StreamsAt /\ TabUser[t] = u /\ tab[t] # 0 /\ tab[t] = subject[service][u]}

NoNotice == [user |-> NoRow, read |-> FALSE]

NotificationsInit ==
  /\ notice = [n \in Notices |-> NoNotice]
  /\ subject = [service \in Services |-> [u \in Recipients |-> 0]]
  /\ subjects = [u \in Recipients |-> 0]
  /\ connections = [u \in Recipients |-> 0]
  /\ tab = [t \in Tabs |-> 0]
  /\ arrived = [t \in Tabs |-> {}]
  /\ notifyReq = [c \in Clients |-> Idle]

\* stream: getOrCreateSubject.
OpenStream ==
  /\ \E t \in Tabs :
       LET u == TabUser[t]
           now == subject[StreamsAt][u]
           s == IF now = 0 THEN subjects[u] + 1 ELSE now
       IN /\ tab[t] = 0
          /\ s <= MaxSubjects
          /\ subject' = [subject EXCEPT ![StreamsAt][u] = s]
          /\ subjects' = [subjects EXCEPT ![u] = IF now = 0 THEN @ + 1 ELSE @]
          /\ connections' = [connections EXCEPT ![u] = IF now = 0 THEN 1 ELSE @ + 1]
          /\ tab' = [tab EXCEPT ![t] = s]
  /\ UNCHANGED <<notice, arrived, notifyReq>>

\* Mutant: the subject is completed while one stream is left.
LastClosesEarly(count) == count <= 1

\* The number of streams left with which the subject is completed.
LastCloses(count) == count <= 0

\* The request of the stream closes: removeConnection.
CloseStream ==
  /\ \E t \in Tabs :
       LET u == TabUser[t]
           left == connections[u] - 1
       IN /\ tab[t] # 0
          /\ tab' = [tab EXCEPT ![t] = 0]
          /\ arrived' = [arrived EXCEPT ![t] = {}]
          /\ IF LastCloses(left)
             THEN /\ subject' = [subject EXCEPT ![StreamsAt][u] = 0]
                  /\ connections' = [connections EXCEPT ![u] = 0]
             ELSE /\ connections' = [connections EXCEPT ![u] = left]
                  /\ UNCHANGED subject
  /\ UNCHANGED <<notice, subjects, notifyReq>>

\* notifyRole reads the users of the role.
ReadRecipients(c) ==
  /\ notifyReq[c] = Idle
  /\ \E users \in SUBSET Recipients \ {{}} :
       notifyReq' = [notifyReq EXCEPT ![c] = [op |-> "insert", row |-> NoRow, users |-> users, failed |-> {}]]
  /\ UNCHANGED <<notice, subject, subjects, connections, tab, arrived>>

\* create inserts the row.
InsertNotice(c) ==
  /\ notifyReq[c].op = "insert"
  /\ \E u \in notifyReq[c].users, n \in Notices :
       /\ notice[n] = NoNotice
       /\ notice' = [notice EXCEPT ![n] = [user |-> u, read |-> FALSE]]
       /\ notifyReq' = [notifyReq EXCEPT ![c].op = "emit", ![c].row = n]
  /\ UNCHANGED <<subject, subjects, connections, tab, arrived>>

\* One user cannot be notified: the error is logged, and the next one follows.
FailNotice(c) ==
  /\ notifyReq[c].op = "insert"
  /\ \E u \in notifyReq[c].users :
       notifyReq' = [notifyReq EXCEPT ![c].users = @ \ {u}, ![c].failed = @ \cup {u}]
  /\ UNCHANGED <<notice, subject, subjects, connections, tab, arrived>>

\* It emits to the subject of the user in its own SSEService, if there is one.
EmitNotice(c) ==
  /\ notifyReq[c].op = "emit"
  /\ LET n == notifyReq[c].row
         u == notice[n].user
         left == notifyReq[c].users \ {u}
     IN /\ arrived' = [t \in Tabs |-> IF t \in Listeners(EmitsAt, u) THEN arrived[t] \cup {n} ELSE arrived[t]]
        /\ notifyReq' = [notifyReq EXCEPT ![c] =
             IF left = {} THEN Idle ELSE [@ EXCEPT !.op = "insert", !.row = NoRow, !.users = left]]
  /\ UNCHANGED <<notice, subject, subjects, connections, tab>>

\* markRead, and markAllRead of a user.
MarkRead ==
  /\ \E rows \in {{n} : n \in Notices} \cup {{n \in Notices : notice[n].user = u} : u \in Recipients} :
       /\ \E n \in rows : notice[n].user # NoRow /\ ~notice[n].read
       /\ notice' = [n \in Notices |->
            IF n \in rows /\ notice[n].user # NoRow THEN [notice[n] EXCEPT !.read = TRUE] ELSE notice[n]]
  /\ UNCHANGED <<subject, subjects, connections, tab, arrived, notifyReq>>

\* A request of notifyRole has no user left, or its process goes on without it.
EndNotify(c) ==
  /\ notifyReq[c] # Idle
  /\ notifyReq' = [notifyReq EXCEPT ![c] = Idle]
  /\ UNCHANGED <<notice, subject, subjects, connections, tab, arrived>>

NotificationsNext ==
  \/ OpenStream
  \/ CloseStream
  \/ MarkRead
  \/ \E c \in Clients :
       \/ ReadRecipients(c)
       \/ InsertNotice(c)
       \/ FailNotice(c)
       \/ EmitNotice(c)
       \/ EndNotify(c)

NotificationsSpec == NotificationsInit /\ [][NotificationsNext]_notificationVars

NotificationsTypeOK ==
  /\ notice \in [Notices -> [user : Recipients \cup {NoRow}, read : BOOLEAN]]
  /\ subject \in [Services -> [Recipients -> 0..MaxSubjects]]
  /\ subjects \in [Recipients -> 0..MaxSubjects]
  /\ connections \in [Recipients -> 0..Cardinality(Tabs)]
  /\ tab \in [Tabs -> 0..MaxSubjects]
  /\ arrived \in [Tabs -> SUBSET Notices]
  /\ notifyReq \in [Clients -> {Idle} \cup
       [op : {"insert", "emit"}, row : Notices \cup {NoRow}, users : SUBSET Recipients, failed : SUBSET Recipients]]

\* Every open tab listens to the subject that its user has now, whatever other tabs of the
\* user are opened and closed: the one through which its SSEService can reach it
\* (SSEService.getOrCreateSubject, removeConnection).
TabsKeepTheirSubject == \A t \in Tabs : tab[t] # 0 => tab[t] = subject[StreamsAt][TabUser[t]]

\* No notification reaches an open tab: OrdersModule provides an SSEService of its own, and
\* nobody is connected to that one (orders.module.ts).  A tab learns of it when it next asks
\* for its number of unread ones.
NothingIsPushed == \A t \in Tabs : arrived[t] = {}
====
