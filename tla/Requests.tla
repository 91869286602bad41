---- MODULE Requests ----
(***************************************************************************)
(* What the modules of the service layer share.  A request is one call of  *)
(* a service method.  Every await of the method is a point at which other  *)
(* requests run, so a method that reads a row, checks it and writes the    *)
(* row by id is two steps: the request keeps the row it has seen and       *)
(* decides by it.  `stale` records that another request has changed what   *)
(* this one has seen; it is history and no guard looks at it.              *)
(***************************************************************************)
EXTENDS Naturals, FiniteSets, FiniteSetsExt

CONSTANTS
  Clients,  \* requests that run at once
  NoRow     \* the row of a request that is not running

ASSUME RequestsAssumption == IsFiniteSet(Clients) /\ NoRow \notin Clients

\* A request that is not running.
Idle == [op |-> "idle", row |-> NoRow]

\* A request that has seen something old.
Stale(r) == r # Idle /\ r.stale

\* Request c continues as next.  The others for which Sees holds have now seen
\* something that is no longer so.
Overtake(reqs, c, next, Sees(_)) ==
  [d \in Clients |-> IF d = c THEN next
                     ELSE IF reqs[d] # Idle /\ Sees(d) THEN [reqs[d] EXCEPT !.stale = TRUE]
                     ELSE reqs[d]]
====
