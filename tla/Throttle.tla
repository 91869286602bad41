---- MODULE Throttle ----
(***************************************************************************)
(* The rate limit of one caller (RedisSlidingWindowStorage): a sorted set  *)
(* of the times of its calls in Redis, pruned and counted by every call in *)
(* one MULTI.  The time of a call is taken before, by its own instance.    *)
(* Blocked calls are counted too.                                          *)
(***************************************************************************)
EXTENDS Requests, Functions

CONSTANTS
  Window,    \* ttl * 1000, in ticks
  HitLimit,  \* limit
  MaxTime,   \* bound: ticks
  MaxHits    \* bound: calls at one tick

ASSUME ThrottleAssumption == Window \in Nat \ {0} /\ {HitLimit, MaxTime, MaxHits} \subseteq Nat

VARIABLES
  now,         \* the clock
  hits,        \* members of the sorted set with each score
  admitted,    \* calls let through with each time
  throttleReq, \* the call of each client
  unbounded    \* a call was let through uncounted, or its time had passed when it was counted

throttleVars == <<now, hits, admitted, throttleReq, unbounded>>

Times == 0..MaxTime

ThrottleInit ==
  /\ now = 0
  /\ hits = [t \in Times |-> 0]
  /\ admitted = [t \in Times |-> 0]
  /\ throttleReq = [c \in Clients |-> Idle]
  /\ unbounded = FALSE

Tick ==
  /\ now < MaxTime
  /\ now' = now + 1
  /\ UNCHANGED <<hits, admitted, throttleReq, unbounded>>

\* increment takes the time.
TakeTime(c) ==
  /\ throttleReq[c] = Idle
  /\ throttleReq' = [throttleReq EXCEPT ![c] = [op |-> "count", row |-> now]]
  /\ UNCHANGED <<now, hits, admitted, unbounded>>

\* Mutant: the window is a tick too short.
OutsideEarly(t, at) == t + Window <= at + 1

\* Scores up to windowStart are removed.
Outside(t, at) == t + Window <= at

\* ZADD, ZREMRANGEBYSCORE and ZCARD at once; the call is let through unless there are more
\* than the limit, itself included.
CountHit(c) ==
  /\ throttleReq[c].op = "count"
  /\ LET at == throttleReq[c].row
         kept == [t \in Times |->
           IF Outside(t, at) THEN 0 ELSE IF t = at THEN hits[t] + 1 ELSE hits[t]]
         pass == SumFunctionOnSet(kept, Times) <= HitLimit
     IN /\ hits[at] < MaxHits
        /\ hits' = kept
        /\ admitted' = IF pass THEN [admitted EXCEPT ![at] = @ + 1] ELSE admitted
        /\ unbounded' = (unbounded \/ (pass /\ at # now))
  /\ throttleReq' = [throttleReq EXCEPT ![c] = Idle]
  /\ UNCHANGED now

\* Redis fails or gives no answer: the call is let through.
FailOpen(c) ==
  /\ throttleReq[c].op = "count"
  /\ unbounded' = TRUE
  /\ throttleReq' = [throttleReq EXCEPT ![c] = Idle]
  /\ UNCHANGED <<now, hits, admitted>>

ThrottleNext ==
  \/ Tick
  \/ \E c \in Clients :
       \/ TakeTime(c)
       \/ CountHit(c)
       \/ FailOpen(c)

ThrottleSpec == ThrottleInit /\ [][ThrottleNext]_throttleVars

ThrottleTypeOK ==
  /\ now \in Times
  /\ hits \in [Times -> 0..MaxHits]
  /\ admitted \in [Times -> Nat]
  /\ throttleReq \in [Clients -> {Idle} \cup [op : {"count"}, row : Times]]
  /\ unbounded \in BOOLEAN

\* No window has more calls that were let through than the limit, unless Redis failed or a
\* call was counted later than its own time (increment).
WindowHolds ==
  unbounded \/
  \A end \in Times :
    SumFunctionOnSet(admitted, {t \in Times : t <= end /\ t + Window > end}) <= HitLimit
====
