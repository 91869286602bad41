---- MODULE Gateway ----
(***************************************************************************)
(* How a change of a user's roles reaches the calls of the HTTP interface. *)
(* The permissions are read from the tables or from Redis when an access   *)
(* token is issued, travel in the token, and are all that RbacGuard looks  *)
(* at until the token ends (JWT_ACCESS_TTL, 8 hours).  What becomes of a   *)
(* cached list when a role changes is the subject of Access; here the      *)
(* deletion may come at any time or never.  AuditInterceptor is registered *)
(* nowhere, so nothing runs between the guards and the handler.            *)
(***************************************************************************)
EXTENDS Requests, Routes, Integers

CONSTANTS
  TokenPermissions,  \* sets of permissions a user may come to have
  Required,          \* permissions of the handler, pairs of module and action
  AccessTtl,         \* JWT_ACCESS_TTL, in ticks of the clock
  CacheTtl,          \* PERMISSION_CACHE_TTL, in ticks
  MaxLate            \* bound: ticks the requests behind one token may take

ASSUME GatewayAssumption ==
  /\ {} \in TokenPermissions
  /\ AccessTtl \in Nat \ {0}
  /\ CacheTtl \in Nat \ {0}
  /\ MaxLate \in Nat

VARIABLES
  userPermissions,  \* the user's permissions by the tables
  deniedFor,        \* ticks since they last let the user in, as far as they are counted
  listing,          \* permissions:<user> in Redis
  accessToken,      \* the token each client of the user holds
  calls             \* the request of each client

gatewayVars == <<userPermissions, deniedFor, listing, accessToken, calls>>

\* deniedFor counts no further.
DeniedBound == AccessTtl + CacheTtl + MaxLate

\* A list of permissions that was read from the tables: left counts the ticks it is still
\* good for where it lies, late those it spent in requests.
Listed(list, left, late) == [permissions |-> list, left |-> left, late |-> late]

Unlisted == Listed({}, 0, 0)

Lets(list) == Permitted(list, Required)

\* The user has no roles yet.
GatewayInit ==
  /\ userPermissions = {}
  /\ deniedFor = IF Lets({}) THEN 0 ELSE DeniedBound
  /\ listing = Unlisted
  /\ accessToken = [c \in Clients |-> Unlisted]
  /\ calls = [c \in Clients |-> Idle]

Call(op, list, late) ==
  [op |-> op, row |-> NoRow, permissions |-> list, late |-> late, denied |-> 0]

\* The roles of the user change, or the permissions of a role.
ChangeRoles ==
  /\ userPermissions' \in TokenPermissions
  /\ deniedFor' = IF Lets(userPermissions') THEN 0 ELSE deniedFor
  /\ UNCHANGED <<listing, accessToken, calls>>

\* invalidatePermissions, or Redis loses the entry.
ForgetListing ==
  /\ listing' = Unlisted
  /\ UNCHANGED <<userPermissions, deniedFor, accessToken, calls>>

Issuing(call) == call.op \in {"store", "sign"}

\* The clock: entry and tokens come closer to their end.
PassTime ==
  /\ \A c \in Clients : Issuing(calls[c]) => calls[c].late < MaxLate
  /\ deniedFor' = IF Lets(userPermissions) \/ deniedFor = DeniedBound THEN deniedFor
                  ELSE deniedFor + 1
  /\ listing' = IF listing.left > 1 THEN [listing EXCEPT !.left = @ - 1] ELSE Unlisted
  /\ accessToken' = [c \in Clients |->
       IF accessToken[c].left > 0 THEN [accessToken[c] EXCEPT !.left = @ - 1] ELSE accessToken[c]]
  /\ calls' = [c \in Clients |->
       IF Issuing(calls[c]) THEN [calls[c] EXCEPT !.late = @ + 1] ELSE calls[c]]
  /\ UNCHANGED userPermissions

\* login and refresh: getUserPermissions finds the entry, or reads the tables when there is
\* none or Redis fails.
ReadListing(c) ==
  /\ calls[c] = Idle
  /\ \/ /\ listing.left > 0
        /\ calls' = [calls EXCEPT ![c] = Call("sign", listing.permissions, listing.late)]
     \/ calls' = [calls EXCEPT ![c] = Call("store", userPermissions, 0)]
  /\ UNCHANGED <<userPermissions, deniedFor, listing, accessToken>>

\* It stores what it has read; a failure of Redis is logged.
StoreListing(c) ==
  /\ calls[c].op = "store"
  /\ LET r == calls[c]
     IN /\ listing' \in {Listed(r.permissions, CacheTtl, r.late), listing}
        /\ calls' = [calls EXCEPT ![c] = Call("sign", r.permissions, r.late)]
  /\ UNCHANGED <<userPermissions, deniedFor, accessToken>>

\* generateTokens; the answer replaces the client's token.
SignToken(c) ==
  /\ calls[c].op = "sign"
  /\ accessToken' =
       [accessToken EXCEPT ![c] = Listed(calls[c].permissions, AccessTtl, calls[c].late)]
  /\ calls' = [calls EXCEPT ![c] = Idle]
  /\ UNCHANGED <<userPermissions, deniedFor, listing>>

\* Mutant: the end of a token is not looked at.
VerifiedExpired(bearer) == TRUE

\* JwtAuthGuard; a token that waits for its second factor carries no permissions.
Verified(bearer) == bearer.left > 0

\* A call with the token: both guards let it in.
BeginCall(c) ==
  /\ calls[c] = Idle
  /\ Verified(accessToken[c])
  /\ Lets(accessToken[c].permissions)
  /\ calls' = [calls EXCEPT ![c] =
       [Call("handle", {}, accessToken[c].late) EXCEPT !.denied = deniedFor]]
  /\ UNCHANGED <<userPermissions, deniedFor, listing, accessToken>>

\* The handler answers; a login or refresh fails before it has signed, or its client is gone.
EndCall(c) ==
  /\ calls[c] # Idle
  /\ calls' = [calls EXCEPT ![c] = Idle]
  /\ UNCHANGED <<userPermissions, deniedFor, listing, accessToken>>

GatewayNext ==
  \/ ChangeRoles
  \/ ForgetListing
  \/ PassTime
  \/ \E c \in Clients :
       \/ ReadListing(c)
       \/ StoreListing(c)
       \/ SignToken(c)
       \/ BeginCall(c)
       \/ EndCall(c)

GatewaySpec == GatewayInit /\ [][GatewayNext]_gatewayVars

GatewayTypeOK ==
  /\ userPermissions \in TokenPermissions
  /\ deniedFor \in 0..DeniedBound
  /\ listing.left \in 0..CacheTtl /\ listing.late \in 0..MaxLate
  /\ \A c \in Clients : accessToken[c].left \in 0..AccessTtl /\ accessToken[c].late \in 0..MaxLate
  /\ \A c \in Clients : calls[c] # Idle =>
       /\ calls[c].op \in {"store", "sign", "handle"}
       /\ calls[c].late \in 0..MaxLate
       /\ calls[c].denied \in 0..DeniedBound

\* A permission that was taken away lets nobody in for longer than a cached list and then a
\* token signed from it live, and the time the requests took between reading the list and
\* passing it on; however often it was given and taken, and whether or not Redis deleted
\* the entry (getUserPermissions, generateTokens, JwtAuthGuard, RbacGuard).
ServedWithinTtl ==
  \A c \in Clients :
    calls[c].op = "handle" => calls[c].denied < AccessTtl + CacheTtl + calls[c].late
====
