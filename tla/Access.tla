---- MODULE Access ----
(***************************************************************************)
(* Roles, their permissions and their members (RolesService,               *)
(* UsersService) and the cache of each user's permissions in Redis         *)
(* (AuthService.getUserPermissions).  A change is committed first; the     *)
(* cache entries of the users concerned are deleted in a second step, and  *)
(* an error of Redis is swallowed.                                         *)
(***************************************************************************)
EXTENDS Requests

CONSTANTS
  Users,
  Roles,
  PermissionRows,  \* rows of sys.permissions
  NotCached          \* no entry in the cache

VARIABLES
  members,     \* users of each role, sys.user_roles
  grants,      \* permissions of each role, sys.role_permissions
  roleRows,    \* roles that have not been deleted
  cache,       \* permissions:<user> in Redis
  accessReq,   \* the request of each client
  cacheStale   \* users whose entry was filled from an old read, or not invalidated

accessVars == <<members, grants, roleRows, cache, accessReq, cacheStale>>

AccessInit ==
  /\ members = [r \in Roles |-> {}]
  /\ grants = [r \in Roles |-> {}]
  /\ roleRows = Roles
  /\ cache = [u \in Users |-> NotCached]
  /\ accessReq = [c \in Clients |-> Idle]
  /\ cacheStale = {}

\* The query of getUserPermissions, over the given tables.
PermissionsOf(u, mem, gra) == UNION {gra[r] : r \in {q \in Roles : u \in mem[q]}}

AccessReq(op, row, users, seen) ==
  [op |-> op, row |-> row, users |-> users, seen |-> seen, stale |-> FALSE]

\* The tables change under request c.  Fills whose query gives something else now are old.
\* (TLC takes the primed variables from the conjuncts before.)
ChangeTables(c, next) ==
  accessReq' = Overtake(accessReq, c, next, LAMBDA d :
    /\ accessReq[d].op = "fill"
    /\ PermissionsOf(accessReq[d].row, members, grants) # PermissionsOf(accessReq[d].row, members', grants'))

\* getUserPermissions misses the cache and queries the tables.
QueryPermissions(c) ==
  /\ accessReq[c] = Idle
  /\ \E u \in Users :
       /\ cache[u] = NotCached
       /\ accessReq' = [accessReq EXCEPT ![c] =
            AccessReq("fill", u, {}, PermissionsOf(u, members, grants))]
  /\ UNCHANGED <<members, grants, roleRows, cache, cacheStale>>

\* It stores what it has read.
FillCache(c) ==
  /\ accessReq[c].op = "fill"
  /\ LET r == accessReq[c]
     IN /\ cache' = [cache EXCEPT ![r.row] = r.seen]
        /\ cacheStale' = IF r.stale THEN cacheStale \cup {r.row} ELSE cacheStale \ {r.row}
  /\ accessReq' = [accessReq EXCEPT ![c] = Idle]
  /\ UNCHANGED <<members, grants, roleRows>>

\* PERMISSION_CACHE_TTL ends.
ExpireEntry ==
  /\ \E u \in Users :
       /\ cache[u] # NotCached
       /\ cache' = [cache EXCEPT ![u] = NotCached]
       /\ cacheStale' = cacheStale \ {u}
  /\ UNCHANGED <<members, grants, roleRows, accessReq>>

\* UsersService.assignRole, removeRole, create and update: the roles of a user.
SetRolesOfUser(c) ==
  /\ accessReq[c] = Idle
  /\ \E u \in Users, roles \in SUBSET roleRows :
       /\ members' = [r \in Roles |-> IF r \in roles THEN members[r] \cup {u} ELSE members[r] \ {u}]
       /\ members' # members
       /\ UNCHANGED grants
       /\ ChangeTables(c, AccessReq("invalidate", NoRow, {u}, {}))
  /\ UNCHANGED <<roleRows, cache, cacheStale>>

\* RolesService.addPermission and removePermission.
SetPermission(c) ==
  /\ accessReq[c] = Idle
  /\ \E r \in roleRows, p \in PermissionRows :
       /\ grants' = [grants EXCEPT ![r] = IF p \in @ THEN @ \ {p} ELSE @ \cup {p}]
       /\ UNCHANGED members
       /\ ChangeTables(c, AccessReq("members", r, {}, {}))
  /\ UNCHANGED <<roleRows, cache, cacheStale>>

\* Mutant: nobody is concerned by a change of the role.
ConcernedNobody(r) == {}

\* The users invalidateUsersWithRole reads.
Concerned(r) == members[r]

ReadMembers(c) ==
  /\ accessReq[c].op = "members"
  /\ accessReq' = [accessReq EXCEPT ![c] =
       AccessReq("invalidate", NoRow, Concerned(accessReq[c].row), {})]
  /\ UNCHANGED <<members, grants, roleRows, cache, cacheStale>>

\* DEL of the entries.
InvalidateCache(c) ==
  /\ accessReq[c].op = "invalidate"
  /\ cache' = [u \in Users |-> IF u \in accessReq[c].users THEN NotCached ELSE cache[u]]
  /\ cacheStale' = cacheStale \ accessReq[c].users
  /\ accessReq' = [accessReq EXCEPT ![c] = Idle]
  /\ UNCHANGED <<members, grants, roleRows>>

\* RolesService.delete reads that the role has no users.
CountMembers(c) ==
  /\ accessReq[c] = Idle
  /\ \E r \in roleRows :
       /\ members[r] = {}
       /\ accessReq' = [accessReq EXCEPT ![c] = AccessReq("delete", r, {}, {})]
  /\ UNCHANGED <<members, grants, roleRows, cache, cacheStale>>

\* It deletes the role; the foreign keys cascade to users who joined meanwhile, and
\* nothing is invalidated.
DeleteRole(c) ==
  /\ accessReq[c].op = "delete"
  /\ LET r == accessReq[c].row
     IN /\ roleRows' = roleRows \ {r}
        /\ members' = [members EXCEPT ![r] = {}]
        /\ grants' = [grants EXCEPT ![r] = {}]
        /\ cacheStale' = cacheStale \cup members[r]
  /\ ChangeTables(c, Idle)
  /\ UNCHANGED cache

\* The users request r has yet to invalidate.
Owed(r) ==
  IF r.op = "members" THEN members[r.row] ELSE IF r.op = "invalidate" THEN r.users ELSE {}

\* A request is refused, Redis fails, or the process dies.
DropAccessRequest(c) ==
  /\ accessReq[c] # Idle
  /\ cacheStale' = cacheStale \cup Owed(accessReq[c])
  /\ accessReq' = [accessReq EXCEPT ![c] = Idle]
  /\ UNCHANGED <<members, grants, roleRows, cache>>

AccessNext ==
  \/ ExpireEntry
  \/ \E c \in Clients :
       \/ QueryPermissions(c)
       \/ FillCache(c)
       \/ SetRolesOfUser(c)
       \/ SetPermission(c)
       \/ ReadMembers(c)
       \/ InvalidateCache(c)
       \/ CountMembers(c)
       \/ DeleteRole(c)
       \/ DropAccessRequest(c)

AccessSpec == AccessInit /\ [][AccessNext]_accessVars

AccessTypeOK ==
  /\ members \in [Roles -> SUBSET Users]
  /\ grants \in [Roles -> SUBSET PermissionRows]
  /\ roleRows \subseteq Roles
  /\ cache \in [Users -> (SUBSET PermissionRows) \cup {NotCached}]
  /\ accessReq \in [Clients -> {Idle} \cup
       [op : {"fill", "members", "invalidate", "delete"}, row : Users \cup Roles \cup {NoRow},
        users : SUBSET Users, seen : SUBSET PermissionRows, stale : BOOLEAN]]
  /\ cacheStale \subseteq Users

\* A cached entry is what the tables give, unless somebody is about to delete it, it was
\* filled from a read older than a change, the deletion was lost, or its user joined a
\* role that was being deleted (getUserPermissions, invalidateUsersWithRole).
CacheIsCurrent ==
  \A u \in Users :
    \/ cache[u] \in {NotCached, PermissionsOf(u, members, grants)}
    \/ u \in cacheStale
    \/ \E c \in Clients :
         \/ accessReq[c].op = "invalidate" /\ u \in accessReq[c].users
         \/ accessReq[c].op = "members" /\ u \in members[accessReq[c].row]
====
