---- MODULE Setup ----
(***************************************************************************)
(* The scripts that set up a database: seed-permissions, create-user for   *)
(* the first administrator, assign-role and add-super-admin-wildcard.      *)
(* They are run by hand, one at a time and in any order, every statement   *)
(* is a transaction of its own, and any of them may die half way.          *)
(***************************************************************************)
EXTENDS Routes, FiniteSets

VARIABLES
  rows,     \* modules whose permissions have rows, "*" for the wildcard
  granted,  \* modules whose permissions Super Admin has
  role,     \* the Super Admin role exists
  admin,    \* the administrator: "none", "user" (no role), or "admin"
  script,   \* the script that runs: its step, and the modules it has still to do
  seeded    \* seed-permissions has run to its end with the role there

setupVars == <<rows, granted, role, admin, script, seeded>>

NoScript == [step |-> "none", left |-> <<>>]
Script(step, left) == [step |-> step, left |-> left]

All == {"read", "create", "update", "delete", "approve", "export"}

\* The permissions seeded, by module.
PERMISSIONS ==
  [system |-> All, auth |-> All \ {"approve", "export"}, orders |-> All, procurement |-> All,
   manufacturing |-> All, inventory |-> All, finance |-> All, hr |-> All, payroll |-> All,
   board |-> All, compliance |-> All, reports |-> {"read", "export"},
   notifications |-> {"read", "create", "update"}]

SeedModules ==
  <<"system", "auth", "orders", "procurement", "manufacturing", "inventory", "finance", "hr",
    "payroll", "board", "compliance", "reports", "notifications">>

\* What a token of Super Admin carries.
AdminPermissions ==
  UNION {IF m = "*" THEN {<<"*", "*">>} ELSE {<<m, a>> : a \in PERMISSIONS[m]} : m \in granted}

SetupInit ==
  /\ rows = {}
  /\ granted = {}
  /\ role = FALSE
  /\ admin = "none"
  /\ script = NoScript
  /\ seeded = FALSE

\* create-user: the address is free, and the role is found or created.
StartCreateUser ==
  /\ script = NoScript
  /\ admin = "none"
  /\ role' = TRUE
  /\ script' = Script("insertUser", <<>>)
  /\ UNCHANGED <<rows, granted, admin, seeded>>

\* The user is inserted by a transaction of its own.
InsertUser ==
  /\ script.step = "insertUser"
  /\ admin' = "user"
  /\ script' = Script("giveRole", <<>>)
  /\ UNCHANGED <<rows, granted, role, seeded>>

\* assign-role finds or creates the role for an administrator that exists.
StartAssignRole ==
  /\ script = NoScript
  /\ admin # "none"
  /\ role' = TRUE
  /\ script' = IF admin = "admin" THEN NoScript ELSE Script("giveRole", <<>>)
  /\ UNCHANGED <<rows, granted, admin, seeded>>

GiveRole ==
  /\ script.step = "giveRole"
  /\ admin' = "admin"
  /\ script' = NoScript
  /\ UNCHANGED <<rows, granted, role, seeded>>

StartSeed ==
  /\ script = NoScript
  /\ script' = Script("insertRows", SeedModules)
  /\ UNCHANGED <<rows, granted, role, admin, seeded>>

\* The rows of one module are upserted.
SeedRows ==
  /\ script.step = "insertRows"
  /\ script.left # <<>>
  /\ rows' = rows \cup {Head(script.left)}
  /\ script' = Script("insertRows", Tail(script.left))
  /\ UNCHANGED <<granted, role, admin, seeded>>

\* Mutant: nothing waits for the upserts, and only the rows that are there are granted.
ReadRowsTooEarly ==
  /\ script.step = "insertRows"
  /\ script' = IF ~role THEN NoScript
               ELSE Script("grant", SelectSeq(SeedModules, LAMBDA m : m \in rows))
  /\ UNCHANGED <<rows, granted, role, admin, seeded>>

\* The role is looked up, and without it the script ends; every row is read, those of
\* the wildcard and of other runs too.
ReadRows ==
  /\ script.step = "insertRows"
  /\ script.left = <<>>
  /\ script' = IF ~role THEN NoScript
               ELSE Script("grant", SeedModules \o (IF "*" \in rows THEN <<"*">> ELSE <<>>))
  /\ UNCHANGED <<rows, granted, role, admin, seeded>>

\* The rows of one module are granted to the role.
GrantRows ==
  /\ script.step \in {"grant", "grantWildcard"}
  /\ script.left # <<>>
  /\ granted' = granted \cup {Head(script.left)}
  /\ script' = Script(script.step, Tail(script.left))
  /\ UNCHANGED <<rows, role, admin, seeded>>

EndScript ==
  /\ script.step \in {"grant", "grantWildcard"}
  /\ script.left = <<>>
  /\ script' = NoScript
  /\ seeded' = (seeded \/ script.step = "grant")
  /\ UNCHANGED <<rows, granted, role, admin>>

\* add-super-admin-wildcard: the row is upserted, and without the role the script ends.
AddWildcard ==
  /\ script = NoScript
  /\ rows' = rows \cup {"*"}
  /\ script' = IF role THEN Script("grantWildcard", <<"*">>) ELSE NoScript
  /\ UNCHANGED <<granted, role, admin, seeded>>

CrashScript ==
  /\ script # NoScript
  /\ script' = NoScript
  /\ UNCHANGED <<rows, granted, role, admin, seeded>>

SetupNext ==
  \/ StartCreateUser
  \/ InsertUser
  \/ StartAssignRole
  \/ GiveRole
  \/ StartSeed
  \/ SeedRows
  \/ ReadRows
  \/ GrantRows
  \/ EndScript
  \/ AddWildcard
  \/ CrashScript

SetupSpec == SetupInit /\ [][SetupNext]_setupVars

SetupTypeOK ==
  /\ rows \subseteq DOMAIN PERMISSIONS \cup {"*"}
  /\ granted \subseteq rows
  /\ role \in BOOLEAN
  /\ admin \in {"none", "user", "admin"}
  /\ script.step \in {"none", "insertUser", "giveRole", "insertRows", "grant", "grantWildcard"}
  /\ seeded \in BOOLEAN

\* The table of routes fits the seed: every route is the first to match a call of it,
\* and what it asks for has a row in PERMISSIONS.
RoutesFitSeed ==
  \A i \in DOMAIN Routes :
    /\ Reached[i] = i
    /\ \A p \in Routes[i].needs : \E m \in DOMAIN PERMISSIONS : \E a \in PERMISSIONS[m] : p = <<m, a>>

\* Whatever runs of the scripts came before and died half way: once one seeding ended with
\* the role there, or the wildcard was granted, a call of any route by the administrator
\* reaches that route and is let in.  No earlier route takes it, and no permission a
\* route asks for is missing from the seed (controllers, seed-permissions.ts).
AdminReachesEveryRoute ==
  (admin = "admin" /\ (seeded \/ "*" \in granted)) =>
    \A i \in DOMAIN Routes :
      Reached[i] = i /\ Permitted(AdminPermissions, Routes[i].needs)
====
