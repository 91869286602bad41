---- MODULE Platform ----
(***************************************************************************)
(* The records of the staff, the accounts of the users and what every call *)
(* of the system passes through.  As in Documents, the modules share no    *)
(* state and one of them is used (desk), chosen at the start.              *)
(***************************************************************************)
EXTENDS
  Leave, Provident, Gratuity, Employees, Attendance, Sessions, Access, Jobs,
  DeadLetters, Notifications, Throttle, Gateway, Setup

VARIABLE desk  \* the part of the system that is used

Desks ==
  {"leave", "provident", "gratuity", "employees", "attendance", "lockout", "sessions",
   "access", "jobs", "deadLetters", "notifications", "throttle", "gateway", "setup"}

\* Where no job runs, it does not matter which one is looked at.
PlatformInit ==
  /\ desk \in Desks
  /\ LeaveInit
  /\ ProvidentInit
  /\ GratuityInit
  /\ EmployeesInit
  /\ AttendanceInit
  /\ LockoutInit
  /\ SessionsInit
  /\ AccessInit
  /\ JobsInit /\ (desk # "jobs" => scheduled = "compliance")
  /\ DeadLettersInit
  /\ NotificationsInit
  /\ ThrottleInit
  /\ GatewayInit
  /\ SetupInit

platformVars ==
  <<desk, leaveVars, pfVars, gratuityVars, employeeVars, attendanceVars, lockoutVars, sessionVars,
    accessVars, jobVars, deadLetterVars, notificationVars, throttleVars, gatewayVars,
    setupVars>>

\* A step of one part leaves the others alone.
Only(part) ==
  /\ desk = part
  /\ UNCHANGED desk
  /\ part # "leave" => UNCHANGED leaveVars
  /\ part # "provident" => UNCHANGED pfVars
  /\ part # "gratuity" => UNCHANGED gratuityVars
  /\ part # "employees" => UNCHANGED employeeVars
  /\ part # "attendance" => UNCHANGED attendanceVars
  /\ part # "lockout" => UNCHANGED lockoutVars
  /\ part # "sessions" => UNCHANGED sessionVars
  /\ part # "access" => UNCHANGED accessVars
  /\ part # "jobs" => UNCHANGED jobVars
  /\ part # "deadLetters" => UNCHANGED deadLetterVars
  /\ part # "notifications" => UNCHANGED notificationVars
  /\ part # "throttle" => UNCHANGED throttleVars
  /\ part # "gateway" => UNCHANGED gatewayVars
  /\ part # "setup" => UNCHANGED setupVars

PlatformNext ==
  \/ Only("leave") /\ LeaveNext
  \/ Only("provident") /\ ProvidentNext
  \/ Only("gratuity") /\ GratuityNext
  \/ Only("employees") /\ EmployeesNext
  \/ Only("attendance") /\ AttendanceNext
  \/ Only("lockout") /\ LockoutNext
  \/ Only("sessions") /\ SessionsNext
  \/ Only("access") /\ AccessNext
  \/ Only("jobs") /\ JobsNext
  \/ Only("deadLetters") /\ DeadLettersNext
  \/ Only("notifications") /\ NotificationsNext
  \/ Only("throttle") /\ ThrottleNext
  \/ Only("gateway") /\ GatewayNext
  \/ Only("setup") /\ SetupNext

PlatformSpec == PlatformInit /\ [][PlatformNext]_platformVars

PlatformTypeOK ==
  /\ desk \in Desks
  /\ LeaveTypeOK
  /\ ProvidentTypeOK
  /\ GratuityTypeOK
  /\ EmployeesTypeOK
  /\ AttendanceTypeOK
  /\ LockoutTypeOK
  /\ SessionsTypeOK
  /\ AccessTypeOK
  /\ JobsTypeOK
  /\ DeadLettersTypeOK
  /\ NotificationsTypeOK
  /\ ThrottleTypeOK
  /\ GatewayTypeOK
  /\ SetupTypeOK

\* What an employee is owed is what the records add up to: leave taken, the provident
\* fund and the gratuity charged; and leaves do not overlap (LeaveService, PfService,
\* GratuityService).
BalancesAddUp ==
  /\ UsedIsApproved
  /\ LeavesDoNotOverlap
  /\ BalanceIsCredits
  /\ ChargedOnce

\* History tells how the rows came to be what they are: employment events explain the
\* employee, corrections the attendance (EmployeesService, AttendanceService).
HistoryExplainsState == EventsExplainEmployee /\ ManualIsExplained

\* A job runs on one instance at a time and what it sends arrives once: the locks of the
\* schedulers and of the interest run, the mails of the compliance check, the jobs that
\* have failed for good.  Open tabs keep their stream, and the notices that are written to
\* the table are pushed to none of them.
DeliveredOnce ==
  /\ JobsRunAlone
  /\ InterestRunsAlone
  /\ MarkedIsMailed
  /\ ParkedOnceExhausted
  /\ TabsKeepTheirSubject
  /\ NothingIsPushed

\* Who may do what follows the accounts and the roles: refresh tokens are used once and end
\* with the change of the password and with the account, wrong passwords and calls are
\* counted, cached permissions are those of the tables, and a permission taken away is gone
\* when the last token that carries it ends (AuthService, UsersService, RolesService,
\* RedisSlidingWindowStorage, JwtAuthGuard, RbacGuard).
AccessIsCurrent ==
  /\ TokenRotatesOnce
  /\ OldSessionsEnd
  /\ FailuresAreCounted
  /\ CacheIsCurrent
  /\ WindowHolds
  /\ ServedWithinTtl
====
