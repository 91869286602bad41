---- MODULE Employees ----
(***************************************************************************)
(* The row of an employee and its employment events: EmployeesService.  An *)
(* update reads the employee, and a transaction then writes the row and    *)
(* inserts an event for a transfer and for a salary revision, whose old    *)
(* values are those that were read.  Secrets are a row of their own, whose *)
(* reading is logged.                                                      *)
(***************************************************************************)
EXTENDS Requests, Sequences

CONSTANTS
  Departments,
  Salaries,
  SecretFields,  \* nid, passport, bankAccount, ...
  MaxEvents      \* bound: employment events

ASSUME EmployeesAssumption == Salaries \subseteq Nat \ {0} /\ MaxEvents \in Nat \ {0}

VARIABLES
  employee,          \* the row; no department before it is created
  events,            \* its employment events, oldest first
  secrets,           \* fields of hr.employee_secrets that are stored
  revealLogged,      \* the audit log has an entry of a reveal
  employeeReq,       \* the request of each client
  employeeOvertaken  \* an update wrote over one it had not seen

employeeVars == <<employee, events, secrets, revealLogged, employeeReq, employeeOvertaken>>

EmployeeStatus == {"active", "probation", "notice_period", "resigned", "terminated"}

EmployeesInit ==
  /\ employee = [department |-> NoRow, salary |-> 0, status |-> "active"]
  /\ events = <<>>
  /\ secrets = {}
  /\ revealLogged = FALSE
  /\ employeeReq = [c \in Clients |-> Idle]
  /\ employeeOvertaken = FALSE

Employed == employee.department # NoRow

Event(type, old, new) == [type |-> type, old |-> old, new |-> new]

\* create: the row, its secrets and the hire, in one transaction.  A code that exists
\* violates the unique index.
Hire ==
  /\ ~Employed
  /\ \E dept \in Departments, salary \in Salaries, fields \in SUBSET SecretFields :
       /\ employee' = [department |-> dept, salary |-> salary, status |-> "active"]
       /\ secrets' = fields
       /\ events' = <<Event("hire", NoRow, [department |-> dept, salary |-> salary])>>
  /\ UNCHANGED <<revealLogged, employeeReq, employeeOvertaken>>

\* update, terminate and resign read the employee: what they are to write leaves a
\* value as it is, or changes it.
ReadEmployee(c) ==
  /\ employeeReq[c] = Idle
  /\ Employed
  /\ \E dept \in Departments \cup {NoRow}, salary \in Salaries \cup {0},
        status \in {employee.status, "resigned", "terminated"} :
       employeeReq' = [employeeReq EXCEPT ![c] =
         [op |-> "update", row |-> "employee", existing |-> employee,
          department |-> dept, salary |-> salary, status |-> status, stale |-> FALSE]]
  /\ UNCHANGED <<employee, events, secrets, revealLogged, employeeOvertaken>>

\* Mutant: a new salary is compared with the row after the update.
RevisionsMissed(r) == <<>>

\* The salary revision of an update.
Revisions(r) ==
  IF r.salary # 0 /\ r.salary # r.existing.salary
  THEN <<Event("salary_revision", r.existing.salary, r.salary)>> ELSE <<>>

Transfers(r) ==
  IF r.department # NoRow /\ r.department # r.existing.department
  THEN <<Event("transfer", r.existing.department, r.department)>> ELSE <<>>

UpdateEmployee(c) ==
  /\ employeeReq[c].op = "update"
  /\ LET r == employeeReq[c]
     IN /\ employee' = [department |-> IF r.department = NoRow THEN employee.department ELSE r.department,
                        salary |-> IF r.salary = 0 THEN employee.salary ELSE r.salary,
                        status |-> IF r.status = r.existing.status THEN employee.status ELSE r.status]
        /\ events' = events \o Transfers(r) \o Revisions(r)
        /\ Len(events') <= MaxEvents
        /\ \E fields \in SUBSET SecretFields : secrets' = secrets \cup fields
        /\ employeeReq' = Overtake(employeeReq, c, Idle, LAMBDA d : employeeReq[d].op = "update")
        /\ employeeOvertaken' = (employeeOvertaken \/ r.stale)
  /\ UNCHANGED revealLogged

\* updateSecrets: a field that is not given is kept.
UpdateSecrets ==
  /\ Employed
  /\ \E fields \in SUBSET SecretFields : secrets' = secrets \cup fields
  /\ UNCHANGED <<employee, events, revealLogged, employeeReq, employeeOvertaken>>

\* revealSecrets writes the audit log before it decrypts what it has read.
RevealSecrets ==
  /\ Employed
  /\ secrets # {}
  /\ revealLogged' = TRUE
  /\ UNCHANGED <<employee, events, secrets, employeeReq, employeeOvertaken>>

DropEmployeeRequest(c) ==
  /\ employeeReq[c] # Idle
  /\ employeeReq' = [employeeReq EXCEPT ![c] = Idle]
  /\ UNCHANGED <<employee, events, secrets, revealLogged, employeeOvertaken>>

EmployeesNext ==
  \/ Hire
  \/ UpdateSecrets
  \/ RevealSecrets
  \/ \E c \in Clients :
       \/ ReadEmployee(c)
       \/ UpdateEmployee(c)
       \/ DropEmployeeRequest(c)

EmployeesSpec == EmployeesInit /\ [][EmployeesNext]_employeeVars

EmployeesTypeOK ==
  /\ employee \in [department : Departments \cup {NoRow}, salary : Salaries \cup {0}, status : EmployeeStatus]
  /\ Len(events) <= MaxEvents
  /\ \A k \in DOMAIN events : events[k].type \in {"hire", "transfer", "salary_revision"}
  /\ secrets \subseteq SecretFields
  /\ \A c \in Clients : employeeReq[c] # Idle => employeeReq[c].op = "update"
  /\ {revealLogged, employeeOvertaken} \subseteq BOOLEAN

\* Event k is the last one of its type before event n.
LastOf(type, k, n) ==
  /\ k \in DOMAIN events /\ k < n
  /\ events[k].type = type
  /\ \A j \in DOMAIN events : j < n /\ events[j].type = type => j <= k

\* What the events before event n say the employee has: what the last of their type says,
\* or what was agreed at the hire.
Says(type, n, hired, value) ==
  \/ \E k \in DOMAIN events : LastOf(type, k, n) /\ events[k].new = value
  \/ /\ \A k \in DOMAIN events : k < n => events[k].type # type
     /\ value = hired

\* The events of a type lead from the hire to what the row has.
Told(type, hired, value) ==
  /\ \A n \in DOMAIN events : events[n].type = type => Says(type, n, hired, events[n].old)
  /\ Says(type, Len(events) + 1, hired, value)

\* The employment events lead without a gap from the hire to the salary and the
\* department of today, unless two updates read one row (update).
EventsExplainEmployee ==
  Employed /\ ~employeeOvertaken =>
    LET hired == events[1].new
    IN /\ Told("salary_revision", hired.salary, employee.salary)
       /\ Told("transfer", hired.department, employee.department)
====
