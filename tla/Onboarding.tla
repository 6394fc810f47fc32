----------------------------- MODULE Onboarding -----------------------------
(***************************************************************************)
(* The onboarding service of the API (onboarding/onboarding.service.ts),   *)
(* the employee edit (employees/employees.service.ts) and the removal of   *)
(* the last document of a task (documents/documents.service.ts), which     *)
(* sets the task back, as concurrent requests over one database.           *)
(*                                                                         *)
(* A handler is async: it gives way at every call to Prisma, and no        *)
(* handler opens a transaction.  So each Prisma call is one atomic step,   *)
(* and between two steps of a request any step of another may come.  What  *)
(* a handler read earlier it keeps in local variables: "seen" holds the    *)
(* one value it uses again.  A request that is lost stops between two      *)
(* steps (a failed database call, or the process going down with every     *)
(* request in it); what it wrote before stays.                             *)
(***************************************************************************)
EXTENDS CaseStateMachine, Integers, Sequences

CONSTANTS Case, Employee, TaskCode, User,
          Request,              \* the requests of a behaviour, each used once
          caseEmployee,         \* OnboardingCase.employeeId: never updated
          assigneeRole,         \* OnboardingTask.assigneeRole, by task code
          role, userEmployee,   \* User.role and User.employeeId
          reportsTo,            \* Employee.managerEmployeeId at the start
          Calls,                \* bound: the calls clients make
          Faults,               \* TRUE: requests may be lost
          None                  \* null, and an absent field of a DTO

VARIABLES status,               \* OnboardingCase.status
          completedAt,          \* the cases whose completedAt is set
          taskStatus,           \* OnboardingTask.status, by case and code
          empStatus,            \* Employee.status
          manager,              \* Employee.managerEmployeeId
          audit,                \* the audit_log table, in insertion order
          pc, call,             \* per request: its next step and its arguments
          seen, updated,        \* ... what its read and its update returned
          wrote                 \* history: the requests whose data write is done

database == <<status, completedAt, taskStatus, empStatus, manager>>
vars == <<status, completedAt, taskStatus, empStatus, manager,
          audit, pc, call, seen, updated, wrote>>

UserRole       == {"hr_admin", "manager", "employee", "system_admin"}
EmployeeStatus == {"candidate", "active", "terminated"}
TaskStatus     == {"pending", "done", "waived", "rejected"}
AssigneeRole   == {"employee", "manager", "hr"}
CaseOp         == {"accept", "submit", "approve", "return"}
OtherOp        == {"patchTask", "removeDocument", "updateEmployee"}

\* The fields of UpdateEmployeeDto that other handlers read; None leaves the
\* column alone (managerEmployeeId cannot be cleared in this model).
Patch == [status : EmployeeStatus \cup {None}, manager : Employee \cup {None}]

\* A removal is of a document that its user uploaded or may delete as HR, of a case,
\* registered for a task that has no other document left (a removal that leaves one
\* changes nothing here).  That the task is of the case is checked nowhere.
Call == [op : CaseOp, user : User, case : Case]
   \cup [op : {"patchTask"}, user : User, case : Case, task : TaskCode, to : TaskStatus]
   \cup [op : {"removeDocument"}, user : User, case : Case, task : TaskCode, taskCase : Case]
   \cup [op : {"updateEmployee"}, user : User, employee : Employee, patch : Patch]

ASSUME OnboardingAssumption ==
  /\ caseEmployee \in [Case -> Employee]
  /\ assigneeRole \in [TaskCode -> AssigneeRole]
  /\ role \in [User -> UserRole]
  /\ userEmployee \in [User -> Employee \cup {None}]
  /\ reportsTo \in [Employee -> Employee \cup {None}]
  /\ Calls \subseteq Call
  /\ Faults \in BOOLEAN
  /\ None \notin Employee \cup EmployeeStatus /\ None \notin Call

-----------------------------------------------------------------------------
(* What the handlers check.                                                *)

\* The status a case operation writes, and the action its audit row carries.
Target == [accept |-> "in_progress", submit |-> "pending_hr",
           approve |-> "completed", return |-> "in_progress"]
AuditAction == [accept |-> "CASE_ACCEPTED", submit |-> "CASE_SUBMITTED",
                approve |-> "CASE_APPROVED", return |-> "CASE_RETURNED",
                patchTask |-> "TASK_UPDATED", removeDocument |-> "DOCUMENT_DELETED",
                updateEmployee |-> "EMPLOYEE_UPDATED"]

\* A row of audit_log; its entity is that of call[by].  Of a deletion it has no status.
Logged   == CaseStatus \cup TaskStatus \cup EmployeeStatus \cup {None}
AuditRow == [by : Request, action : {AuditAction[o] : o \in DOMAIN AuditAction},
             before : Logged, after : Logged]

\* @Roles(hr_admin) on the route; the other routes admit every signed-in user.
RoleAllowed(k) ==
  k.op \in {"approve", "return", "updateEmployee"} => role[k.user] = "hr_admin"

\* assertCanRead
CanRead(u, e) ==
  \/ role[u] \in {"hr_admin", "system_admin"}
  \/ role[u] = "employee" /\ userEmployee[u] = e
  \/ role[u] = "manager" /\ userEmployee[u] # None /\ manager[e] = userEmployee[u]

\* submit: no employee task of the case is pending or rejected.
EmployeeTask       == {t \in TaskCode : assigneeRole[t] = "employee"}
TaskComplete(c, t) == taskStatus[c][t] \notin {"pending", "rejected"}
EmployeeTasksComplete(c) == \A t \in EmployeeTask : TaskComplete(c, t)

\* Mutants: submit without its check of the tasks; no check of the move.
SubmitUnchecked(k) == /\ CanRead(k.user, caseEmployee[k.case])
                      /\ CanMove(status[k.case], Target[k.op])
AnyMove(k) == /\ CanRead(k.user, caseEmployee[k.case])
              /\ k.op = "submit" => EmployeeTasksComplete(k.case)

\* accept, submit, approve and rejectToInProgress, up to their first write.
\* (Of an employee, assertCanRead has already checked that the case is theirs.)
CaseOpAllowed(k) ==
  /\ CanRead(k.user, caseEmployee[k.case])
  /\ k.op = "submit" => EmployeeTasksComplete(k.case)
  /\ CanMove(status[k.case], Target[k.op])

\* patchTask: everyone who may read the case, on the tasks of their own role;
\* the status of the case is not looked at.
PatchTaskAllowed(k) ==
  /\ CanRead(k.user, caseEmployee[k.case])
  /\ role[k.user] \in {"employee", "manager"} => assigneeRole[k.task] = role[k.user]

Allowed(k) ==
  /\ RoleAllowed(k)
  /\ k.op \in CaseOp => CaseOpAllowed(k)
  /\ k.op = "patchTask" => PatchTaskAllowed(k)
  /\ k.op = "removeDocument" => CanRead(k.user, caseEmployee[k.case])

\* The column a request is about, as its first read finds it.
Current(k) == IF k.op \in CaseOp THEN status[k.case]
              ELSE IF k.op = "patchTask" THEN taskStatus[k.case][k.task]
              ELSE IF k.op = "updateEmployee" THEN empStatus[k.employee]
              ELSE None

-----------------------------------------------------------------------------
(* The steps of a request.                                                 *)

PC == {"idle", "load", "reread", "activate", "write", "audit",
       "done", "refused", "lost"}

Running(r) == pc[r] \in {"load", "reread", "activate", "write", "audit"}

\* Mutants: approve goes through transition and activates nobody; patchTask
\* audits without writing.
ApproveAsTransition ==
  [accept |-> "reread", submit |-> "reread", return |-> "reread",
   approve |-> "reread", patchTask |-> "write", removeDocument |-> "write",
   updateEmployee |-> "write"]
AuditOnly ==
  [accept |-> "reread", submit |-> "reread", return |-> "reread",
   approve |-> "activate", patchTask |-> "audit", removeDocument |-> "write",
   updateEmployee |-> "write"]

\* The write that follows the first read and its checks.  (The storage call, the delete
\* and the count by which a removal comes to its write touch no column of this module.)
AfterLoad == [accept |-> "reread", submit |-> "reread", return |-> "reread",
              approve |-> "activate", patchTask |-> "write", removeDocument |-> "write",
              updateEmployee |-> "write"]

Goto(r, from, to) == pc[r] = from /\ pc' = [pc EXCEPT ![r] = to]

Init == /\ status \in [Case -> {"invited", "in_progress"}]
        /\ completedAt = {}
        /\ taskStatus \in [Case -> [TaskCode -> {"pending", "done"}]]
        /\ empStatus = [e \in Employee |-> "candidate"]
        /\ manager = reportsTo
        /\ audit = << >>
        /\ pc = [r \in Request |-> "idle"]
        /\ call = [r \in Request |-> None]
        /\ seen = [r \in Request |-> None]
        /\ updated = [r \in Request |-> None]
        /\ wrote = {}

\* A client issues a call.
Arrive(r) ==
  /\ Goto(r, "idle", "load")
  /\ \E k \in Calls : call' = [call EXCEPT ![r] = k]
  /\ UNCHANGED <<database, audit, seen, updated, wrote>>

\* The first read (getCase, or findUnique of the task or the employee) and
\* the checks on what it found; they run before the handler gives way again.
Load(r) ==
  /\ Goto(r, "load", AfterLoad[call[r].op])
  /\ Allowed(call[r])
  /\ seen' = [seen EXCEPT ![r] = Current(call[r])]
  /\ UNCHANGED <<database, audit, call, updated, wrote>>

\* The same read, when a check throws: 400, 403 and 404 change nothing.
Refuse(r) ==
  /\ Goto(r, "load", "refused")
  /\ ~Allowed(call[r])
  /\ UNCHANGED <<database, audit, call, seen, updated, wrote>>

\* transition: the second read of the case, only for the audit row.
Reread(r) ==
  /\ Goto(r, "reread", "write")
  /\ seen' = [seen EXCEPT ![r] = status[call[r].case]]
  /\ UNCHANGED <<database, audit, call, updated, wrote>>

\* approve: the employee is activated before the case is completed.
ActivateEmployee(r) ==
  /\ Goto(r, "activate", "write")
  /\ empStatus' = [empStatus EXCEPT ![caseEmployee[call[r].case]] = "active"]
  /\ UNCHANGED <<status, completedAt, taskStatus, manager, audit, call, seen, updated, wrote>>

\* The status write of a case operation: an update by id alone, whatever the
\* status is by now.  approve also stamps completedAt.
WriteCase(r) ==
  /\ Goto(r, "write", "audit")
  /\ call[r].op \in CaseOp
  /\ status' = [status EXCEPT ![call[r].case] = Target[call[r].op]]
  /\ completedAt' = IF call[r].op = "approve"
                    THEN completedAt \cup {call[r].case} ELSE completedAt
  /\ updated' = [updated EXCEPT ![r] = Target[call[r].op]]
  /\ wrote' = wrote \cup {r}
  /\ UNCHANGED <<taskStatus, empStatus, manager, audit, call, seen>>

\* patchTask: the task's completedAt follows its status and is left out.
WriteTask(r) ==
  /\ Goto(r, "write", "audit")
  /\ call[r].op = "patchTask"
  /\ taskStatus' = [taskStatus EXCEPT ![call[r].case][call[r].task] = call[r].to]
  /\ updated' = [updated EXCEPT ![r] = call[r].to]
  /\ wrote' = wrote \cup {r}
  /\ UNCHANGED <<status, completedAt, empStatus, manager, audit, call, seen>>

\* DocumentsService.remove: the task of the last document goes back to pending, by its
\* id alone: whatever the status of the case is, and whatever the task's own.
ResetTask(r) ==
  /\ Goto(r, "write", "audit")
  /\ call[r].op = "removeDocument"
  /\ taskStatus' = [taskStatus EXCEPT ![call[r].taskCase][call[r].task] = "pending"]
  /\ wrote' = wrote \cup {r}
  /\ UNCHANGED <<status, completedAt, empStatus, manager, audit, call, seen, updated>>

\* EmployeesService.update: the fields the request body has.
WriteEmployee(r) ==
  /\ Goto(r, "write", "audit")
  /\ call[r].op = "updateEmployee"
  /\ LET e == call[r].employee
         p == call[r].patch
     IN /\ empStatus' = IF p.status = None THEN empStatus
                        ELSE [empStatus EXCEPT ![e] = p.status]
        /\ manager' = IF p.manager = None THEN manager
                      ELSE [manager EXCEPT ![e] = p.manager]
        /\ updated' = [updated EXCEPT ![r] = empStatus'[e]]
  /\ wrote' = wrote \cup {r}
  /\ UNCHANGED <<status, completedAt, taskStatus, audit, call, seen>>

\* Mutant: before and after are swapped.
AppendSwapped(r) ==
  /\ Goto(r, "audit", "done")
  /\ audit' = Append(audit, [by |-> r, action |-> AuditAction[call[r].op],
                             before |-> updated[r], after |-> seen[r]])
  /\ UNCHANGED <<database, call, seen, updated, wrote>>

\* audit.append, the last call of every handler.
AppendAudit(r) ==
  /\ Goto(r, "audit", "done")
  /\ audit' = Append(audit, [by |-> r, action |-> AuditAction[call[r].op],
                             before |-> seen[r], after |-> updated[r]])
  /\ UNCHANGED <<database, call, seen, updated, wrote>>

\* The request stops between two steps.
Lose(r) ==
  /\ Faults /\ Running(r)
  /\ pc' = [pc EXCEPT ![r] = "lost"]
  /\ UNCHANGED <<database, audit, call, seen, updated, wrote>>

Step(r) == \/ Load(r) \/ Refuse(r) \/ Reread(r) \/ ActivateEmployee(r)
           \/ WriteCase(r) \/ WriteTask(r) \/ ResetTask(r) \/ WriteEmployee(r)
           \/ AppendAudit(r)

Next == \E r \in Request : Arrive(r) \/ Step(r) \/ Lose(r)

Spec == Init /\ [][Next]_vars

-----------------------------------------------------------------------------
(* Type correctness.                                                       *)

\* Every variable keeps its type, and a request that has arrived has a call
\* that its next step belongs to.
TypeOK ==
  /\ status \in [Case -> CaseStatus]
  /\ completedAt \in SUBSET Case
  /\ taskStatus \in [Case -> [TaskCode -> TaskStatus]]
  /\ empStatus \in [Employee -> EmployeeStatus]
  /\ manager \in [Employee -> Employee \cup {None}]
  /\ audit \in Seq(AuditRow)
  /\ pc \in [Request -> PC]
  /\ call \in [Request -> Calls \cup {None}]
  /\ seen \in [Request -> Logged]
  /\ updated \in [Request -> Logged]
  /\ wrote \in SUBSET Request
  /\ \A r \in Request : /\ pc[r] = "idle" <=> call[r] = None
                        /\ pc[r] = "reread" => call[r].op \in CaseOp \ {"approve"}
                        /\ pc[r] = "activate" => call[r].op = "approve"

-----------------------------------------------------------------------------
(* Properties that hold whatever the interleaving and the losses.          *)

\* HR has set the status of the employee by an edit.
StatusEdited(e) == \E q \in wrote : /\ call[q].op = "updateEmployee"
                                    /\ call[q].employee = e
                                    /\ call[q].patch.status # None

Activated(e) == empStatus[e] = "active" \/ StatusEdited(e)

\* A case is never stamped completed for an employee who has not been made
\* active: approve activates first, so a request lost between its two writes
\* leaves a case to approve again and not a finished case with a candidate.
ActivatedBeforeCompleted ==
  \A c \in completedAt : Activated(caseEmployee[c])

\* A submission of the case has been written.
Submitted(c) == \E q \in wrote : call[q].op = "submit" /\ call[q].case = c

\* However requests overlap, no case is under review or completed that was
\* never submitted: approve's check of a status read earlier, and status
\* writes that do not look at the column, never skip the submission.
ApprovedOnlyIfSubmitted ==
  \A c \in Case : status[c] \in {"pending_hr", "completed"} \/ c \in completedAt
                    => Submitted(c)

\* The call sets task t of case c back: an edit of the task by patchTask, or the removal
\* of its last document.
SetsBack(k, c, t) ==
  \/ k.op = "patchTask" /\ k.case = c /\ k.task = t /\ k.to \in {"pending", "rejected"}
  \/ k.op = "removeDocument" /\ k.taskCase = c /\ k.task = t

\* The task has been set back.
Reopened(c, t) == \E q \in wrote : SetsBack(call[q], c, t)

\* Each employee task of the case is complete, or has been set back.
WorkDone(c) == \A t \in EmployeeTask : TaskComplete(c, t) \/ Reopened(c, t)

\* The submit check is made on a snapshot and nothing locks the tasks of a case under
\* review; yet a task is incomplete there only if that very task was set back, by an
\* edit or by the removal of its last document: no interleaving of moves, of edits that
\* complete tasks and of losses brings other incomplete work to review.
ReviewedWorkIsComplete ==
  \A c \in Case : status[c] \in {"pending_hr", "completed"} => WorkDone(c)

\* The audit log never reports a change that was not made, never reports one
\* twice, and has every change whose request was not lost after its write.
AuditMatchesWrites ==
  /\ \A i \in 1..Len(audit) : audit[i].by \in wrote
  /\ \A i, j \in 1..Len(audit) : audit[i].by = audit[j].by => i = j
  /\ \A r \in wrote : pc[r] \in {"audit", "lost"}
                        \/ \E i \in 1..Len(audit) : audit[i].by = r

-----------------------------------------------------------------------------
(* Which requests must not overlap.  Nothing in the code keeps them apart; *)
(* they are when one request runs at a time.                               *)

\* The request is between its check of the status of its case and its write.
Moving(r) == pc[r] \in {"reread", "activate", "write"} /\ call[r].op \in CaseOp

\* No two such requests are of the same case.
MovesApart == \A q, r \in Request :
  Moving(q) /\ Moving(r) /\ call[q].case = call[r].case => q = r

\* No employee task of a case is about to be set back, by an edit or by a removal, while
\* a submission of the case has checked them and not written.
SubmitsApart == \A q, r \in Request :
  Moving(q) /\ call[q].op = "submit" /\ pc[r] = "write"
    => \A t \in EmployeeTask : ~SetsBack(call[r], call[q].case, t)

\* No edit is about to make an employee something else than active between the two
\* writes of an approval.
EditsApart == \A q, r \in Request :
  /\ Moving(q) /\ call[q].op = "approve" /\ pc[q] = "write"
  /\ pc[r] = "write" /\ call[r].op = "updateEmployee"
  /\ call[r].employee = caseEmployee[call[q].case]
  => call[r].patch.status \in {None, "active"}

\* The request is between the read for its audit row and that row.
Tracing(r) == pc[r] \in {"activate", "write", "audit"} /\ call[r].op \in CaseOp

\* No two such requests are of the same case.
TrailApart == \A q, r \in Request :
  Tracing(q) /\ Tracing(r) /\ call[q].case = call[r].case => q = r

Apart == MovesApart /\ SubmitsApart /\ EditsApart /\ TrailApart

-----------------------------------------------------------------------------
(* Properties of requests that are kept apart.                             *)

\* The request is about the status of case c.
About(r, c) == call[r] # None /\ call[r].op \in CaseOp /\ call[r].case = c

\* The positions in the audit log of the rows about the status of case c.
Trail(c) == {i \in 1..Len(audit) : About(audit[i].by, c)}

\* Each row of the trail starts from the status that the one before it reports.
Linked(c) == \A i, j \in Trail(c) :
  i < j /\ (\A k \in Trail(c) : k <= i \/ j <= k) => audit[j].before = audit[i].after

\* The last row of the trail, if there is one, reports status s.
EndsWith(c, s) == \A i \in Trail(c) : (\A k \in Trail(c) : k <= i) => audit[i].after = s

\* The request wrote the status of case c, and its row is not in the log.
Unlogged(r, c) == About(r, c) /\ r \in wrote /\ pc[r] # "done"

\* Read in order, the audit rows of a case are a chain that ends in its current
\* status, unless a write of it is not in the log, yet or for good.
TrailExplainsStatus ==
  \A c \in Case : (\A r \in Request : ~Unlogged(r, c)) => Linked(c) /\ EndsWith(c, status[c])

\* The row of a write of the status of case c was lost.
RowLost(c) == \E r \in Request : Unlogged(r, c) /\ pc[r] = "lost"

\* The trail is a chain; it ends in the status but for a row to come; a request that
\* read the status for its row read the trail's end.
TrailHolds(c) ==
  /\ Linked(c)
  /\ EndsWith(c, status[c]) \/ \E r \in Request : About(r, c) /\ pc[r] = "audit"
  /\ \A r \in Request : About(r, c) =>
       /\ pc[r] \in {"activate", "write"} => seen[r] = status[c]
       /\ pc[r] = "audit" => updated[r] = status[c] /\ EndsWith(c, seen[r])

\* The inductive invariant behind TrailExplainsStatus, with TrailApart: the trail of
\* every case holds until a row of it is lost.
TrailInductive == \A c \in Case : RowLost(c) \/ TrailHolds(c)

\* The inductive invariants behind ImplementsLifecycle and CompletedIsFinal: what a
\* request on its way to its write has checked still holds: the move (with MovesApart),
\* the tasks (with SubmitsApart), and the employee made active (with EditsApart).
MovesHold == \A r \in Request :
  Moving(r) => CanMove(status[call[r].case], Target[call[r].op])
TasksHold == \A r \in Request :
  Moving(r) /\ call[r].op = "submit" => EmployeeTasksComplete(call[r].case)
ActiveHolds == \A r \in Request :
  Moving(r) /\ call[r].op = "approve" /\ pc[r] = "write"
    => empStatus[caseEmployee[call[r].case]] = "active"

\* The service implements CaseLifecycle: a case is ready when its employee
\* tasks are complete, an employee is active when the column says so.
Lifecycle == INSTANCE CaseLifecycle WITH
               ready  <- {c \in Case : EmployeeTasksComplete(c)},
               active <- {e \in Employee : empStatus[e] = "active"}

\* A step of a handler is one move of CaseLifecycle, or none.
ImplementsLifecycle == Lifecycle!Spec

-----------------------------------------------------------------------------
(* What tests and documents say and the code does not keep.                *)

\* case-state.machine.spec.ts: TRANSITIONS.completed is empty, so a completed
\* case keeps its status.
CompletedIsFinal ==
  [][\A c \in Case : status[c] = "completed" => status'[c] = "completed"]_vars
=============================================================================
