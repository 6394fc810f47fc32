-------------------------- MODULE OnboardingProofs --------------------------
(***************************************************************************)
(* Proofs about module Onboarding, for any sets of cases, employees, users *)
(* and requests, any calls, with and without overlap and losses.           *)
(***************************************************************************)
EXTENDS Onboarding, TLAPS

-----------------------------------------------------------------------------
(* The inductive invariant.                                                *)

\* What the code has secured for a request between its check and its write:
\* a submission past its check has each task complete unless it was set back;
\* an approval has in addition a submission, and past its first write
\* an employee who is active unless edited since.
Secured(r) == LET k == call[r] IN
  /\ k.op \in {"submit", "approve"} => WorkDone(k.case)
  /\ k.op = "approve" => /\ Submitted(k.case)
                         /\ pc[r] = "write" => Activated(caseEmployee[k.case])

\* The next step of a request tells whether it has written.
WroteByStep ==
  /\ \A r \in Request : /\ r \in wrote => pc[r] \in {"audit", "done", "lost"}
                        /\ pc[r] \in {"audit", "done"} => r \in wrote
  /\ \A i \in 1..Len(audit) : pc[audit[i].by] = "done"

\* The inductive invariant behind the audit and the safety properties: they hold, and
\* every request on its way to its write has what that write relies on.
Inductive ==
  /\ WroteByStep /\ AuditMatchesWrites
  /\ ActivatedBeforeCompleted /\ ApprovedOnlyIfSubmitted /\ ReviewedWorkIsComplete
  /\ \A r \in Request : pc[r] \in {"reread", "activate", "write"} => Secured(r)

-----------------------------------------------------------------------------
(* Lemmas about the calls.                                                 *)

\* Which fields a call has, by its operation.
LEMMA CallFields ==
  ASSUME NEW k \in Calls
  PROVE  /\ k.op \in CaseOp \cup OtherOp
         /\ k.op \in CaseOp => k.case \in Case
         /\ k.op = "patchTask" => k.case \in Case /\ k.task \in TaskCode /\ k.to \in TaskStatus
         /\ k.op = "removeDocument" => k.case \in Case /\ k.task \in TaskCode /\ k.taskCase \in Case
         /\ k.op = "updateEmployee" => /\ k.employee \in Employee
                                       /\ k.patch.status \in EmployeeStatus \cup {None}
                                       /\ k.patch.manager \in Employee \cup {None}
<1>1. k \in Call
  BY OnboardingAssumption
<1>2. CASE k \in [op : CaseOp, user : User, case : Case]
  BY <1>2 DEF CaseOp, OtherOp
<1>3. CASE k \in [op : {"patchTask"}, user : User, case : Case, task : TaskCode, to : TaskStatus]
  BY <1>3 DEF CaseOp, OtherOp
<1>4. CASE k \in [op : {"updateEmployee"}, user : User, employee : Employee, patch : Patch]
  BY <1>4 DEF CaseOp, OtherOp, Patch
<1>5. CASE k \in [op : {"removeDocument"}, user : User, case : Case, task : TaskCode, taskCase : Case]
  BY <1>5 DEF CaseOp, OtherOp
<1>6. QED
  BY <1>1, <1>2, <1>3, <1>4, <1>5 DEF Call

\* The tables indexed by operation.
LEMMA OpTables ==
  /\ Target["approve"] = "completed" /\ Target["submit"] = "pending_hr"
  /\ Target["accept"] = "in_progress" /\ Target["return"] = "in_progress"
  /\ AfterLoad["accept"] = "reread" /\ AfterLoad["submit"] = "reread"
  /\ AfterLoad["return"] = "reread" /\ AfterLoad["approve"] = "activate"
  /\ AfterLoad["patchTask"] = "write" /\ AfterLoad["updateEmployee"] = "write"
  /\ AfterLoad["removeDocument"] = "write"
  /\ DOMAIN AuditAction = CaseOp \cup OtherOp
<1>1. /\ Target["approve"] = "completed" /\ Target["submit"] = "pending_hr"
      /\ Target["accept"] = "in_progress" /\ Target["return"] = "in_progress"
  BY DEF Target
<1>2. /\ AfterLoad["accept"] = "reread" /\ AfterLoad["submit"] = "reread"
      /\ AfterLoad["return"] = "reread" /\ AfterLoad["approve"] = "activate"
      /\ AfterLoad["patchTask"] = "write" /\ AfterLoad["updateEmployee"] = "write"
      /\ AfterLoad["removeDocument"] = "write"
  BY DEF AfterLoad
<1>3. DOMAIN AuditAction = CaseOp \cup OtherOp
  BY DEF AuditAction, CaseOp, OtherOp
<1>4. QED
  BY <1>1, <1>2, <1>3

-----------------------------------------------------------------------------
(* Type correctness.                                                       *)

LEMMA InitType == Init => TypeOK
BY OnboardingAssumption DEF Init, TypeOK, CaseStatus, TaskStatus, EmployeeStatus, Logged, PC, AuditRow

LEMMA StepType == TypeOK /\ [Next]_vars => TypeOK'
<1> SUFFICES ASSUME TypeOK, [Next]_vars PROVE TypeOK'
  OBVIOUS
<1> USE OnboardingAssumption
<1>1. ASSUME NEW r \in Request, Arrive(r) PROVE TypeOK'
  BY <1>1 DEF Arrive, TypeOK, Goto, PC, database
<1>2. ASSUME NEW r \in Request, Load(r) PROVE TypeOK'
  <2>1. call[r] \in Calls
    BY <1>2 DEF Load, Goto, TypeOK
  <2>2. Current(call[r]) \in Logged
    BY <2>1, CallFields DEF Current, TypeOK, Logged, OtherOp
  <2>3. /\ AfterLoad[call[r].op] \in {"reread", "activate", "write"}
        /\ AfterLoad[call[r].op] = "reread" => call[r].op \in CaseOp \ {"approve"}
        /\ AfterLoad[call[r].op] = "activate" => call[r].op = "approve"
    BY <2>1, CallFields, OpTables DEF CaseOp, OtherOp
  <2>4. QED
    BY <1>2, <2>2, <2>3 DEF Load, Goto, TypeOK, PC, database
<1>3. ASSUME NEW r \in Request, Refuse(r) PROVE TypeOK'
  BY <1>3 DEF Refuse, Goto, TypeOK, PC, database
<1>4. ASSUME NEW r \in Request, Reread(r) PROVE TypeOK'
  <2>1. call[r] \in Calls /\ call[r].op \in CaseOp
    BY <1>4 DEF Reread, Goto, TypeOK
  <2>2. status[call[r].case] \in CaseStatus
    BY <2>1, CallFields DEF TypeOK
  <2>3. QED
    BY <1>4, <2>2 DEF Reread, Goto, TypeOK, PC, Logged, database
<1>5. ASSUME NEW r \in Request, ActivateEmployee(r) PROVE TypeOK'
  BY <1>5 DEF ActivateEmployee, Goto, TypeOK, PC, EmployeeStatus
<1>6. ASSUME NEW r \in Request, WriteCase(r) PROVE TypeOK'
  <2>1. call[r] \in Calls
    BY <1>6 DEF WriteCase, Goto, TypeOK
  <2>2. call[r].case \in Case /\ Target[call[r].op] \in CaseStatus
    BY <1>6, <2>1, CallFields, OpTables DEF WriteCase, CaseOp, CaseStatus
  <2>3. QED
    BY <1>6, <2>2 DEF WriteCase, Goto, TypeOK, PC, Logged
<1>7. ASSUME NEW r \in Request, WriteTask(r) PROVE TypeOK'
  <2>1. call[r] \in Calls
    BY <1>7 DEF WriteTask, Goto, TypeOK
  <2>2. call[r].case \in Case /\ call[r].task \in TaskCode /\ call[r].to \in TaskStatus
    BY <1>7, <2>1, CallFields DEF WriteTask
  <2>3. QED
    BY <1>7, <2>2 DEF WriteTask, Goto, TypeOK, PC, Logged
<1>8. ASSUME NEW r \in Request, WriteEmployee(r) PROVE TypeOK'
  <2>1. call[r] \in Calls
    BY <1>8 DEF WriteEmployee, Goto, TypeOK
  <2>2. /\ call[r].employee \in Employee
        /\ call[r].patch.status \in EmployeeStatus \cup {None}
        /\ call[r].patch.manager \in Employee \cup {None}
    BY <1>8, <2>1, CallFields DEF WriteEmployee
  <2>3. empStatus' \in [Employee -> EmployeeStatus] /\ manager' \in [Employee -> Employee \cup {None}]
    BY <1>8, <2>2 DEF WriteEmployee, TypeOK
  <2>4. updated' \in [Request -> Logged]
    BY <1>8, <2>2, <2>3 DEF WriteEmployee, TypeOK, Logged
  <2>5. QED
    BY <1>8, <2>3, <2>4 DEF WriteEmployee, Goto, TypeOK, PC
<1>9. ASSUME NEW r \in Request, AppendAudit(r) PROVE TypeOK'
  <2>1. call[r] \in Calls
    BY <1>9 DEF AppendAudit, Goto, TypeOK
  <2>2. call[r].op \in DOMAIN AuditAction
    BY <2>1, CallFields, OpTables
  <2>3. [by |-> r, action |-> AuditAction[call[r].op], before |-> seen[r],
         after |-> updated[r]] \in AuditRow
    BY <2>2 DEF AuditRow, TypeOK
  <2>4. audit' \in Seq(AuditRow)
    BY <1>9, <2>3 DEF AppendAudit, TypeOK
  <2>5. QED
    BY <1>9, <2>4 DEF AppendAudit, Goto, TypeOK, PC, database
<1>10. ASSUME NEW r \in Request, Lose(r) PROVE TypeOK'
  BY <1>10 DEF Lose, Running, TypeOK, PC, database
<1>11. ASSUME NEW r \in Request, ResetTask(r) PROVE TypeOK'
  <2>1. call[r] \in Calls
    BY <1>11 DEF ResetTask, Goto, TypeOK
  <2>2. call[r].taskCase \in Case /\ call[r].task \in TaskCode
    BY <1>11, <2>1, CallFields DEF ResetTask
  <2>3. QED
    BY <1>11, <2>2 DEF ResetTask, Goto, TypeOK, PC, TaskStatus
<1>12. CASE UNCHANGED vars
  BY <1>12 DEF vars, TypeOK
<1>13. QED
  BY <1>1, <1>2, <1>3, <1>4, <1>5, <1>6, <1>7, <1>8, <1>9, <1>10, <1>11, <1>12 DEF Next, Step

\* Every variable keeps its type in every reachable state.
THEOREM TypeCorrect == Spec => []TypeOK
BY InitType, StepType, PTL DEF Spec

-----------------------------------------------------------------------------
(* The audit log.                                                          *)

AuditInv == WroteByStep /\ AuditMatchesWrites

LEMMA AuditStep == TypeOK /\ AuditInv /\ [Next]_vars => AuditInv'
<1> SUFFICES ASSUME TypeOK, AuditInv, [Next]_vars PROVE AuditInv'
  OBVIOUS
<1> USE DEF AuditInv, WroteByStep, AuditMatchesWrites
<1>0. /\ audit \in Seq(AuditRow)
      /\ \A i \in 1..Len(audit) : audit[i].by \in Request
  <2>1. audit \in Seq(AuditRow)
    BY DEF TypeOK
  <2>2. \A i \in 1..Len(audit) : audit[i] \in AuditRow
    BY <2>1
  <2>3. QED
    BY <2>1, <2>2 DEF AuditRow
<1>1. ASSUME NEW r \in Request, pc[r] \notin {"audit", "done", "lost"},
             pc' = [pc EXCEPT ![r] = pc'[r]], pc'[r] \notin {"audit", "done"},
             UNCHANGED <<audit, wrote>>
      PROVE  AuditInv'
  BY <1>0, <1>1 DEF TypeOK
<1>2. ASSUME NEW r \in Request, pc[r] = "write", pc' = [pc EXCEPT ![r] = "audit"],
             wrote' = wrote \cup {r}, UNCHANGED audit
      PROVE  AuditInv'
  BY <1>0, <1>2 DEF TypeOK
<1>3. ASSUME NEW r \in Request, AppendAudit(r) PROVE AuditInv'
  <2>1. /\ pc[r] = "audit" /\ pc' = [pc EXCEPT ![r] = "done"]
        /\ r \in wrote /\ wrote' = wrote
    BY <1>3 DEF AppendAudit, Goto
  <2>2. PICK row \in AuditRow : audit' = Append(audit, row) /\ row.by = r
    <3>1. audit' = Append(audit, [by |-> r, action |-> AuditAction[call[r].op],
                                  before |-> seen[r], after |-> updated[r]])
      BY <1>3 DEF AppendAudit
    <3>2. call[r] \in Calls
      BY <2>1 DEF TypeOK
    <3>3. call[r].op \in DOMAIN AuditAction
      BY <3>2, CallFields, OpTables
    <3>4. [by |-> r, action |-> AuditAction[call[r].op], before |-> seen[r],
           after |-> updated[r]] \in AuditRow
      BY <3>3 DEF AuditRow, TypeOK
    <3>5. QED
      BY <3>1, <3>4
  <2>3. /\ Len(audit') = Len(audit) + 1
        /\ \A i \in 1..Len(audit) : audit'[i] = audit[i]
        /\ audit'[Len(audit) + 1] = row
    BY <1>0, <2>2
  <2>4. Len(audit) \in Nat
    BY <1>0
  <2>5. \A i \in 1..Len(audit) : audit[i].by # r
    BY <2>1
  <2>6. \A i \in 1..Len(audit') : audit'[i].by \in Request
    BY <1>0, <2>2, <2>3, <2>4
  <2>7. WroteByStep'
    BY <1>0, <2>1, <2>2, <2>3, <2>4, <2>6 DEF TypeOK
  <2>8. AuditMatchesWrites'
    <3>1. \A i \in 1..Len(audit') : audit'[i].by \in wrote'
      BY <2>1, <2>2, <2>3, <2>4
    <3>2. \A i, j \in 1..Len(audit') : audit'[i].by = audit'[j].by => i = j
      BY <2>2, <2>3, <2>4, <2>5
    <3>3. ASSUME NEW q \in wrote'
          PROVE  pc'[q] \in {"audit", "lost"} \/ \E i \in 1..Len(audit') : audit'[i].by = q
      <4>1. CASE q = r
        BY <4>1, <2>2, <2>3, <2>4
      <4>2. CASE q # r
        BY <4>2, <2>1, <2>3, <2>4 DEF TypeOK
      <4>3. QED
        BY <4>1, <4>2
    <3>4. QED
      BY <3>1, <3>2, <3>3
  <2>9. QED
    BY <2>7, <2>8
<1>4. ASSUME NEW r \in Request, Lose(r) PROVE AuditInv'
  BY <1>0, <1>4 DEF Lose, Running, TypeOK
<1>5. CASE UNCHANGED vars
  BY <1>5 DEF vars
<1>6. ASSUME NEW r \in Request, Arrive(r) \/ Load(r) \/ Refuse(r) \/ Reread(r) \/ ActivateEmployee(r)
      PROVE AuditInv'
  <2>1. pc[r] \in {"idle", "load", "reread", "activate"}
    BY <1>6 DEF Arrive, Load, Refuse, Reread, ActivateEmployee, Goto
  <2>2. pc'[r] \notin {"audit", "done"} /\ pc' = [pc EXCEPT ![r] = pc'[r]]
    <3>1. CASE Load(r)
      <4>1. call[r] \in Calls
        BY <3>1 DEF Load, Goto, TypeOK
      <4>2. AfterLoad[call[r].op] \in {"reread", "activate", "write"}
        BY <4>1, CallFields, OpTables DEF CaseOp, OtherOp
      <4>3. QED
        BY <3>1, <4>2 DEF Load, Goto, TypeOK
    <3>2. QED
      BY <1>6, <3>1 DEF Arrive, Refuse, Reread, ActivateEmployee, Goto, TypeOK
  <2>3. UNCHANGED <<audit, wrote>>
    BY <1>6 DEF Arrive, Load, Refuse, Reread, ActivateEmployee
  <2>4. QED
    BY <1>1, <2>1, <2>2, <2>3
<1>7. ASSUME NEW r \in Request, WriteCase(r) \/ WriteTask(r) \/ ResetTask(r) \/ WriteEmployee(r)
      PROVE  AuditInv'
  BY <1>2, <1>7 DEF WriteCase, WriteTask, ResetTask, WriteEmployee, Goto
<1>8. QED
  BY <1>3, <1>4, <1>5, <1>6, <1>7 DEF Next, Step

\* The audit log reports each change that was made once, and no other.
THEOREM AuditCorrect == Spec => []AuditMatchesWrites
<1>1. Init => AuditInv
  BY DEF Init, AuditInv, WroteByStep, AuditMatchesWrites
<1>2. AuditInv => AuditMatchesWrites
  BY DEF AuditInv
<1>3. QED
  BY <1>1, <1>2, AuditStep, InitType, StepType, PTL DEF Spec

-----------------------------------------------------------------------------
(* Approval, submission and activation.                                    *)

\* What has been written stays written, and a call does not change once its
\* request has arrived, so the three facts about past writes are stable.
LEMMA HistoryStable ==
  ASSUME TypeOK, WroteByStep, [Next]_vars
  PROVE  /\ \A c \in Case : Submitted(c) => Submitted(c)'
         /\ \A c \in Case, t \in TaskCode : Reopened(c, t) => Reopened(c, t)'
         /\ \A e \in Employee : StatusEdited(e) => StatusEdited(e)'
         /\ \A r \in Request : pc[r] # "idle" => call'[r] = call[r]
<1>1. wrote \subseteq wrote' /\ \A r \in Request : pc[r] # "idle" => call'[r] = call[r]
  BY DEF TypeOK, Next, Step, vars, Arrive, Load, Refuse, Reread, ActivateEmployee,
         WriteCase, WriteTask, ResetTask, WriteEmployee, AppendAudit, Lose, Goto
<1>2. \A q \in wrote : q \in wrote' /\ call'[q] = call[q]
  BY <1>1 DEF TypeOK, WroteByStep
<1>3. QED
  BY <1>1, <1>2 DEF Submitted, Reopened, SetsBack, StatusEdited

\* A complete task becomes incomplete only by being set back.
LEMMA DoneStable ==
  ASSUME TypeOK, WroteByStep, [Next]_vars, NEW c \in Case, WorkDone(c)
  PROVE  WorkDone(c)'
<1> SUFFICES ASSUME NEW t \in EmployeeTask, ~Reopened(c, t)'
             PROVE  TaskComplete(c, t)'
  BY DEF WorkDone
<1>1. t \in TaskCode /\ TaskComplete(c, t)
  BY HistoryStable DEF WorkDone, EmployeeTask
<1>2. ASSUME NEW r \in Request, WriteTask(r) PROVE TaskComplete(c, t)'
  <2>1. /\ call[r] \in Calls /\ call[r].op = "patchTask"
        /\ call' = call /\ r \in wrote'
        /\ taskStatus' = [taskStatus EXCEPT ![call[r].case][call[r].task] = call[r].to]
    BY <1>2 DEF WriteTask, Goto, TypeOK
  <2>2. call[r].case \in Case /\ call[r].task \in TaskCode
    BY <2>1, CallFields
  <2>3. call[r].case = c /\ call[r].task = t => call[r].to \notin {"pending", "rejected"}
    BY <2>1 DEF Reopened, SetsBack
  <2>4. QED
    BY <1>1, <2>1, <2>2, <2>3 DEF TypeOK, TaskComplete
<1>3. ASSUME NEW r \in Request, ResetTask(r) PROVE TaskComplete(c, t)'
  <2>1. /\ call[r] \in Calls /\ call[r].op = "removeDocument"
        /\ call' = call /\ r \in wrote'
        /\ taskStatus' = [taskStatus EXCEPT ![call[r].taskCase][call[r].task] = "pending"]
    BY <1>3 DEF ResetTask, Goto, TypeOK
  <2>2. call[r].taskCase \in Case /\ call[r].task \in TaskCode
    BY <2>1, CallFields
  <2>3. ~(call[r].taskCase = c /\ call[r].task = t)
    BY <2>1 DEF Reopened, SetsBack
  <2>4. QED
    BY <1>1, <2>1, <2>2, <2>3 DEF TypeOK, TaskComplete
<1>4. CASE UNCHANGED taskStatus
  BY <1>1, <1>4 DEF TaskComplete
<1>5. QED
  BY <1>2, <1>3, <1>4 DEF Next, Step, vars, database, Arrive, Load, Refuse, Reread,
     ActivateEmployee, WriteCase, WriteEmployee, AppendAudit, Lose

\* An activated employee stays active unless HR edits the status.
LEMMA ActivatedStable ==
  ASSUME TypeOK, WroteByStep, [Next]_vars, NEW e \in Employee, Activated(e)
  PROVE  Activated(e)'
<1>1. CASE StatusEdited(e)
  BY <1>1, HistoryStable DEF Activated
<1>2. CASE empStatus[e] = "active"
  <2>1. ASSUME NEW r \in Request, ActivateEmployee(r) PROVE Activated(e)'
    BY <1>2, <2>1 DEF ActivateEmployee, Activated, TypeOK
  <2>2. ASSUME NEW r \in Request, WriteEmployee(r) PROVE Activated(e)'
    <3>1. /\ call[r] \in Calls /\ call[r].op = "updateEmployee"
          /\ call' = call /\ r \in wrote'
      BY <2>2 DEF WriteEmployee, Goto, TypeOK
    <3>2. CASE call[r].employee = e /\ call[r].patch.status # None
      BY <3>1, <3>2 DEF Activated, StatusEdited
    <3>3. CASE ~(call[r].employee = e /\ call[r].patch.status # None)
      <4>1. empStatus'[e] = empStatus[e]
        BY <2>2, <3>3 DEF WriteEmployee, TypeOK
      <4>2. QED
        BY <1>2, <4>1 DEF Activated
    <3>4. QED
      BY <3>2, <3>3
  <2>3. CASE UNCHANGED empStatus
    BY <1>2, <2>3 DEF Activated
  <2>4. QED
    BY <2>1, <2>2, <2>3 DEF Next, Step, vars, database, Arrive, Load, Refuse, Reread,
       WriteCase, WriteTask, ResetTask, AppendAudit, Lose
<1>3. QED
  BY <1>1, <1>2 DEF Activated

\* The three safety properties and what they rest on.
Safe == ActivatedBeforeCompleted /\ ApprovedOnlyIfSubmitted /\ ReviewedWorkIsComplete

OnTheWay == \A r \in Request : pc[r] \in {"reread", "activate", "write"} => Secured(r)

\* What a request on its way to its write relies on is established by its
\* check and by its activation, and no other step takes it away.
LEMMA OnTheWayStep ==
  TypeOK /\ WroteByStep /\ Safe /\ OnTheWay /\ [Next]_vars => OnTheWay'
<1> SUFFICES ASSUME TypeOK, WroteByStep, Safe, OnTheWay, [Next]_vars,
                    NEW q \in Request, pc'[q] \in {"reread", "activate", "write"}
             PROVE  Secured(q)'
  BY DEF OnTheWay
<1>1. CASE pc[q] = "load"
  <2>1. PICK r \in Request : Load(r) /\ r = q
    BY <1>1 DEF TypeOK, Next, Step, vars, Arrive, Load, Refuse, Reread, ActivateEmployee,
       WriteCase, WriteTask, ResetTask, WriteEmployee, AppendAudit, Lose, Goto
  <2>2. /\ call[q] \in Calls /\ call'[q] = call[q] /\ Allowed(call[q])
        /\ pc'[q] = AfterLoad[call[q].op]
        /\ UNCHANGED <<status, taskStatus, wrote, call>>
    BY <2>1 DEF Load, Goto, TypeOK, database
  <2>3. call[q].op = "submit" => WorkDone(call[q].case)
    BY <2>2 DEF Allowed, CaseOpAllowed, CaseOp, EmployeeTasksComplete, WorkDone
  <2>4. call[q].op = "approve" => call[q].case \in Case /\ status[call[q].case] = "pending_hr"
    BY <2>2, CallFields, OpTables
       DEF Allowed, CaseOpAllowed, CaseOp, CanMove, TRANSITIONS
  <2>5. call[q].op = "approve" =>
           /\ Submitted(call[q].case)
           /\ WorkDone(call[q].case)
           /\ pc'[q] = "activate"
    BY <2>2, <2>4, OpTables DEF Safe, ApprovedOnlyIfSubmitted, ReviewedWorkIsComplete
  <2>6. \A c \in Case : /\ Submitted(c)' = Submitted(c)
                        /\ WorkDone(c)' = WorkDone(c)
    BY <2>2 DEF Submitted, WorkDone, Reopened, SetsBack, TaskComplete
  <2>7. call[q].op \in {"submit", "approve"} => call[q].case \in Case
    BY <2>2, CallFields DEF CaseOp
  <2>8. QED
    BY <2>2, <2>3, <2>5, <2>6, <2>7 DEF Secured
<1>2. CASE pc[q] \in {"reread", "activate", "write"}
  <2>1. Secured(q) /\ call'[q] = call[q] /\ call[q] \in Calls
    BY <1>2, HistoryStable DEF OnTheWay, TypeOK
  <2>2. call[q].op \in {"submit", "approve"} =>
           call[q].case \in Case /\ caseEmployee[call[q].case] \in Employee
    BY <2>1, CallFields, OnboardingAssumption DEF CaseOp
  <2>3. call[q].op \in {"submit", "approve"} =>
           WorkDone(call[q].case)'
    BY <2>1, <2>2, DoneStable DEF Secured
  <2>4. call[q].op = "approve" => Submitted(call[q].case)'
    BY <2>1, <2>2, HistoryStable DEF Secured
  <2>5. call[q].op = "approve" /\ pc'[q] = "write" => Activated(caseEmployee[call[q].case])'
    <3>1. CASE pc[q] = "write"
      BY <2>1, <2>2, <3>1, ActivatedStable DEF Secured
    <3>2. CASE pc[q] = "reread"
      BY <3>2 DEF TypeOK
    <3>3. CASE pc[q] = "activate" /\ pc'[q] = "write"
      <4>1. ActivateEmployee(q)
        BY <3>3 DEF TypeOK, Next, Step, vars, Arrive, Load, Refuse, Reread, ActivateEmployee,
           WriteCase, WriteTask, ResetTask, WriteEmployee, AppendAudit, Lose, Goto
      <4>2. call[q].op = "approve"
        BY <3>3 DEF TypeOK
      <4>3. QED
        BY <2>2, <4>1, <4>2 DEF ActivateEmployee, Activated, TypeOK
    <3>4. QED
      BY <1>2, <3>1, <3>2, <3>3
  <2>6. QED
    BY <2>1, <2>3, <2>4, <2>5 DEF Secured
<1>3. QED
  <2>1. pc[q] \in {"load", "reread", "activate", "write"}
    BY DEF TypeOK, Next, Step, vars, Arrive, Load, Refuse, Reread, ActivateEmployee,
       WriteCase, WriteTask, ResetTask, WriteEmployee, AppendAudit, Lose, Goto
  <2>2. QED
    BY <1>1, <1>2, <2>1

\* The write that a secured request makes keeps the three properties.
LEMMA SafeStep ==
  TypeOK /\ WroteByStep /\ Safe /\ OnTheWay /\ [Next]_vars => Safe'
<1> SUFFICES ASSUME TypeOK, WroteByStep, Safe, OnTheWay, [Next]_vars PROVE Safe'
  OBVIOUS
<1>1. ASSUME NEW c \in Case
      PROVE  /\ c \in completedAt' /\ c \notin completedAt =>
                  Activated(caseEmployee[c]) /\ Submitted(c)
             /\ status'[c] \in {"pending_hr", "completed"} /\ status'[c] # status[c] =>
                  /\ Submitted(c)'
                  /\ WorkDone(c)
  <2>1. ASSUME NEW r \in Request, WriteCase(r), call[r].case = c
        PROVE  /\ c \in completedAt' /\ c \notin completedAt =>
                    Activated(caseEmployee[c]) /\ Submitted(c)
               /\ status'[c] \in {"pending_hr", "completed"} =>
                    /\ Submitted(c)'
                    /\ WorkDone(c)
    <3>1. /\ pc[r] = "write" /\ call[r].op \in CaseOp /\ Secured(r)
          /\ call' = call /\ r \in wrote'
      BY <2>1 DEF WriteCase, Goto, OnTheWay
    <3>2. status'[c] = Target[call[r].op]
      BY <2>1 DEF WriteCase, TypeOK
    <3>3. status'[c] \in {"pending_hr", "completed"} => call[r].op \in {"submit", "approve"}
      BY <3>1, <3>2, OpTables DEF CaseOp
    <3>4. call[r].op = "submit" => Submitted(c)'
      BY <2>1, <3>1 DEF Submitted
    <3>5. call[r].op = "approve" => Submitted(c) /\ Submitted(c)'
      BY <2>1, <3>1, HistoryStable DEF Secured
    <3>6. c \in completedAt' /\ c \notin completedAt => call[r].op = "approve"
      BY <2>1 DEF WriteCase
    <3>7. QED
      BY <2>1, <3>1, <3>3, <3>4, <3>5, <3>6 DEF Secured
  <2>2. ASSUME NEW r \in Request, WriteCase(r), call[r].case # c
        PROVE  status'[c] = status[c] /\ (c \in completedAt' <=> c \in completedAt)
    BY <2>2 DEF WriteCase, TypeOK
  <2>3. CASE UNCHANGED <<status, completedAt>>
    BY <2>3
  <2>4. QED
    BY <2>1, <2>2, <2>3 DEF Next, Step, vars, database, Arrive, Load, Refuse, Reread,
       ActivateEmployee, WriteTask, ResetTask, WriteEmployee, AppendAudit, Lose
<1>2. \A c \in Case : caseEmployee[c] \in Employee
  BY OnboardingAssumption
<1>3. completedAt' \in SUBSET Case /\ completedAt \in SUBSET Case
  BY StepType DEF TypeOK
<1>4. ActivatedBeforeCompleted'
  BY <1>1, <1>2, <1>3, ActivatedStable DEF Safe, ActivatedBeforeCompleted
<1>5. ApprovedOnlyIfSubmitted'
  BY <1>1, HistoryStable DEF Safe, ApprovedOnlyIfSubmitted
<1>6. ReviewedWorkIsComplete'
  BY <1>1, DoneStable DEF Safe, ReviewedWorkIsComplete
<1>7. QED
  BY <1>4, <1>5, <1>6 DEF Safe

\* The inductive invariant holds in every reachable state.
LEMMA InductiveInvariant == Spec => []Inductive
<1> DEFINE I == TypeOK /\ AuditInv /\ Safe /\ OnTheWay
<1>1. Init => I
  BY InitType DEF Init, AuditInv, WroteByStep, AuditMatchesWrites, Safe, OnTheWay,
     ActivatedBeforeCompleted, ApprovedOnlyIfSubmitted, ReviewedWorkIsComplete
<1>2. I /\ [Next]_vars => I'
  <2>1. AuditInv => WroteByStep
    BY DEF AuditInv
  <2>2. QED
    BY <2>1, StepType, AuditStep, SafeStep, OnTheWayStep
<1>3. I => Inductive
  BY DEF Inductive, AuditInv, Safe, OnTheWay
<1>4. QED
  BY <1>1, <1>2, <1>3, PTL DEF Spec

\* No case is stamped completed before its employee was activated.
THEOREM ActivationFirst == Spec => []ActivatedBeforeCompleted
<1>1. Inductive => ActivatedBeforeCompleted
  BY DEF Inductive
<1>2. QED
  BY <1>1, InductiveInvariant, PTL

\* No case is under review or completed that was never submitted.
THEOREM SubmissionFirst == Spec => []ApprovedOnlyIfSubmitted
<1>1. Inductive => ApprovedOnlyIfSubmitted
  BY DEF Inductive
<1>2. QED
  BY <1>1, InductiveInvariant, PTL

\* In a case under review or completed, a task is incomplete only if that task was set
\* back, by an edit of it or by the removal of its last document.
THEOREM ReviewComplete == Spec => []ReviewedWorkIsComplete
<1>1. Inductive => ReviewedWorkIsComplete
  BY DEF Inductive
<1>2. QED
  BY <1>1, InductiveInvariant, PTL

-----------------------------------------------------------------------------
(* The trail of a case.                                                    *)

\* While the log stays, so do the trails.
LEMMA TrailStays ==
  ASSUME TypeOK, AuditInv, UNCHANGED audit,
         \A q \in Request : pc[q] # "idle" => call'[q] = call[q],
         NEW c \in Case
  PROVE  Trail(c)' = Trail(c) /\ Linked(c)' = Linked(c)
<1>1. \A i \in 1..Len(audit) : audit[i].by \in Request /\ pc[audit[i].by] = "done"
  <2>1. \A i \in 1..Len(audit) : audit[i] \in AuditRow
    BY DEF TypeOK
  <2>2. QED
    BY <2>1 DEF AuditInv, WroteByStep, AuditRow
<1>2. Trail(c)' = Trail(c)
  BY <1>1 DEF Trail, About
<1>3. QED
  BY <1>2 DEF Linked

\* A row that is lost stays lost.
LEMMA RowLostStays ==
  ASSUME TypeOK, [Next]_vars, NEW c \in Case, RowLost(c)
  PROVE  RowLost(c)'
<1>1. PICK r \in Request : About(r, c) /\ r \in wrote /\ pc[r] = "lost"
  BY DEF RowLost, Unlogged
<1>2. pc'[r] = pc[r] /\ call'[r] = call[r] /\ wrote \subseteq wrote'
  BY <1>1 DEF Next, Step, Arrive, Load, Refuse, Reread, ActivateEmployee, WriteCase, WriteTask,
     ResetTask, WriteEmployee, AppendAudit, Lose, Running, Goto, vars, TypeOK
<1>3. QED
  BY <1>1, <1>2 DEF RowLost, Unlogged, About

\* Steps that leave the log and the status of the case alone.
LEMMA TrailQuiet ==
  ASSUME TypeOK, AuditInv, NEW c \in Case, TrailHolds(c),
         UNCHANGED audit, status'[c] = status[c],
         NEW r \in Request,
         \A q \in Request \ {r} : /\ pc'[q] = pc[q] /\ call'[q] = call[q]
                                  /\ seen'[q] = seen[q] /\ updated'[q] = updated[q],
         pc[r] # "idle" => call'[r] = call[r],
         About(r, c) => pc[r] # "audit",
         About(r, c)' => /\ pc'[r] # "audit"
                         /\ pc'[r] \in {"activate", "write"} => seen'[r] = status[c]
  PROVE  TrailHolds(c)'
<1>1. \A q \in Request : q # r => About(q, c)' = About(q, c)
  BY DEF About
<1>2. /\ Linked(c)
      /\ EndsWith(c, status[c]) \/ \E q \in Request : About(q, c) /\ pc[q] = "audit"
      /\ \A q \in Request : About(q, c) =>
            /\ pc[q] \in {"activate", "write"} => seen[q] = status[c]
            /\ pc[q] = "audit" => updated[q] = status[c] /\ EndsWith(c, seen[q])
  BY DEF TrailHolds
<1>3. /\ Linked(c)' = Linked(c)
      /\ EndsWith(c, status[c])' = EndsWith(c, status[c])
      /\ \A q \in Request : q # r => EndsWith(c, seen[q])' = EndsWith(c, seen[q])
  <2>1. Trail(c)' = Trail(c) /\ Linked(c)' = Linked(c)
    BY TrailStays
  <2>2. QED
    BY <2>1 DEF EndsWith
<1>4. ASSUME NEW q \in Request, About(q, c)'
      PROVE  /\ pc'[q] \in {"activate", "write"} => seen'[q] = status'[c]
             /\ pc'[q] = "audit" => updated'[q] = status'[c] /\ EndsWith(c, seen[q])'
  <2>1. CASE q = r
    BY <1>4, <2>1
  <2>2. CASE q # r
    BY <1>1, <1>2, <1>3, <1>4, <2>2
  <2>3. QED
    BY <2>1, <2>2
<1>5. EndsWith(c, status[c])' \/ \E q \in Request : About(q, c)' /\ pc'[q] = "audit"
  BY <1>1, <1>2, <1>3
<1>6. QED
  BY <1>2, <1>3, <1>4, <1>5 DEF TrailHolds

\* The write of the status, by the only request that is between its read and its row.
LEMMA TrailWrite ==
  ASSUME TypeOK, AuditInv, TrailApart, NEW c \in Case, TrailHolds(c),
         NEW r \in Request, WriteCase(r), call[r].case = c
  PROVE  TrailHolds(c)'
<1>1. /\ UNCHANGED <<audit, call, seen>> /\ pc[r] = "write" /\ pc'[r] = "audit"
      /\ \A q \in Request \ {r} : pc'[q] = pc[q]
      /\ call[r].op \in CaseOp
      /\ status'[c] = updated'[r]
  BY DEF WriteCase, Goto, TypeOK
<1>2. call[r] # None
  BY <1>1 DEF TypeOK
<1>3. \A q \in Request \ {r} : About(q, c) => pc[q] \notin {"activate", "write", "audit"}
  BY <1>1 DEF TrailApart, Tracing, About
<1>4. About(r, c) /\ \A q \in Request : About(q, c)' = About(q, c)
  BY <1>1, <1>2 DEF About
<1>5. /\ Linked(c) /\ seen[r] = status[c]
      /\ EndsWith(c, status[c]) \/ \E q \in Request : About(q, c) /\ pc[q] = "audit"
  BY <1>1, <1>4 DEF TrailHolds
<1>6. EndsWith(c, seen[r])
  BY <1>1, <1>3, <1>5
<1>7. Trail(c)' = Trail(c) /\ Linked(c)' = Linked(c)
  BY <1>1, TrailStays
<1>8. EndsWith(c, seen[r])'
  BY <1>1, <1>6, <1>7 DEF EndsWith
<1>9. QED
  BY <1>1, <1>3, <1>4, <1>5, <1>7, <1>8 DEF TrailHolds

\* The row of a request.
LEMMA RowAppended ==
  ASSUME TypeOK, NEW r \in Request, AppendAudit(r)
  PROVE  \E x \in AuditRow : /\ x.by = r /\ x.before = seen[r] /\ x.after = updated[r]
                             /\ audit' = Append(audit, x)
<1>1. audit' = Append(audit, [by |-> r, action |-> AuditAction[call[r].op],
                              before |-> seen[r], after |-> updated[r]])
  BY DEF AppendAudit
<1>2. call[r].op \in DOMAIN AuditAction
  <2>1. call[r] \in Calls
    BY DEF TypeOK, AppendAudit, Goto
  <2>2. QED
    BY <2>1, CallFields, OpTables
<1>3. [by |-> r, action |-> AuditAction[call[r].op], before |-> seen[r],
       after |-> updated[r]] \in AuditRow
  BY <1>2 DEF AuditRow, TypeOK
<1>4. QED
  BY <1>1, <1>3

\* The row of the write: it starts from the end of the trail and ends in the status.
LEMMA TrailAppend ==
  ASSUME TypeOK, AuditInv, TrailApart, NEW c \in Case, TrailHolds(c),
         NEW r \in Request, AppendAudit(r)
  PROVE  TrailHolds(c)'
<1>1. /\ UNCHANGED <<status, call, seen, updated>> /\ pc[r] = "audit" /\ pc'[r] = "done"
      /\ \A q \in Request \ {r} : pc'[q] = pc[q]
  BY DEF AppendAudit, Goto, TypeOK, database
<1>2. PICK x \in AuditRow : /\ x.by = r /\ x.before = seen[r] /\ x.after = updated[r]
                           /\ audit' = Append(audit, x)
  BY RowAppended
<1>3. /\ Len(audit) \in Nat /\ Len(audit') = Len(audit) + 1
      /\ \A i \in 1..Len(audit) : audit'[i] = audit[i]
      /\ audit'[Len(audit) + 1] = x
  BY <1>2 DEF TypeOK
<1>4. /\ Linked(c)
      /\ EndsWith(c, status[c]) \/ \E q \in Request : About(q, c) /\ pc[q] = "audit"
      /\ \A q \in Request : About(q, c) =>
            /\ pc[q] \in {"activate", "write"} => seen[q] = status[c]
            /\ pc[q] = "audit" => updated[q] = status[c] /\ EndsWith(c, seen[q])
  BY DEF TrailHolds
<1>5. \A q \in Request : About(q, c)' = About(q, c)
  BY <1>1 DEF About
<1>6. Trail(c) \subseteq 1..Len(audit) /\ Trail(c)' = Trail(c) \cup
            (IF About(r, c) THEN {Len(audit) + 1} ELSE {})
  BY <1>1, <1>2, <1>3 DEF Trail, About
<1>7. CASE About(r, c)
  <2>1. \A q \in Request \ {r} : About(q, c) => pc[q] \notin {"activate", "write", "audit"}
    BY <1>1, <1>7 DEF TrailApart, Tracing, About
  <2>2. ASSUME NEW i \in Trail(c)', NEW j \in Trail(c)', i < j,
               \A k \in Trail(c)' : k <= i \/ j <= k
        PROVE  audit'[j].before = audit'[i].after
    <3>1. i \in Trail(c) /\ i \in 1..Len(audit) /\ audit'[i] = audit[i]
      BY <1>3, <1>6, <1>7, <2>2
    <3>2. CASE j \in Trail(c)
      BY <1>3, <1>4, <1>6, <2>2, <3>1, <3>2 DEF Linked
    <3>3. CASE j = Len(audit) + 1
      <4>1. \A k \in Trail(c) : k <= i
        BY <1>3, <1>6, <2>2, <3>3
      <4>2. audit[i].after = seen[r]
        BY <1>1, <1>4, <1>7, <3>1, <4>1 DEF EndsWith
      <4>3. QED
        BY <1>2, <1>3, <3>1, <3>3, <4>2
    <3>4. QED
      BY <1>6, <1>7, <3>2, <3>3
  <2>3. ASSUME NEW i \in Trail(c)', \A k \in Trail(c)' : k <= i
        PROVE  audit'[i].after = status'[c]
    <3>1. i = Len(audit) + 1
      BY <1>3, <1>6, <1>7, <2>3
    <3>2. QED
      BY <1>1, <1>2, <1>3, <1>4, <1>7, <3>1
  <2>4. Linked(c)' /\ EndsWith(c, status[c])'
    BY <2>2, <2>3 DEF Linked, EndsWith
  <2>5. QED
    BY <1>1, <1>5, <2>1, <2>4 DEF TrailHolds
<1>8. CASE ~About(r, c)
  <2>1. Trail(c)' = Trail(c) /\ \A i \in Trail(c) : audit'[i] = audit[i]
    BY <1>3, <1>6, <1>8
  <2>2. /\ Linked(c)'
        /\ EndsWith(c, status[c])' = EndsWith(c, status[c])
        /\ \A q \in Request : EndsWith(c, seen[q])' = EndsWith(c, seen[q])
    BY <1>1, <1>4, <2>1 DEF Linked, EndsWith
  <2>3. EndsWith(c, status[c])' \/ \E q \in Request : About(q, c)' /\ pc'[q] = "audit"
    BY <1>1, <1>4, <1>5, <1>8, <2>2
  <2>4. ASSUME NEW q \in Request, About(q, c)'
        PROVE  /\ pc'[q] \in {"activate", "write"} => seen'[q] = status'[c]
               /\ pc'[q] = "audit" => updated'[q] = status'[c] /\ EndsWith(c, seen[q])'
    <3>1. q # r /\ About(q, c)
      BY <1>5, <1>8, <2>4
    <3>2. QED
      BY <1>1, <1>4, <2>2, <3>1
  <2>5. QED
    BY <2>2, <2>3, <2>4 DEF TrailHolds
<1>9. QED
  BY <1>7, <1>8

\* Every step keeps the trail of a case, unless it loses a row of it.
LEMMA TrailStep ==
  ASSUME TypeOK, AuditInv, TrailApart, NEW c \in Case, TrailHolds(c), ~RowLost(c)', [Next]_vars
  PROVE  TrailHolds(c)'
<1>0. \A q \in Request : pc[q] # "idle" => call[q] \in Calls
  BY DEF TypeOK
<1>1. ASSUME NEW r \in Request, Arrive(r) \/ Refuse(r) PROVE TrailHolds(c)'
  <2>1. /\ UNCHANGED <<audit, status, seen, updated>> /\ pc[r] \in {"idle", "load"}
        /\ pc'[r] \in {"load", "refused"} /\ (pc[r] # "idle" => call'[r] = call[r])
        /\ \A q \in Request \ {r} : pc'[q] = pc[q] /\ call'[q] = call[q]
    BY <1>1 DEF Arrive, Refuse, Goto, TypeOK, database
  <2>2. QED
    BY <2>1, TrailQuiet
<1>2. ASSUME NEW r \in Request, Load(r) PROVE TrailHolds(c)'
  <2>1. /\ UNCHANGED <<audit, status, call, updated>> /\ pc[r] = "load"
        /\ pc'[r] = AfterLoad[call[r].op] /\ seen'[r] = Current(call[r])
        /\ \A q \in Request \ {r} : pc'[q] = pc[q] /\ seen'[q] = seen[q]
    BY <1>2 DEF Load, Goto, TypeOK, database
  <2>2. About(r, c) => pc'[r] \in {"reread", "activate"} /\ seen'[r] = status[c]
    BY <1>0, <2>1, CallFields, OpTables DEF About, CaseOp, Current
  <2>3. About(r, c)' = About(r, c)
    BY <2>1 DEF About
  <2>4. QED
    BY <2>1, <2>2, <2>3, TrailQuiet
<1>3. ASSUME NEW r \in Request, Reread(r) PROVE TrailHolds(c)'
  <2>1. /\ UNCHANGED <<audit, status, call, updated>> /\ pc[r] = "reread" /\ pc'[r] = "write"
        /\ seen'[r] = status[call[r].case]
        /\ \A q \in Request \ {r} : pc'[q] = pc[q] /\ seen'[q] = seen[q]
    BY <1>3 DEF Reread, Goto, TypeOK, database
  <2>2. About(r, c)' => seen'[r] = status[c]
    BY <2>1 DEF About
  <2>3. QED
    BY <2>1, <2>2, TrailQuiet
<1>4. ASSUME NEW r \in Request, ActivateEmployee(r) PROVE TrailHolds(c)'
  <2>1. /\ UNCHANGED <<audit, status, call, seen, updated>> /\ pc[r] = "activate"
        /\ pc'[r] = "write" /\ \A q \in Request \ {r} : pc'[q] = pc[q]
    BY <1>4 DEF ActivateEmployee, Goto, TypeOK
  <2>2. About(r, c)' => seen'[r] = status[c]
    BY <2>1 DEF TrailHolds, About
  <2>3. QED
    BY <2>1, <2>2, TrailQuiet
<1>5. ASSUME NEW r \in Request, WriteTask(r) \/ ResetTask(r) \/ WriteEmployee(r)
      PROVE  TrailHolds(c)'
  <2>1. /\ UNCHANGED <<audit, status, call, seen>> /\ pc[r] = "write"
        /\ call[r].op \notin CaseOp
        /\ \A q \in Request \ {r} : pc'[q] = pc[q] /\ updated'[q] = updated[q]
    BY <1>5 DEF WriteTask, ResetTask, WriteEmployee, Goto, TypeOK, CaseOp
  <2>2. ~About(r, c)' /\ ~About(r, c)
    BY <2>1 DEF About
  <2>3. QED
    BY <2>1, <2>2, TrailQuiet
<1>6. ASSUME NEW r \in Request, WriteCase(r) PROVE TrailHolds(c)'
  <2>1. CASE call[r].case = c
    BY <1>6, <2>1, TrailWrite
  <2>2. CASE call[r].case # c
    <3>1. /\ UNCHANGED <<audit, call, seen>> /\ status'[c] = status[c]
          /\ \A q \in Request \ {r} : pc'[q] = pc[q] /\ updated'[q] = updated[q]
      BY <1>6, <2>2 DEF WriteCase, Goto, TypeOK
    <3>2. ~About(r, c)' /\ ~About(r, c)
      BY <2>2, <3>1 DEF About
    <3>3. QED
      BY <3>1, <3>2, TrailQuiet
  <2>3. QED
    BY <2>1, <2>2
<1>7. ASSUME NEW r \in Request, AppendAudit(r) PROVE TrailHolds(c)'
  BY <1>7, TrailAppend
<1>8. ASSUME NEW r \in Request, Lose(r) PROVE TrailHolds(c)'
  <2>1. /\ UNCHANGED <<audit, status, call, seen, updated, wrote>> /\ pc'[r] = "lost"
        /\ \A q \in Request \ {r} : pc'[q] = pc[q]
    BY <1>8 DEF Lose, TypeOK, database
  <2>2. About(r, c) => pc[r] # "audit"
    BY <2>1 DEF RowLost, Unlogged, About, AuditInv, WroteByStep
  <2>3. QED
    BY <2>1, <2>2, TrailQuiet
<1>9. CASE UNCHANGED vars
  BY <1>9 DEF vars, TrailHolds, Linked, EndsWith, Trail, About
<1>10. QED
  BY <1>1, <1>2, <1>3, <1>4, <1>5, <1>6, <1>7, <1>8, <1>9 DEF Next, Step

\* As long as no two requests about the status of a case are between the read for
\* their audit row and that row, the audit rows of the case, read in order, are a
\* chain of moves that ends in its status, unless a write is not in the log.
THEOREM TrailExplained == Spec /\ []TrailApart => []TrailExplainsStatus
<1>1. Init => AuditInv /\ TrailInductive
  BY DEF Init, AuditInv, WroteByStep, AuditMatchesWrites, TrailInductive, TrailHolds,
         Linked, EndsWith, Trail, About
<1>2. TypeOK /\ AuditInv /\ TrailInductive /\ TrailApart /\ [Next]_vars => TrailInductive'
  <2> SUFFICES ASSUME TypeOK, AuditInv, TrailInductive, TrailApart, [Next]_vars,
                      NEW c \in Case, ~RowLost(c)'
               PROVE  TrailHolds(c)'
    BY DEF TrailInductive
  <2>1. TrailHolds(c)
    BY RowLostStays DEF TrailInductive
  <2>2. QED
    BY <2>1, TrailStep
<1>3. AuditInv /\ TrailInductive => TrailExplainsStatus
  <2> SUFFICES ASSUME AuditInv, TrailInductive, NEW c \in Case,
                      \A r \in Request : ~Unlogged(r, c)
               PROVE  Linked(c) /\ EndsWith(c, status[c])
    BY DEF TrailExplainsStatus
  <2>1. \A r \in Request : About(r, c) => pc[r] # "audit"
    BY DEF Unlogged, AuditInv, WroteByStep
  <2>2. QED
    BY <2>1 DEF TrailInductive, TrailHolds, RowLost
<1>4. QED
  BY <1>1, <1>2, <1>3, AuditStep, InitType, StepType, PTL DEF Spec
=============================================================================
