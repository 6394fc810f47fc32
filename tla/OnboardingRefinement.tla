------------------------ MODULE OnboardingRefinement ------------------------
(***************************************************************************)
(* Proof that the onboarding service implements CaseLifecycle, and that a  *)
(* completed case keeps its status, when the few requests that disturb     *)
(* each other do not overlap: what a handler checked still holds when it   *)
(* writes, because no step that could undo it came in between.             *)
(***************************************************************************)
EXTENDS OnboardingProofs

\* A request that moves is at a case, and for an operation, of the model.
LEMMA MovingCall ==
  ASSUME TypeOK, NEW r \in Request, Moving(r)
  PROVE  /\ call[r] \in Calls /\ call[r].op \in CaseOp /\ call[r].case \in Case
         /\ caseEmployee[call[r].case] \in Employee
<1>1. call[r] \in Calls /\ call[r].op \in CaseOp
  BY DEF TypeOK, Moving
<1>2. QED
  BY <1>1, CallFields, OnboardingAssumption

\* A request about to write was on its way before, or has just passed its checks.
LEMMA StartsToMove ==
  ASSUME TypeOK, NEW r \in Request, [Next]_vars, Moving(r)'
  PROVE  \/ Moving(r) /\ call'[r] = call[r] /\ (pc'[r] = pc[r] \/ Reread(r) \/ ActivateEmployee(r))
         \/ Load(r) /\ call'[r] = call[r] /\ call[r].op \in CaseOp /\ CaseOpAllowed(call[r])
              /\ pc'[r] = AfterLoad[call[r].op]
<1>1. CASE pc'[r] = pc[r] /\ call'[r] = call[r]
  BY <1>1 DEF Moving
<1>2. CASE ~(pc'[r] = pc[r] /\ call'[r] = call[r])
  <2>1. Arrive(r) \/ Step(r) \/ Lose(r)
    <3>1. ASSUME NEW q \in Request, Arrive(q) \/ Step(q) \/ Lose(q), q # r
          PROVE  pc'[r] = pc[r] /\ call'[r] = call[r]
      BY <3>1 DEF Step, Arrive, Load, Refuse, Reread, ActivateEmployee, WriteCase,
         WriteTask, ResetTask, WriteEmployee, AppendAudit, Lose, Goto, TypeOK
    <3>2. ~UNCHANGED vars
      BY <1>2 DEF vars
    <3>3. QED
      BY <1>2, <3>1, <3>2 DEF Next
  <2>2. ~Arrive(r) /\ ~Refuse(r) /\ ~AppendAudit(r) /\ ~Lose(r)
        /\ ~WriteCase(r) /\ ~WriteTask(r) /\ ~ResetTask(r) /\ ~WriteEmployee(r)
    BY DEF Arrive, Refuse, AppendAudit, Lose, WriteCase, WriteTask, ResetTask, WriteEmployee, Goto,
       TypeOK, Moving
  <2>3. CASE Load(r)
    BY <2>3 DEF Load, Goto, TypeOK, Allowed, Moving
  <2>4. CASE Reread(r) \/ ActivateEmployee(r)
    BY <2>4 DEF Reread, ActivateEmployee, Goto, TypeOK, Moving
  <2>5. QED
    BY <2>1, <2>2, <2>3, <2>4 DEF Step
<1>3. QED
  BY <1>1, <1>2

\* The moves that requests have checked stay legal: only the write of another move
\* of the case could change it.
LEMMA MovesStep == TypeOK /\ MovesHold /\ MovesApart /\ [Next]_vars => MovesHold'
<1> SUFFICES ASSUME TypeOK, MovesHold, MovesApart, [Next]_vars, NEW r \in Request, Moving(r)'
             PROVE  CanMove(status'[call'[r].case], Target[call'[r].op])
  BY DEF MovesHold
<1> DEFINE c == call[r].case
<1>1. CASE Moving(r) /\ call'[r] = call[r] /\ (pc'[r] = pc[r] \/ Reread(r) \/ ActivateEmployee(r))
  <2>1. CanMove(status[c], Target[call[r].op])
    BY <1>1 DEF MovesHold
  <2>2. status'[c] = status[c]
    <3>1. ASSUME NEW q \in Request, WriteCase(q) PROVE status'[c] = status[c]
      <4>1. Moving(q)
        BY <3>1 DEF WriteCase, Goto, Moving
      <4>2. q # r
        BY <1>1, <3>1 DEF WriteCase, Reread, ActivateEmployee, Goto, TypeOK
      <4>3. call[q].case # c
        BY <1>1, <4>1, <4>2 DEF MovesApart
      <4>4. QED
        BY <1>1, <3>1, <4>3, MovingCall DEF WriteCase, TypeOK
    <3>2. CASE \A q \in Request : ~WriteCase(q)
      BY <3>2 DEF Next, Step, Arrive, Load, Refuse, Reread, ActivateEmployee, WriteTask,
         ResetTask, WriteEmployee, AppendAudit, Lose, vars, database
    <3>3. QED
      BY <3>1, <3>2
  <2>3. QED
    BY <1>1, <2>1, <2>2
<1>2. CASE Load(r) /\ call'[r] = call[r] /\ CaseOpAllowed(call[r])
  BY <1>2 DEF Load, CaseOpAllowed, database
<1>3. QED
  BY <1>1, <1>2, StartsToMove

\* The tasks that submissions have checked stay complete.
LEMMA TasksStep == TypeOK /\ TasksHold /\ SubmitsApart /\ [Next]_vars => TasksHold'
<1> SUFFICES ASSUME TypeOK, TasksHold, SubmitsApart, [Next]_vars, NEW r \in Request,
                    Moving(r)', call'[r].op = "submit"
             PROVE  EmployeeTasksComplete(call[r].case)'
  BY DEF TasksHold
<1>1. CASE Moving(r) /\ call'[r] = call[r]
  <2>1. PICK c \in Case : c = call[r].case
    BY <1>1, MovingCall
  <2>2. EmployeeTasksComplete(c)
    BY <1>1, <2>1 DEF TasksHold
  <2>3. ASSUME NEW q \in Request, WriteTask(q) PROVE EmployeeTasksComplete(c)'
    <3>1. /\ pc[q] = "write" /\ call[q].op = "patchTask" /\ call[q] \in Calls
          /\ taskStatus' = [taskStatus EXCEPT ![call[q].case][call[q].task] = call[q].to]
      BY <2>3 DEF WriteTask, Goto, TypeOK
    <3>2. \A t \in EmployeeTask : ~SetsBack(call[q], c, t)
      BY <1>1, <2>1, <3>1 DEF SubmitsApart
    <3>3. call[q].case \in Case /\ call[q].task \in TaskCode
      BY <3>1, CallFields
    <3>4. QED
      BY <2>2, <3>1, <3>2, <3>3
         DEF EmployeeTasksComplete, EmployeeTask, TaskComplete, SetsBack, TypeOK
  <2>4. ASSUME NEW q \in Request, ResetTask(q) PROVE EmployeeTasksComplete(c)'
    <3>1. /\ pc[q] = "write" /\ call[q].op = "removeDocument" /\ call[q] \in Calls
          /\ taskStatus' = [taskStatus EXCEPT ![call[q].taskCase][call[q].task] = "pending"]
      BY <2>4 DEF ResetTask, Goto, TypeOK
    <3>2. \A t \in EmployeeTask : ~SetsBack(call[q], c, t)
      BY <1>1, <2>1, <3>1 DEF SubmitsApart
    <3>3. call[q].taskCase \in Case /\ call[q].task \in TaskCode
      BY <3>1, CallFields
    <3>4. QED
      BY <2>2, <3>1, <3>2, <3>3
         DEF EmployeeTasksComplete, EmployeeTask, TaskComplete, SetsBack, TypeOK
  <2>5. ASSUME \A q \in Request : ~WriteTask(q) /\ ~ResetTask(q)
        PROVE  EmployeeTasksComplete(c)'
    <3>1. taskStatus' = taskStatus
      BY <2>5 DEF Next, Step, Arrive, Load, Refuse, Reread, ActivateEmployee, WriteCase,
         WriteEmployee, AppendAudit, Lose, vars, database
    <3>2. QED
      BY <2>2, <3>1 DEF EmployeeTasksComplete, TaskComplete
  <2>6. EmployeeTasksComplete(c)'
    BY <2>3, <2>4, <2>5
  <2>7. QED
    BY <1>1, <2>1, <2>6 DEF EmployeeTasksComplete, TaskComplete
<1>2. CASE Load(r) /\ call'[r] = call[r] /\ CaseOpAllowed(call[r])
  <2>1. taskStatus' = taskStatus /\ call[r].op = "submit"
    BY <1>2 DEF Load, database
  <2>2. EmployeeTasksComplete(call[r].case)
    BY <1>2, <2>1 DEF CaseOpAllowed
  <2>3. QED
    BY <1>2, <2>1, <2>2 DEF EmployeeTasksComplete, TaskComplete
<1>3. QED
  BY <1>1, <1>2, StartsToMove

\* The employee that an approval has made active stays so until it completes the case.
LEMMA ActiveStep == TypeOK /\ ActiveHolds /\ EditsApart /\ [Next]_vars => ActiveHolds'
<1> SUFFICES ASSUME TypeOK, ActiveHolds, EditsApart, [Next]_vars, NEW r \in Request,
                    Moving(r)', call'[r].op = "approve", pc'[r] = "write"
             PROVE  empStatus'[caseEmployee[call'[r].case]] = "active"
  BY DEF ActiveHolds
<1> DEFINE e == caseEmployee[call[r].case]
<1>1. ~(Load(r) /\ pc'[r] = AfterLoad[call[r].op] /\ call'[r] = call[r])
  BY OpTables
<1>2. /\ Moving(r) /\ call'[r] = call[r]
      /\ pc'[r] = pc[r] \/ Reread(r) \/ ActivateEmployee(r)
  BY <1>1, StartsToMove
<1>3. e \in Employee
  BY <1>2, MovingCall
<1>4. CASE ActivateEmployee(r)
  BY <1>2, <1>3, <1>4 DEF ActivateEmployee, TypeOK
<1>5. CASE Reread(r)
  BY <1>2, <1>5 DEF Reread, Goto, TypeOK
<1>6. CASE pc'[r] = pc[r]
  <2>1. empStatus[e] = "active" /\ pc[r] = "write"
    BY <1>2, <1>6 DEF ActiveHolds
  <2>2. ASSUME NEW q \in Request, ActivateEmployee(q) PROVE empStatus'[e] = "active"
    BY <1>3, <2>1, <2>2 DEF ActivateEmployee, TypeOK
  <2>3. ASSUME NEW q \in Request, WriteEmployee(q) PROVE empStatus'[e] = "active"
    <3>1. pc[q] = "write" /\ call[q].op = "updateEmployee"
      BY <2>3 DEF WriteEmployee, Goto
    <3>2. call[q].employee = e => call[q].patch.status \in {None, "active"}
      BY <1>2, <2>1, <3>1 DEF EditsApart
    <3>3. QED
      BY <1>3, <2>1, <2>3, <3>2 DEF WriteEmployee, TypeOK
  <2>4. CASE \A q \in Request : ~ActivateEmployee(q) /\ ~WriteEmployee(q)
    <3>1. empStatus' = empStatus
      BY <2>4 DEF Next, Step, Arrive, Load, Refuse, Reread, WriteCase, WriteTask, ResetTask,
         AppendAudit, Lose, vars, database
    <3>2. QED
      BY <1>2, <2>1, <3>1
  <2>5. QED
    BY <1>2, <2>2, <2>3, <2>4
<1>7. QED
  BY <1>2, <1>4, <1>5, <1>6

ChecksHold == MovesHold /\ TasksHold /\ ActiveHolds

\* No request has checked anything at the start.
LEMMA ChecksInit == Init => ChecksHold
BY DEF Init, ChecksHold, MovesHold, TasksHold, ActiveHolds, Moving

-----------------------------------------------------------------------------
(* The mapping: every step is a move of CaseLifecycle or leaves it alone.  *)

Ready  == {c \in Case : EmployeeTasksComplete(c)}
Active == {e \in Employee : empStatus[e] = "active"}

\* The initial states map to initial states.
LEMMA InitMaps == Init => Lifecycle!Init
BY DEF Init, Lifecycle!Init

\* A write of the tasks of one case is work on the tasks of that case.
LEMMA OneCaseWorked ==
  ASSUME TypeOK, NEW k \in Case, UNCHANGED <<status, empStatus>>,
         \A c \in Case \ {k} : taskStatus'[c] = taskStatus[c]
  PROVE  \E c \in Case : Lifecycle!WorkOnTasks(c)
<1>1. \A c \in Case \ {k} : EmployeeTasksComplete(c)' = EmployeeTasksComplete(c)
  BY DEF EmployeeTasksComplete, TaskComplete
<1>2. Ready' \in {Ready \cup {k}, Ready \ {k}}
  <2>1. CASE EmployeeTasksComplete(k)'
    <3>1. Ready' = Ready \cup {k}
      BY <1>1, <2>1 DEF Ready
    <3>2. QED
      BY <3>1
  <2>2. CASE ~EmployeeTasksComplete(k)'
    <3>1. Ready' = Ready \ {k}
      BY <1>1, <2>2 DEF Ready
    <3>2. QED
      BY <3>1
  <2>3. QED
    BY <2>1, <2>2
<1>3. Lifecycle!WorkOnTasks(k)
  BY <1>2 DEF Lifecycle!WorkOnTasks, Ready
<1>4. QED
  BY <1>3

\* Both writes of a task are of one case.
LEMMA TaskWriteMaps ==
  ASSUME TypeOK, NEW r \in Request, WriteTask(r) \/ ResetTask(r)
  PROVE  \E c \in Case : Lifecycle!WorkOnTasks(c)
<1>1. CASE WriteTask(r)
  <2>1. /\ call[r] \in Calls /\ call[r].op = "patchTask" /\ UNCHANGED <<status, empStatus>>
        /\ taskStatus' = [taskStatus EXCEPT ![call[r].case][call[r].task] = call[r].to]
    BY <1>1 DEF WriteTask, Goto, TypeOK
  <2>2. call[r].case \in Case
    BY <2>1, CallFields
  <2>3. QED
    BY <2>1, <2>2, OneCaseWorked DEF TypeOK
<1>2. CASE ResetTask(r)
  <2>1. /\ call[r] \in Calls /\ call[r].op = "removeDocument" /\ UNCHANGED <<status, empStatus>>
        /\ taskStatus' = [taskStatus EXCEPT ![call[r].taskCase][call[r].task] = "pending"]
    BY <1>2 DEF ResetTask, Goto, TypeOK
  <2>2. call[r].taskCase \in Case
    BY <2>1, CallFields
  <2>3. QED
    BY <2>1, <2>2, OneCaseWorked DEF TypeOK
<1>3. QED
  BY <1>1, <1>2

\* An edit changes the activity of its own employee only.
LEMMA EditMaps ==
  ASSUME TypeOK, NEW r \in Request, WriteEmployee(r)
  PROVE  \E e \in Employee : Lifecycle!EditEmployee(e)
<1>1. /\ call[r] \in Calls /\ call[r].op = "updateEmployee" /\ UNCHANGED <<status, taskStatus>>
  BY DEF WriteEmployee, Goto, TypeOK
<1>2. call[r].employee \in Employee
  BY <1>1, CallFields
<1>3. \A e \in Employee \ {call[r].employee} : empStatus'[e] = empStatus[e]
  BY DEF WriteEmployee, TypeOK
<1>4. Active' \in {Active \cup {call[r].employee}, Active \ {call[r].employee}}
  <2>1. CASE empStatus'[call[r].employee] = "active"
    <3>1. Active' = Active \cup {call[r].employee}
      BY <1>2, <1>3, <2>1 DEF Active
    <3>2. QED
      BY <3>1
  <2>2. CASE empStatus'[call[r].employee] # "active"
    <3>1. Active' = Active \ {call[r].employee}
      BY <1>2, <1>3, <2>2 DEF Active
    <3>2. QED
      BY <3>1
  <2>3. QED
    BY <2>1, <2>2
<1>5. Ready' = Ready
  BY <1>1 DEF Ready, EmployeeTasksComplete, TaskComplete
<1>6. Lifecycle!EditEmployee(call[r].employee)
  BY <1>1, <1>4, <1>5 DEF Lifecycle!EditEmployee, Active, Ready
<1>7. QED
  BY <1>2, <1>6 DEF Lifecycle!EditEmployee

\* Activating is the first half of an approval.
LEMMA ActivationMaps ==
  ASSUME TypeOK, MovesHold, NEW r \in Request, ActivateEmployee(r)
  PROVE  \E c \in Case : Lifecycle!Activate(c)
<1>1. /\ call[r] \in Calls /\ call[r].op = "approve" /\ pc[r] = "activate"
      /\ UNCHANGED <<status, taskStatus>>
      /\ empStatus' = [empStatus EXCEPT ![caseEmployee[call[r].case]] = "active"]
  BY DEF ActivateEmployee, Goto, TypeOK
<1>2. call[r].case \in Case /\ caseEmployee[call[r].case] \in Employee
  BY <1>1, CallFields, OnboardingAssumption DEF CaseOp
<1>3. status[call[r].case] = "pending_hr"
  <2>1. CanMove(status[call[r].case], "completed")
    BY <1>1, OpTables DEF MovesHold, Moving, CaseOp
  <2>2. QED
    BY <2>1 DEF CanMove, TRANSITIONS
<1>4. Active' = Active \cup {caseEmployee[call[r].case]}
  BY <1>1, <1>2 DEF Active, TypeOK
<1>5. Ready' = Ready
  BY <1>1 DEF Ready, EmployeeTasksComplete, TaskComplete
<1>6. Lifecycle!Activate(call[r].case)
  BY <1>1, <1>3, <1>4, <1>5 DEF Lifecycle!Activate, Active, Ready
<1>7. QED
  BY <1>2, <1>6 DEF Lifecycle!Activate

\* A status write is the move that its request checked.
LEMMA CaseWriteMaps ==
  ASSUME TypeOK, ChecksHold, NEW r \in Request, WriteCase(r)
  PROVE  \E c \in Case : Lifecycle!Start(c) \/ Lifecycle!Submit(c) \/ Lifecycle!Complete(c)
<1> DEFINE c == call[r].case
           o == call[r].op
<1>1. /\ call[r] \in Calls /\ o \in CaseOp /\ pc[r] = "write"
      /\ UNCHANGED <<taskStatus, empStatus>>
      /\ status' = [status EXCEPT ![c] = Target[o]]
  BY DEF WriteCase, Goto, TypeOK
<1>2. c \in Case
  BY <1>1, CallFields
<1>3. /\ CanMove(status[c], Target[o])
      /\ o = "submit" => EmployeeTasksComplete(c)
      /\ o = "approve" => empStatus[caseEmployee[c]] = "active"
  BY <1>1 DEF ChecksHold, MovesHold, TasksHold, ActiveHolds, Moving
<1>4. Ready' = Ready /\ Active' = Active
  BY <1>1 DEF Ready, Active, EmployeeTasksComplete, TaskComplete
<1>5. Lifecycle!Move(c, Target[o])
  BY <1>1, <1>3, <1>4 DEF Lifecycle!Move, Lifecycle!CanMove, Lifecycle!TRANSITIONS,
     CanMove, TRANSITIONS, Ready, Active
<1>6. CASE o \in {"accept", "return"}
  BY <1>2, <1>5, <1>6, OpTables DEF Lifecycle!Start
<1>7. CASE o = "submit"
  BY <1>2, <1>3, <1>5, <1>7, OpTables DEF Lifecycle!Submit
<1>8. CASE o = "approve"
  <2>1. Active' = Active \cup {caseEmployee[c]}
    BY <1>2, <1>3, <1>4, <1>8, OnboardingAssumption DEF Active
  <2>2. CanMove(status[c], "completed") /\ status' = [status EXCEPT ![c] = "completed"]
    BY <1>1, <1>3, <1>8, OpTables
  <2>3. Lifecycle!Complete(c)
    BY <1>4, <2>1, <2>2 DEF Lifecycle!Complete, Lifecycle!CanMove, Lifecycle!TRANSITIONS,
       CanMove, TRANSITIONS, Ready, Active
  <2>4. QED
    BY <1>2, <2>3 DEF Lifecycle!Complete
<1>9. QED
  BY <1>1, <1>6, <1>7, <1>8 DEF CaseOp

LEMMA NextMaps ==
  ASSUME TypeOK, ChecksHold, [Next]_vars
  PROVE  [Lifecycle!Next]_Lifecycle!lifecycle
<1>1. ASSUME NEW r \in Request, WriteTask(r) \/ ResetTask(r) PROVE Lifecycle!Next
  BY <1>1, TaskWriteMaps DEF Lifecycle!Next
<1>2. ASSUME NEW r \in Request, WriteEmployee(r) PROVE Lifecycle!Next
  BY <1>2, EditMaps DEF Lifecycle!Next
<1>3. ASSUME NEW r \in Request, ActivateEmployee(r) PROVE Lifecycle!Next
  BY <1>3, ActivationMaps DEF Lifecycle!Next, ChecksHold
<1>4. ASSUME NEW r \in Request, WriteCase(r) PROVE Lifecycle!Next
  BY <1>4, CaseWriteMaps DEF Lifecycle!Next
<1>5. CASE UNCHANGED <<status, taskStatus, empStatus>>
  <2>1. UNCHANGED <<status, Ready, Active>>
    BY <1>5 DEF Ready, Active, EmployeeTasksComplete, TaskComplete
  <2>2. QED
    BY <2>1 DEF Lifecycle!lifecycle, Ready, Active
<1>6. QED
  BY <1>1, <1>2, <1>3, <1>4, <1>5 DEF Next, Step, vars, database, Arrive, Load, Refuse,
     Reread, AppendAudit, Lose

\* The service implements CaseLifecycle as long as no two requests of a case are
\* between check and write, no task is set back under a submission, and no employee
\* is made something else under an approval.
THEOREM LifecycleImplemented ==
  Spec /\ []MovesApart /\ []SubmitsApart /\ []EditsApart => ImplementsLifecycle
<1>1. TypeOK /\ ChecksHold /\ MovesApart /\ SubmitsApart /\ EditsApart /\ [Next]_vars
        => ChecksHold'
  BY MovesStep, TasksStep, ActiveStep DEF ChecksHold
<1>2. QED
  BY <1>1, ChecksInit, InitType, StepType, InitMaps, NextMaps, PTL
     DEF Spec, ImplementsLifecycle, Lifecycle!Spec

\* A completed case keeps its status as long as no two requests of a case are between
\* check and write, whatever else overlaps.
THEOREM CompletionStays == Spec /\ []MovesApart => CompletedIsFinal
<1> DEFINE Final == \A c \in Case : status[c] = "completed" => status'[c] = "completed"
<1>1. Init => MovesHold
  BY ChecksInit DEF ChecksHold
<1>2. TypeOK /\ MovesHold /\ [Next]_vars => [Final]_vars
  <2> SUFFICES ASSUME TypeOK, MovesHold, [Next]_vars, NEW c \in Case, status[c] = "completed"
               PROVE  status'[c] = "completed"
    OBVIOUS
  <2>1. ASSUME NEW r \in Request, WriteCase(r) PROVE status'[c] = "completed"
    <3>1. CanMove(status[call[r].case], Target[call[r].op])
      BY <2>1 DEF WriteCase, Goto, MovesHold, Moving
    <3>2. call[r].case # c
      BY <3>1 DEF CanMove, TRANSITIONS
    <3>3. QED
      BY <2>1, <3>2 DEF WriteCase, TypeOK
  <2>2. CASE \A r \in Request : ~WriteCase(r)
    BY <2>2 DEF Next, Step, Arrive, Load, Refuse, Reread, ActivateEmployee, WriteTask,
       ResetTask, WriteEmployee, AppendAudit, Lose, vars, database
  <2>3. QED
    BY <2>1, <2>2
<1>3. CompletedIsFinal <=> [][Final]_vars
  BY DEF CompletedIsFinal
<1> HIDE DEF Final
<1>4. QED
  BY <1>1, <1>2, <1>3, MovesStep, InitType, StepType, PTL DEF Spec

\* Requests that run one at a time are apart, so both theorems, and TrailExplained,
\* hold of a service that handles them so.
LEMMA AloneApart ==
  ASSUME TypeOK, \A q, r \in Request : Running(q) /\ Running(r) => q = r
  PROVE  Apart
<1>1. \A r \in Request : /\ Moving(r) \/ Tracing(r) => Running(r)
                         /\ pc[r] = "write" => Running(r)
  BY DEF Moving, Tracing, Running
<1>2. MovesApart /\ TrailApart
  BY <1>1 DEF MovesApart, TrailApart
<1>3. SubmitsApart
  <2> SUFFICES ASSUME NEW q \in Request, NEW r \in Request,
                      Moving(q), call[q].op = "submit", pc[r] = "write"
               PROVE  \A t \in EmployeeTask : ~SetsBack(call[r], call[q].case, t)
    BY DEF SubmitsApart
  <2>1. q = r
    BY <1>1
  <2>2. QED
    BY <2>1 DEF SetsBack
<1>4. EditsApart
  BY <1>1 DEF EditsApart
<1>5. QED
  BY <1>2, <1>3, <1>4 DEF Apart
=============================================================================
