--------------------------- MODULE CaseLifecycle ---------------------------
(***************************************************************************)
(* What the onboarding service promises of a case, seen from outside: its  *)
(* status moves along the state machine one whole move at a time, a case   *)
(* is submitted only when its employee tasks are complete, and it is       *)
(* completed only with its employee active.  One action per promise, no    *)
(* requests, no snapshots, no audit.  Module Onboarding is shown to        *)
(* implement it when the few requests that would disturb each other do     *)
(* not overlap, and module Portal, where a call is one step, always.       *)
(***************************************************************************)
EXTENDS CaseStateMachine

CONSTANTS Case, Employee,
          caseEmployee          \* the employee a case is for

VARIABLES status,               \* the status of each case
          ready,                \* the cases whose employee tasks are all complete
          active                \* the employees whose status is active

lifecycle == <<status, ready, active>>

Init == /\ status \in [Case -> {"invited", "in_progress"}]
        /\ ready \in SUBSET Case
        /\ active \in SUBSET Employee

Move(c, to) == /\ CanMove(status[c], to)
               /\ status' = [status EXCEPT ![c] = to]
               /\ UNCHANGED <<ready, active>>

Start(c) == Move(c, "in_progress")

Submit(c) == c \in ready /\ Move(c, "pending_hr")

\* HR activates the employee of a case under review, to complete the case then.
Activate(c) == /\ status[c] = "pending_hr"
               /\ active' = active \cup {caseEmployee[c]}
               /\ UNCHANGED <<status, ready>>

\* A case is completed with its employee active, if not before then by that step.
Complete(c) == /\ CanMove(status[c], "completed")
               /\ status' = [status EXCEPT ![c] = "completed"]
               /\ active' = active \cup {caseEmployee[c]}
               /\ UNCHANGED ready

\* Working on a task of the case may make it ready or not ready, at any time.
WorkOnTasks(c) == /\ ready' \in {ready \cup {c}, ready \ {c}}
                  /\ UNCHANGED <<status, active>>

\* HR edits the employee record.
EditEmployee(e) == /\ active' \in {active \cup {e}, active \ {e}}
                   /\ UNCHANGED <<status, ready>>

Next == \/ \E c \in Case : \/ Start(c) \/ Submit(c) \/ Activate(c)
                           \/ Complete(c) \/ WorkOnTasks(c)
        \/ \E e \in Employee : EditEmployee(e)

Spec == Init /\ [][Next]_lifecycle
=============================================================================
