---------------------------- MODULE MCOnboarding ----------------------------
(***************************************************************************)
(* Small instances of Onboarding: one hire (luis) with one case, their     *)
(* manager, an HR administrator; one employee task and one manager task.   *)
(***************************************************************************)
EXTENDS Onboarding, TLC

CONSTANTS c1, luis, boss, hr, mgr, emp, r1, r2, r3, r4

MCCaseEmployee == c1 :> luis
MCAssigneeRole == ("ID_DOC" :> "employee") @@ ("MANAGER_INTRO" :> "manager")
MCRole         == (hr :> "hr_admin") @@ (mgr :> "manager") @@ (emp :> "employee")
MCUserEmployee == (hr :> None) @@ (mgr :> boss) @@ (emp :> luis)
MCReportsTo    == (luis :> boss) @@ (boss :> None)

\* What the web and mobile clients send, and what they could send.
CaseCalls == [op : {"accept", "submit"}, user : {emp, mgr}, case : {c1}]
        \cup [op : {"approve", "return"}, user : {hr, emp}, case : {c1}]
TaskCalls == [op : {"patchTask"}, user : {emp, mgr}, case : {c1},
              task : {"ID_DOC", "MANAGER_INTRO"}, to : {"pending", "done"}]
EditCalls == [op : {"updateEmployee"}, user : {hr}, employee : {luis},
              patch : {[status |-> "terminated", manager |-> None],
                       [status |-> None, manager |-> luis]}]

RemovalCalls == [op : {"removeDocument"}, user : {hr, emp}, case : {c1},
                 task : {"ID_DOC"}, taskCase : {c1}]

MCCalls == CaseCalls \cup TaskCalls \cup EditCalls \cup RemovalCalls

\* The review of a case: its employee submits it, HR approves or returns it.
ReviewCalls == [op : {"submit"}, user : {emp}, case : {c1}]
          \cup [op : {"approve", "return"}, user : {hr}, case : {c1}]

\* One caller per operation, so that longer sequences fit the bounds.
ApartCalls ==
       [op : {"accept", "submit"}, user : {emp}, case : {c1}]
  \cup [op : {"approve", "return"}, user : {hr}, case : {c1}]
  \cup [op : {"patchTask"}, user : {emp}, case : {c1}, task : {"ID_DOC"},
        to : {"pending", "done"}]
  \cup [op : {"removeDocument"}, user : {emp}, case : {c1}, task : {"ID_DOC"}, taskCase : {c1}]
  \cup [op : {"updateEmployee"}, user : {hr}, employee : {luis},
        patch : {[status |-> "terminated", manager |-> None]}]

\* No second request of a submission.
OneSubmission == \A q, r \in Request :
  call[q] # None /\ call[r] # None /\ call[q].op = "submit" /\ call[r].op = "submit" => q = r

Requests3 == Permutations({r1, r2, r3})
Requests4 == Permutations({r1, r2, r3, r4})
=============================================================================
