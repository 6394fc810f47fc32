------------------------------- MODULE Portal -------------------------------
(***************************************************************************)
(* The two web portals at work on one case: the checklist of the new hire  *)
(* (web-onboarding/src/App.tsx) and the case page of HR and the manager    *)
(* (web-admin/src/App.tsx), over the API.                                  *)
(*                                                                         *)
(* A page shows the case it loaded last and offers buttons on that view,   *)
(* however old.  A click is a chain of calls, each sent when the one       *)
(* before was answered; a page may have several chains under way, as no    *)
(* button is disabled meanwhile.  A call that fails ends its chain, with   *)
(* what the calls before it did.                                           *)
(*                                                                         *)
(* The handlers of documents take two steps, between which others run:     *)
(* register sums and inserts, saveUpload checks and writes, remove deletes *)
(* and then takes the task back.  Those of the case take one: what else    *)
(* goes on inside them is the subject of Onboarding and of Documents.      *)
(* Files go to the API when the storage is the local disk, and straight to *)
(* a bucket, which knows of no rows, when it is in the cloud.              *)
(***************************************************************************)
EXTENDS CaseStateMachine, Naturals, FiniteSets

CONSTANTS Tab, user,            \* open pages, and the role of who uses each
          Chain, tabOf, rank,   \* the chains of calls a page may have under way
          Doc,                  \* names of documents
          Quota,                \* the documents of one employee that fit
          MaxFaults,            \* bound: calls lost or given up by a page
          MaxWhims,             \* bound: clicks that lead away, and those made in haste
          None                  \* null

VARIABLES cloud,                \* STORAGE_DRIVER: is a file put to a presigned URL?
          status, active,       \* OnboardingCase.status; the employee is active
          task,                 \* OnboardingTask.status
          docs, stored,         \* documents_meta: its rows; the bytes in the storage
          over,                 \* history: two sums for one room took the rows over the quota
          view,                 \* per page: the case it shows (the state c)
          run,                  \* per chain: the call under way and its answer
          faults,               \* how many calls were lost or given up
          whims, hasty          \* how many clicks led away; and came while a call ran

server == <<cloud, status, active, task, docs, stored, over>>
bounds == <<faults, whims, hasty>>
vars == <<server, view, run, bounds>>

Role == {"employee", "hr_admin"}

\* The employee's tasks: one with a file, and one for all those without.
Task == {"ID_DOC", "PROFILE"}

\* What a page has loaded of the case.
View == [status : CaseStatus, task : [Task -> {"pending", "done"}], docs : SUBSET Doc]
        \cup [docs : SUBSET Doc]

Calls == {"register", "put", "patch", "accept", "delete", "submit", "approve", "return", "load"}

\* The call a chain has under way: its answer, or that the first half of its handler is
\* done; what was loaded; whether the page no longer waits for it.
Chained == [call : Calls, task : Task \cup {None}, doc : Doc \cup {None},
            answer : {None, "checked", "ok", "refused"}, seen : View \cup {None}, late : BOOLEAN]

ASSUME PortalAssumption ==
  /\ user \in [Tab -> Role] /\ tabOf \in [Chain -> Tab] /\ rank \in [Chain -> Nat]
  /\ Quota \in Nat \ {0} /\ MaxFaults \in Nat /\ MaxWhims \in Nat
  /\ None \notin Doc \cup View \cup Chained \cup {"checked", "ok", "refused"}

\* Mutant: the task is marked done without waiting for the file to be sent.
SkipPut == [register |-> "patch", put |-> "patch", patch |-> "load", accept |-> "load",
            delete |-> "load", submit |-> "load", approve |-> "load", return |-> "load"]

\* What the page sends when a call was answered well; "load" ends a chain.
Then == [register |-> "put", put |-> "patch", patch |-> "load", accept |-> "load",
         delete |-> "load", submit |-> "load", approve |-> "load", return |-> "load"]

-----------------------------------------------------------------------------
(* What a page shows and offers.                                           *)

\* listCases of the employee; HR's page uses the documents of getCase only, as
\* its buttons are there whatever the status.
Seen(role) == IF role = "employee" THEN [status |-> status, task |-> task, docs |-> docs]
                                   ELSE [docs |-> docs]

AcceptShown(v) == v.status = "invited"

MarkDoneShown(v, t) == t # "ID_DOC" /\ v.task[t] = "pending"

UploadShown(v) == v.docs = {} /\ v.task["ID_DOC"] = "pending"

\* Mutant: a document is offered for deletion only once its task is done.
DeleteWhenDone(v, d) == d \in v.docs /\ v.task["ID_DOC"] = "done"

\* The API lists documents in no order: any of them may be the latest.
DeleteShown(v, d) == d \in v.docs

SubmitShown(v) == v.status = "in_progress"

-----------------------------------------------------------------------------
(* The clicks.                                                             *)

Quiet(t) == \A c \in Chain : tabOf[c] = t => (run[c] # None => run[c].late)

\* A click that helps the case along and waits for the page costs nothing.
Spend(c, helps) ==
  /\ whims' = IF helps THEN whims ELSE whims + 1
  /\ hasty' = IF Quiet(tabOf[c]) THEN hasty ELSE hasty + 1
  /\ whims' + hasty' <= MaxWhims

\* The chains of a page are taken in order.
Start(c, call, t, d) ==
  /\ run[c] = None
  /\ \A b \in Chain : tabOf[b] = tabOf[c] /\ run[b] = None => rank[c] <= rank[b]
  /\ run' = [run EXCEPT ![c] = [call |-> call, task |-> t, doc |-> d, answer |-> None,
                                seen |-> None, late |-> FALSE]]
  /\ UNCHANGED <<server, view, faults>>

\* The view of the page of a chain, when it is one of role's and is loaded.
OnPage(c, role) == user[tabOf[c]] = role /\ view[tabOf[c]] # None

Shown(c) == view[tabOf[c]]

AcceptInvite(c) == /\ OnPage(c, "employee") /\ AcceptShown(Shown(c))
                   /\ Start(c, "accept", None, None) /\ Spend(c, TRUE)

MarkDone(c, t) == /\ OnPage(c, "employee") /\ MarkDoneShown(Shown(c), t)
                  /\ Start(c, "patch", t, None) /\ Spend(c, TRUE)

UploadId(c) == /\ OnPage(c, "employee") /\ UploadShown(Shown(c))
               /\ Start(c, "register", "ID_DOC", None) /\ Spend(c, TRUE)

\* Deleting helps when it is the way back to the upload.
DeleteId(c, d) == /\ OnPage(c, "employee") /\ DeleteShown(Shown(c), d)
                  /\ Start(c, "delete", "ID_DOC", d)
                  /\ Spend(c, Shown(c).task["ID_DOC"] = "pending")

SubmitCase(c) == /\ OnPage(c, "employee") /\ SubmitShown(Shown(c))
                 /\ Start(c, "submit", None, None)
                 /\ Spend(c, \A t \in Task : Shown(c).task[t] = "done")

\* HR's buttons do not depend on the status shown.
ApproveCase(c) == /\ OnPage(c, "hr_admin")
                  /\ Start(c, "approve", None, None) /\ Spend(c, TRUE)

ReturnCase(c) == /\ OnPage(c, "hr_admin")
                 /\ Start(c, "return", None, None) /\ Spend(c, FALSE)

DeleteDoc(c, d) == /\ OnPage(c, "hr_admin") /\ d \in Shown(c).docs
                   /\ Start(c, "delete", "ID_DOC", d) /\ Spend(c, FALSE)

Press(c) == \/ AcceptInvite(c) \/ UploadId(c) \/ SubmitCase(c)
            \/ ApproveCase(c) \/ ReturnCase(c)
            \/ \E t \in Task : MarkDone(c, t)
            \/ \E d \in Doc : DeleteId(c, d) \/ DeleteDoc(c, d)

\* The page is opened, or loaded again.
Open(t) == /\ Quiet(t)
           /\ \E c \in Chain : tabOf[c] = t /\ Start(c, "load", None, None)
           /\ UNCHANGED <<whims, hasty>>

-----------------------------------------------------------------------------
(* The API serves the first call of a chain.                               *)

Waiting(c, call) == run[c] # None /\ run[c].answer = None /\ run[c].call = call

\* The handler of the call is half through.
Checked(c, call) == run[c] # None /\ run[c].answer = "checked" /\ run[c].call = call

Answer(c, a) == run' = [run EXCEPT ![c].answer = a]

\* The move of the case each call asks for.
Target == [accept |-> "in_progress", submit |-> "pending_hr",
           approve |-> "completed", return |-> "in_progress"]

\* Mutant: submit without its check of the tasks.
SubmitUnchecked(call) == CanMove(status, Target[call])

MoveAllowed(call) ==
  /\ CanMove(status, Target[call])
  /\ call = "submit" => \A t \in Task : task[t] = "done"

MoveCase(c) ==
  /\ \E call \in DOMAIN Target :
       /\ Waiting(c, call) /\ MoveAllowed(call)
       /\ status' = Target[call]
       /\ active' = (active \/ call = "approve")
  /\ Answer(c, "ok") /\ UNCHANGED <<cloud, task, docs, stored, over, view, bounds>>

\* patchTask looks at no document and at no status of the case.
PatchTask(c) ==
  /\ Waiting(c, "patch") /\ Answer(c, "ok")
  /\ task' = [task EXCEPT ![run[c].task] = "done"]
  /\ UNCHANGED <<cloud, status, active, docs, stored, over, view, bounds>>

\* randomUUID: a name nobody remembers.
Fresh(d) == /\ d \notin docs \cup stored
            /\ \A c \in Chain : run[c] # None =>
                 run[c].doc # d /\ (run[c].seen # None => d \notin run[c].seen.docs)
            /\ \A t \in Tab : view[t] # None => d \notin view[t].docs

WithinQuota == Cardinality(docs) < Quota

\* register: the rows are summed,
Register(c) ==
  /\ Waiting(c, "register") /\ WithinQuota /\ Answer(c, "checked")
  /\ UNCHANGED <<server, view, bounds>>

\* and the new one is inserted, whatever was inserted since.  Which fresh name it gets
\* makes no difference.
Insert(c) ==
  /\ Checked(c, "register")
  /\ \E d \in Doc : /\ Fresh(d) /\ d = (CHOOSE x \in Doc : Fresh(x))
                    /\ docs' = docs \cup {d}
                    /\ run' = [run EXCEPT ![c].doc = d, ![c].answer = "ok"]
  /\ over' = (over \/ ~WithinQuota)
  /\ UNCHANGED <<cloud, status, active, task, stored, view, bounds>>

\* Mutant: the row of the document itself counts against the quota once more.
CountedTwice(d) == d \in docs /\ Cardinality(docs) < Quota

\* saveUpload: the row is there, and the bytes fit besides those of the other rows;
UploadAllowed(d) == d \in docs /\ Cardinality(docs \ {d}) < Quota

CheckUpload(c) ==
  /\ ~cloud /\ Waiting(c, "put") /\ UploadAllowed(run[c].doc) /\ Answer(c, "checked")
  /\ UNCHANGED <<server, view, bounds>>

\* the file is written, and the size of its row if it is still there.
SaveUpload(c) ==
  /\ Checked(c, "put")
  /\ stored' = stored \cup {run[c].doc}
  /\ Answer(c, IF run[c].doc \in docs THEN "ok" ELSE "refused")
  /\ UNCHANGED <<cloud, status, active, task, docs, over, view, bounds>>

\* The bucket takes what is put to a presigned URL, whatever became of the row.
PutObject(c) ==
  /\ cloud /\ Waiting(c, "put")
  /\ stored' = stored \cup {run[c].doc}
  /\ Answer(c, "ok") /\ UNCHANGED <<cloud, status, active, task, docs, over, view, bounds>>

\* remove: file and row go; if that was the last document of the task,
Remove(c) ==
  /\ Waiting(c, "delete") /\ run[c].doc \in docs
  /\ docs' = docs \ {run[c].doc} /\ stored' = stored \ {run[c].doc}
  /\ Answer(c, IF docs' = {} THEN "checked" ELSE "ok")
  /\ UNCHANGED <<cloud, status, active, task, over, view, bounds>>

\* the task goes back to pending, whatever was registered or completed since.
ResetTask(c) ==
  /\ Checked(c, "delete")
  /\ task' = [task EXCEPT !["ID_DOC"] = "pending"]
  /\ Answer(c, "ok")
  /\ UNCHANGED <<cloud, status, active, docs, stored, over, view, bounds>>

ListCases(c) ==
  /\ Waiting(c, "load")
  /\ run' = [run EXCEPT ![c].answer = "ok", ![c].seen = Seen(user[tabOf[c]])]
  /\ UNCHANGED <<server, view, bounds>>

Refuse(c) ==
  /\ \/ \E call \in DOMAIN Target : Waiting(c, call) /\ ~MoveAllowed(call)
     \/ Waiting(c, "register") /\ ~WithinQuota
     \/ ~cloud /\ Waiting(c, "put") /\ ~UploadAllowed(run[c].doc)
     \/ Waiting(c, "delete") /\ run[c].doc \notin docs
  /\ Answer(c, "refused") /\ UNCHANGED <<server, view, bounds>>

Serve(c) == \/ MoveCase(c) \/ PatchTask(c) \/ ListCases(c) \/ Refuse(c)
            \/ Register(c) \/ Insert(c)
            \/ CheckUpload(c) \/ SaveUpload(c) \/ PutObject(c)
            \/ Remove(c) \/ ResetTask(c)

-----------------------------------------------------------------------------
(* The page goes on with the answer.                                       *)

Answered(c) == run[c] # None /\ run[c].answer \in {"ok", "refused"}

End(c) == run' = [run EXCEPT ![c] = None]

\* Mutant: nothing is loaded after a task was completed.
ProceedOrEnd(c) ==
  /\ Answered(c) /\ run[c].answer = "ok" /\ run[c].call # "load" /\ ~run[c].late
  /\ run' = [run EXCEPT ![c] = IF @.call = "patch" THEN None
                               ELSE [@ EXCEPT !.call = Then[@], !.answer = None]]
  /\ UNCHANGED <<server, view, bounds>>

\* Mutant: the answer to one call is taken for that to the next.
ProceedAnswered(c) ==
  /\ Answered(c) /\ run[c].answer = "ok" /\ run[c].call # "load" /\ ~run[c].late
  /\ run' = [run EXCEPT ![c].call = Then[@]]
  /\ UNCHANGED <<server, view, bounds>>

Proceed(c) ==
  /\ Answered(c) /\ run[c].answer = "ok" /\ run[c].call # "load" /\ ~run[c].late
  /\ run' = [run EXCEPT ![c].call = Then[@], ![c].answer = None]
  /\ UNCHANGED <<server, view, bounds>>

\* setC
Show(c) ==
  /\ Answered(c) /\ run[c].call = "load"
  /\ view' = [view EXCEPT ![tabOf[c]] = run[c].seen]
  /\ End(c) /\ UNCHANGED <<server, bounds>>

\* The error is shown and the view stays; nobody sees the answer to a late call.
Stop(c) ==
  /\ Answered(c) /\ (run[c].answer = "refused" \/ run[c].late)
  /\ End(c) /\ UNCHANGED <<server, view, bounds>>

Continue(c) == Proceed(c) \/ Show(c) \/ Stop(c)

\* The call does not arrive or is not served to its end, or the answer does not arrive.
Lose(c) == /\ run[c] # None /\ faults < MaxFaults /\ faults' = faults + 1
           /\ End(c) /\ UNCHANGED <<server, view, whims, hasty>>

\* The page is left or loses the connection: the call under way is late, it may
\* still be served, and nothing follows it.
GiveUp(c) == /\ run[c] # None /\ run[c].answer \in {None, "checked"}
             /\ run[c].call # "load" /\ ~run[c].late
             /\ faults < MaxFaults /\ faults' = faults + 1
             /\ run' = [run EXCEPT ![c].late = TRUE]
             /\ UNCHANGED <<server, view, whims, hasty>>

-----------------------------------------------------------------------------

Init == /\ cloud \in BOOLEAN /\ over = FALSE
        /\ status = "invited" /\ active = FALSE
        /\ task = [t \in Task |-> "pending"]
        /\ docs = {} /\ stored = {}
        /\ view = [t \in Tab |-> None]
        /\ run = [c \in Chain |-> None]
        /\ faults = 0 /\ whims = 0 /\ hasty = 0

Next == \/ \E t \in Tab : Open(t)
        \/ \E c \in Chain : Press(c) \/ Serve(c) \/ Continue(c) \/ Lose(c) \/ GiveUp(c)

\* The API answers and pages go on; a person whose page is quiet loads it again
\* now and then and presses a button that helps, however often other steps
\* take the button away meanwhile.
Fairness ==
  /\ \A c \in Chain : WF_vars(Serve(c)) /\ WF_vars(Continue(c))
  /\ \A t \in Tab : /\ SF_vars(Open(t))
                  /\ SF_vars(\E c \in Chain : /\ tabOf[c] = t /\ Press(c)
                                           /\ whims' = whims /\ hasty' = hasty)

Spec == Init /\ [][Next]_vars /\ Fairness

-----------------------------------------------------------------------------
(* Properties.                                                             *)

\* Every variable keeps its type, and a call that loads is answered with a view.
TypeOK == /\ cloud \in BOOLEAN /\ status \in CaseStatus /\ active \in BOOLEAN
          /\ task \in [Task -> {"pending", "done"}]
          /\ stored \subseteq Doc /\ docs \subseteq Doc /\ over \in BOOLEAN
          /\ view \in [Tab -> View \cup {None}] /\ run \in [Chain -> Chained \cup {None}]
          /\ \A c \in Chain : Answered(c) /\ run[c].call = "load" => run[c].seen \in View
          /\ faults \in 0..MaxFaults /\ whims \in Nat /\ hasty \in Nat /\ whims + hasty <= MaxWhims

\* The task of the identity document becomes done only by an upload whose file
\* has arrived, or has been deleted since: the API does not look, so this rests on
\* the order of the three calls of a page and on its stopping at the first failure
\* (upload in web-onboarding/src/App.tsx).
DoneByUpload ==
  [][task["ID_DOC"] = "pending" /\ task'["ID_DOC"] = "done" =>
       \E c \in Chain : /\ Waiting(c, "patch") /\ run'[c] # run[c]
                        /\ run[c].doc \in stored \cup (Doc \ docs)]_vars

\* A row without bytes is one whose upload is under way, what a call that was lost or
\* given up has left, or what the quota leaves of two uploads that overlapped: unless
\* they were summed for the same room (register), what is registered fits when its bytes
\* arrive (saveUpload).
EmptyRowExplained ==
  faults = 0 /\ ~over =>
    \A d \in docs \ stored :
      \E c \in Chain : run[c] # None /\ run[c].doc = d /\ run[c].call \in {"register", "put"}

\* As long as no call is lost or given up and no button is pressed while a call of its
\* page runs, the employee's only page, at rest, misses no document and no completed
\* task, whatever HR deletes or returns meanwhile: each chain of calls ends in a load,
\* or has added nothing.  (It may still show what HR has deleted since.)
PageMissesNothing ==
  \A t \in Tab : /\ faults = 0 /\ hasty = 0 /\ Quiet(t) /\ view[t] # None
                 /\ \A s \in Tab : user[s] = "employee" <=> s = t
                 => /\ docs \subseteq view[t].docs
                    /\ \A k \in Task : task[k] = "done" => view[t].task[k] = "done"

\* The one case of the pages as one of CaseLifecycle.
Lifecycle == INSTANCE CaseLifecycle WITH
  Case <- {"case"}, Employee <- {"hire"}, caseEmployee <- [c \in {"case"} |-> "hire"],
  status <- [c \in {"case"} |-> status],
  ready  <- {c \in {"case"} : \A t \in Task : task[t] = "done"},
  active <- {p \in {"hire"} : active}

\* However old the views that the pages act on and wherever their chains break off,
\* what they make of the case is a life that CaseLifecycle allows: serving the moves of
\* a case in one step, the API of this module keeps the promise that the handlers are
\* held to.
ImplementsLifecycle == Lifecycle!Spec

\* Whoever answers, loses or repeats what, a case ends approved and its employee
\* active, if faults and whims end: no half-done upload, old view or lost answer
\* leaves the page without a button that leads on.
Onboarded == <>[](status = "completed" /\ active)
=============================================================================
