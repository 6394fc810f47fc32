---------------------------- MODULE PortalProofs ----------------------------
(***************************************************************************)
(* Proofs about module Portal, for any number of pages and of chains of    *)
(* calls, any quota, and any bounds on faults and whims.                   *)
(***************************************************************************)
EXTENDS Portal, FiniteSetTheorems, TLAPS

-----------------------------------------------------------------------------
(* Type correctness.                                                       *)

\* What each call of a chain is about.
Fits(c) ==
  /\ run[c].call = "patch" => run[c].task \in Task
  /\ run[c].call \in {"put", "delete"} => run[c].doc \in Doc
  /\ run[c].call = "register" /\ run[c].answer # "ok" => run[c].doc = None
  /\ run[c].call = "register" /\ run[c].answer = "ok" => run[c].doc \in Doc
  /\ run[c].call \in {"register", "put"} => run[c].task = "ID_DOC"
  /\ run[c].call = "load" /\ run[c].answer # None => run[c].answer = "ok" /\ run[c].seen \in View
  /\ run[c].answer = "checked" => run[c].call \in {"register", "put", "delete"}

TypeInv == /\ TypeOK
           /\ \A c \in Chain : run[c] # None => Fits(c)

LEMMA InitType == Init => TypeInv
<1> SUFFICES ASSUME Init PROVE TypeInv
  OBVIOUS
<1>1. MaxFaults \in Nat /\ MaxWhims \in Nat
  BY PortalAssumption
<1>2. \A c \in Chain : run[c] = None
  BY DEF Init
<1>3. TypeOK
  <2>1. cloud \in BOOLEAN /\ status \in CaseStatus /\ active \in BOOLEAN /\ over \in BOOLEAN
    BY DEF Init, CaseStatus
  <2>2. task \in [Task -> {"pending", "done"}] /\ stored \subseteq Doc /\ docs \subseteq Doc
    BY DEF Init
  <2>3. faults \in 0..MaxFaults /\ whims \in Nat /\ hasty \in Nat /\ whims + hasty <= MaxWhims
    BY <1>1 DEF Init
  <2>4. view \in [Tab -> View \cup {None}] /\ run \in [Chain -> Chained \cup {None}]
    BY DEF Init
  <2>5. QED
    BY <1>2, <2>1, <2>2, <2>3, <2>4 DEF TypeOK, Answered
<1>4. QED
  BY <1>2, <1>3 DEF TypeInv

LEMMA CountUp == \A n \in 0..MaxFaults : n < MaxFaults => n + 1 \in 0..MaxFaults
<1>1. MaxFaults \in Nat
  BY PortalAssumption
<1>2. QED
  BY <1>1

Clicks == whims \in Nat /\ hasty \in Nat /\ whims + hasty <= MaxWhims

\* A step of the chain c leaves the others, and every view but that of its page.
TypeStep(c) ==
  /\ cloud' \in BOOLEAN /\ status' \in CaseStatus /\ active' \in BOOLEAN /\ over' \in BOOLEAN
  /\ task' \in [Task -> {"pending", "done"}]
  /\ stored' \subseteq Doc /\ docs' \subseteq Doc
  /\ faults' \in 0..MaxFaults /\ Clicks'
  /\ view' \in [Tab -> View \cup {None}]
  /\ \E x \in Chained \cup {None} : run' = [run EXCEPT ![c] = x]
  /\ run'[c] # None => Fits(c)'

LEMMA OthersFit ==
  ASSUME TypeInv, NEW c \in Chain, TypeStep(c)
  PROVE  TypeInv'
<1>1. PICK x \in Chained \cup {None} : run' = [run EXCEPT ![c] = x]
  BY DEF TypeStep
<1>2. run' \in [Chain -> Chained \cup {None}] /\ \A b \in Chain \ {c} : run'[b] = run[b]
  BY <1>1 DEF TypeInv, TypeOK
<1>3. \A b \in Chain : run'[b] # None => Fits(b)'
  BY <1>2 DEF TypeInv, TypeStep, Fits
<1>4. \A b \in Chain : Answered(b)' /\ run'[b].call = "load" => run'[b].seen \in View
  BY <1>3, PortalAssumption DEF Fits, Answered
<1>5. QED
  BY <1>2, <1>3, <1>4 DEF TypeInv, TypeOK, TypeStep, Clicks

\* A click starts a chain.
LEMMA StartType ==
  ASSUME TypeInv, NEW c \in Chain, NEW call \in Calls \ {"put"},
         NEW t \in Task \cup {None}, NEW d \in Doc \cup {None}, Start(c, call, t, d),
         call = "patch" => t \in Task, call = "delete" => d \in Doc,
         call = "register" => t = "ID_DOC" /\ d = None,
         Clicks'
  PROVE  TypeStep(c)
<1> DEFINE x == [call |-> call, task |-> t, doc |-> d, answer |-> None, seen |-> None, late |-> FALSE]
<1>1. x \in Chained
  BY DEF Chained
<1>2. run' = [run EXCEPT ![c] = x] /\ UNCHANGED <<server, view, faults>>
  BY DEF Start
<1>3. run'[c] = x
  BY <1>2 DEF TypeInv, TypeOK
<1>4. Fits(c)'
  BY <1>3, PortalAssumption DEF Fits
<1>5. QED
  BY <1>1, <1>2, <1>4 DEF TypeStep, TypeInv, TypeOK, server

LEMMA SpendType ==
  ASSUME TypeInv, NEW c \in Chain, NEW h, Spend(c, h)
  PROVE  Clicks' /\ whims' \in {whims, whims + 1} /\ hasty' \in {hasty, hasty + 1}
BY DEF Spend, TypeInv, TypeOK, Clicks

LEMMA PressType ==
  ASSUME TypeInv, NEW c \in Chain, Press(c)
  PROVE  TypeStep(c)
<1>1. Clicks'
  <2>1. \E h : Spend(c, h)
    BY DEF Press, AcceptInvite, MarkDone, UploadId, DeleteId, SubmitCase, ApproveCase, ReturnCase,
           DeleteDoc
  <2>2. QED
    BY <2>1, SpendType
<1>2. \E call \in Calls \ {"put"}, t \in Task \cup {None}, d \in Doc \cup {None} :
        /\ Start(c, call, t, d)
        /\ call = "patch" => t \in Task
        /\ call = "delete" => d \in Doc
        /\ call = "register" => t = "ID_DOC" /\ d = None
  <2>1. CASE AcceptInvite(c)
    BY <2>1 DEF AcceptInvite, Calls
  <2>2. CASE UploadId(c)
    BY <2>2 DEF UploadId, Calls, Task
  <2>3. CASE SubmitCase(c)
    BY <2>3 DEF SubmitCase, Calls
  <2>4. CASE ApproveCase(c)
    BY <2>4 DEF ApproveCase, Calls
  <2>5. CASE ReturnCase(c)
    BY <2>5 DEF ReturnCase, Calls
  <2>6. ASSUME NEW t \in Task, MarkDone(c, t) PROVE <1>2
    BY <2>6 DEF MarkDone, Calls
  <2>7. ASSUME NEW d \in Doc, DeleteId(c, d) \/ DeleteDoc(c, d) PROVE <1>2
    <3>1. Start(c, "delete", "ID_DOC", d)
      BY <2>7 DEF DeleteId, DeleteDoc
    <3>2. "delete" \in Calls \ {"put"} /\ "ID_DOC" \in Task
      BY DEF Calls, Task
    <3>3. QED
      BY <3>1, <3>2
  <2>8. QED
    BY <2>1, <2>2, <2>3, <2>4, <2>5, <2>6, <2>7 DEF Press
<1>3. QED
  BY <1>1, <1>2, StartType

LEMMA SeenType == TypeInv => \A role : Seen(role) \in View
BY DEF TypeInv, TypeOK, Seen, View

\* An answer to a call, or the first half of its handler.
LEMMA AnswerType ==
  ASSUME TypeInv, NEW c \in Chain, run[c] # None, NEW a \in {"checked", "ok", "refused"}, Answer(c, a),
         run[c].answer \in {None, "checked"}, run[c].call # "load",
         run[c].call = "register" => a # "ok",
         a = "checked" => run[c].call \in {"register", "put", "delete"}
  PROVE  /\ \E x \in Chained \cup {None} : run' = [run EXCEPT ![c] = x]
         /\ Fits(c)'
<1> DEFINE x == [run[c] EXCEPT !.answer = a]
<1>0. run[c] \in Chained /\ run \in [Chain -> Chained \cup {None}] /\ Fits(c)
  BY DEF TypeInv, TypeOK
<1>1. run' = [run EXCEPT ![c] = x] /\ x \in Chained /\ run'[c] = x
  BY <1>0 DEF Answer, Chained
<1>2. /\ x.call = run[c].call /\ x.task = run[c].task /\ x.doc = run[c].doc /\ x.answer = a
  BY <1>0 DEF Chained
<1>3. Fits(c)'
  BY <1>0, <1>1, <1>2, PortalAssumption DEF Fits
<1>4. QED
  BY <1>1, <1>3

\* The API answers a call: what it does to the database, and to the chain.
LEMMA ServeType ==
  ASSUME TypeInv, NEW c \in Chain, Serve(c)
  PROVE  TypeStep(c)
<1> USE DEF TypeInv, TypeOK, Clicks
<1>0. run[c] # None /\ run[c] \in Chained /\ run[c].answer \in {None, "checked"} /\ Fits(c)
  BY DEF Serve, MoveCase, PatchTask, Register, Insert, CheckUpload, SaveUpload, PutObject, Remove,
         ResetTask, ListCases, Refuse, Waiting, Checked
<1>1. CASE MoveCase(c)
  <2>1. status' \in CaseStatus /\ run[c].call \in {"accept", "submit", "approve", "return"}
        /\ active' \in BOOLEAN
    BY <1>1 DEF MoveCase, Target, CaseStatus, Waiting
  <2>2. QED
    BY <1>0, <1>1, <2>1, AnswerType DEF MoveCase, TypeStep, bounds
<1>2. CASE PatchTask(c)
  <2>1. run[c].call = "patch" /\ Answer(c, "ok")
    BY <1>2 DEF PatchTask, Waiting
  <2>2. QED
    BY <1>0, <1>2, <2>1, AnswerType DEF PatchTask, TypeStep, bounds
<1>3. CASE Register(c) \/ CheckUpload(c)
  <2>1. run[c].call \in {"register", "put"} /\ Answer(c, "checked") /\ UNCHANGED <<server, view, bounds>>
    BY <1>3 DEF Register, CheckUpload, Waiting
  <2>2. QED
    BY <1>0, <2>1, AnswerType DEF TypeStep, server, bounds
<1>4. CASE Insert(c)
  <2>1. PICK d \in Doc : docs' = docs \cup {d} /\ run' = [run EXCEPT ![c].doc = d, ![c].answer = "ok"]
    BY <1>4 DEF Insert
  <2> DEFINE x == [run[c] EXCEPT !.doc = d, !.answer = "ok"]
  <2>2. run' = [run EXCEPT ![c] = x] /\ x \in Chained /\ run'[c] = x
    BY <1>0, <2>1 DEF Chained
  <2>3. x.call = "register" /\ x.task = run[c].task /\ x.doc = d /\ x.answer = "ok"
    BY <1>0, <1>4 DEF Chained, Insert, Checked
  <2>4. Fits(c)'
    BY <1>0, <2>2, <2>3 DEF Fits
  <2>5. over' \in BOOLEAN
    BY <1>4 DEF Insert
  <2>6. QED
    BY <1>4, <2>1, <2>2, <2>4, <2>5 DEF Insert, TypeStep, bounds
<1>5. CASE SaveUpload(c) \/ PutObject(c)
  <2>1. run[c].call = "put" /\ \E a \in {"ok", "refused"} : Answer(c, a)
    BY <1>5 DEF SaveUpload, PutObject, Waiting, Checked
  <2>2. stored' = stored \cup {run[c].doc} /\ run[c].doc \in Doc
    BY <1>0, <1>5, <2>1 DEF SaveUpload, PutObject, Fits
  <2>3. QED
    BY <1>0, <1>5, <2>1, <2>2, AnswerType DEF SaveUpload, PutObject, TypeStep, bounds
<1>6. CASE Remove(c)
  <2>1. run[c].call = "delete" /\ \E a \in {"checked", "ok"} : Answer(c, a)
    BY <1>6 DEF Remove, Waiting
  <2>2. QED
    BY <1>0, <1>6, <2>1, AnswerType DEF Remove, TypeStep, bounds
<1>7. CASE ResetTask(c)
  <2>1. run[c].call = "delete" /\ Answer(c, "ok") /\ task' \in [Task -> {"pending", "done"}]
    BY <1>7 DEF ResetTask, Checked
  <2>2. QED
    BY <1>0, <1>7, <2>1, AnswerType DEF ResetTask, TypeStep, bounds
<1>8. CASE ListCases(c)
  <2> DEFINE x == [run[c] EXCEPT !.answer = "ok", !.seen = Seen(user[tabOf[c]])]
  <2>1. run' = [run EXCEPT ![c] = x] /\ x \in Chained /\ run'[c] = x
    BY <1>0, <1>8, SeenType DEF ListCases, Chained
  <2>2. x.call = "load" /\ x.answer = "ok" /\ x.seen \in View
    BY <1>0, <1>8, SeenType DEF ListCases, Chained, Waiting
  <2>3. Fits(c)'
    BY <2>1, <2>2 DEF Fits
  <2>4. QED
    BY <1>8, <2>1, <2>3 DEF ListCases, TypeStep, server, bounds
<1>9. CASE Refuse(c)
  <2>1. run[c].call # "load" /\ Answer(c, "refused")
    BY <1>9 DEF Refuse, Waiting, Target
  <2>2. QED
    BY <1>0, <1>9, <2>1, AnswerType DEF Refuse, TypeStep, server, bounds
<1>10. QED
  BY <1>1, <1>2, <1>3, <1>4, <1>5, <1>6, <1>7, <1>8, <1>9 DEF Serve

\* The page goes on, or does not.
LEMMA ContinueType ==
  ASSUME TypeInv, NEW c \in Chain, Continue(c) \/ Lose(c) \/ GiveUp(c)
  PROVE  TypeStep(c)
<1> USE DEF TypeInv, TypeOK, Clicks
<1>0. run[c] # None /\ run[c] \in Chained /\ Fits(c)
  BY DEF Continue, Proceed, Show, Stop, Lose, GiveUp, Answered
<1>1. CASE Proceed(c)
  <2>1. run[c].call \in DOMAIN Then /\ Then[run[c].call] \in {"put", "patch", "load"}
    BY <1>0, <1>1 DEF Proceed, Chained, Calls, Then
  <2> DEFINE x == [run[c] EXCEPT !.call = Then[run[c].call], !.answer = None]
  <2>2. run' = [run EXCEPT ![c] = x] /\ x \in Chained /\ run'[c] = x
    BY <1>0, <1>1, <2>1 DEF Proceed, Chained, Calls
  <2>3. /\ x.call = Then[run[c].call] /\ x.task = run[c].task /\ x.doc = run[c].doc /\ x.answer = None
    BY <1>0 DEF Chained
  <2>4. /\ x.call = "put" => run[c].call = "register" /\ run[c].answer = "ok"
        /\ x.call = "patch" => run[c].call = "put"
    BY <1>0, <1>1, <2>3 DEF Then, Chained, Calls, Proceed
  <2>5. Fits(c)'
    BY <1>0, <2>1, <2>2, <2>3, <2>4, PortalAssumption DEF Fits, Task
  <2>6. QED
    BY <1>1, <2>2, <2>5 DEF Proceed, TypeStep, server, bounds
<1>2. CASE Show(c)
  <2>1. run[c].seen \in View /\ tabOf[c] \in Tab
    BY <1>2, PortalAssumption DEF Show
  <2>2. run' = [run EXCEPT ![c] = None] /\ ~(run'[c] # None)
    BY <1>2 DEF Show, End
  <2>3. QED
    BY <1>2, <2>1, <2>2 DEF Show, TypeStep, server, bounds
<1>3. CASE Stop(c) \/ Lose(c)
  <2>1. run' = [run EXCEPT ![c] = None] /\ ~(run'[c] # None)
    BY <1>3 DEF Stop, Lose, End
  <2>2. faults' \in 0..MaxFaults /\ UNCHANGED <<server, view, whims, hasty>>
    BY <1>3, CountUp DEF Stop, Lose, bounds
  <2>3. QED
    BY <2>1, <2>2 DEF TypeStep, server
<1>4. CASE GiveUp(c)
  <2> DEFINE x == [run[c] EXCEPT !.late = TRUE]
  <2>1. run' = [run EXCEPT ![c] = x] /\ x \in Chained /\ run'[c] = x
    BY <1>0, <1>4 DEF GiveUp, Chained
  <2>2. /\ x.call = run[c].call /\ x.task = run[c].task /\ x.doc = run[c].doc
        /\ x.answer = run[c].answer /\ x.seen = run[c].seen
    BY <1>0 DEF Chained
  <2>3. Fits(c)'
    BY <1>0, <2>1, <2>2 DEF Fits
  <2>4. faults' \in 0..MaxFaults /\ UNCHANGED <<server, view, whims, hasty>>
    BY <1>4, CountUp DEF GiveUp
  <2>5. QED
    BY <2>1, <2>3, <2>4 DEF TypeStep, server
<1>5. QED
  BY <1>1, <1>2, <1>3, <1>4 DEF Continue

LEMMA OpenType ==
  ASSUME TypeInv, NEW t \in Tab, Open(t)
  PROVE  \E c \in Chain : TypeStep(c)
<1>1. PICK c \in Chain : Start(c, "load", None, None)
  BY DEF Open
<1>2. Clicks'
  BY DEF Open, TypeInv, TypeOK, Clicks
<1>3. QED
  BY <1>1, <1>2, StartType DEF Calls

LEMMA StepType == TypeInv /\ [Next]_vars => TypeInv'
<1> SUFFICES ASSUME TypeInv, [Next]_vars PROVE TypeInv'
  OBVIOUS
<1>1. CASE UNCHANGED vars
  BY <1>1 DEF vars, server, bounds, TypeInv, TypeOK, Fits, Answered
<1>2. ASSUME NEW t \in Tab, Open(t) PROVE TypeInv'
  BY <1>2, OpenType, OthersFit
<1>3. ASSUME NEW c \in Chain, Press(c) \/ Serve(c) \/ Continue(c) \/ Lose(c) \/ GiveUp(c)
      PROVE  TypeInv'
  BY <1>3, PressType, ServeType, ContinueType, OthersFit
<1>4. QED
  BY <1>1, <1>2, <1>3 DEF Next

LEMMA TypeInvariant == Spec => []TypeInv
BY InitType, StepType, PTL DEF Spec

\* Every variable keeps its type, and a call that loads is answered with a view.
THEOREM TypeCorrect == Spec => []TypeOK
<1>1. TypeInv => TypeOK
  BY DEF TypeInv
<1>2. QED
  BY <1>1, TypeInvariant, PTL

-----------------------------------------------------------------------------
(* Rows and bytes.                                                         *)

\* A chain that sent a file, or goes on to complete its task, has it stored unless
\* the document was deleted; one whose file was refused has no row left, or the rows
\* are over the quota.
Sent(c) ==
  /\ run[c].call = "put" /\ run[c].answer = "ok" => run[c].doc \in stored \cup (Doc \ docs)
  /\ run[c].call = "patch" /\ run[c].task = "ID_DOC" => run[c].doc \in stored \cup (Doc \ docs)
  /\ run[c].call = "put" /\ run[c].answer = "refused" => over \/ run[c].doc \notin docs
  /\ run[c].late => faults # 0

Rows == IsFiniteSet(docs) /\ (~over => Cardinality(docs) <= Quota)

RowInv == Rows /\ \A c \in Chain : run[c] # None => Sent(c)

\* A registered document fits when its bytes come.
LEMMA RowFits ==
  ASSUME TypeInv, Rows, ~over, NEW d \in docs
  PROVE  UploadAllowed(d)
<1>1. Cardinality(docs \ {d}) = Cardinality(docs) - 1 /\ Cardinality(docs) \in Nat
  BY FS_RemoveElement, FS_CardinalityType DEF Rows
<1>2. Quota \in Nat
  BY PortalAssumption
<1>3. QED
  BY <1>1, <1>2 DEF UploadAllowed, Rows

LEMMA InitRow == Init => RowInv
<1> SUFFICES ASSUME Init PROVE RowInv
  OBVIOUS
<1>1. IsFiniteSet(docs) /\ Cardinality(docs) = 0
  BY FS_EmptySet DEF Init
<1>2. Quota \in Nat
  BY PortalAssumption
<1>3. Rows
  BY <1>1, <1>2 DEF Rows
<1>4. QED
  BY <1>3 DEF Init, RowInv

LEMMA StepRows == TypeInv /\ Rows /\ [Next]_vars => Rows'
<1> SUFFICES ASSUME TypeInv, Rows, [Next]_vars PROVE Rows'
  OBVIOUS
<1>0. Cardinality(docs) \in Nat /\ Quota \in Nat
  BY FS_CardinalityType, PortalAssumption DEF Rows
<1>1. CASE UNCHANGED <<docs, over>>
  BY <1>1 DEF Rows
<1>2. ASSUME NEW c \in Chain, Insert(c) PROVE Rows'
  <2>1. PICK d \in Doc : Fresh(d) /\ docs' = docs \cup {d}
    BY <1>2 DEF Insert
  <2>2. /\ IsFiniteSet(docs \cup {d})
        /\ Cardinality(docs \cup {d}) = Cardinality(docs) + 1
    BY <2>1, FS_AddElement DEF Rows, Fresh
  <2>3. ~over' => Cardinality(docs) < Quota
    BY <1>2 DEF Insert, WithinQuota
  <2>4. QED
    BY <1>0, <2>1, <2>2, <2>3 DEF Rows
<1>3. ASSUME NEW c \in Chain, Remove(c) PROVE Rows'
  <2>1. docs' = docs \ {run[c].doc} /\ run[c].doc \in docs /\ over' = over
    BY <1>3 DEF Remove
  <2>2. /\ IsFiniteSet(docs \ {run[c].doc})
        /\ Cardinality(docs \ {run[c].doc}) = Cardinality(docs) - 1
    BY <2>1, FS_RemoveElement DEF Rows
  <2>3. QED
    BY <1>0, <2>1, <2>2 DEF Rows
<1>4. QED
  BY <1>1, <1>2, <1>3
     DEF Next, vars, server, Open, Press, AcceptInvite, MarkDone, UploadId, DeleteId, SubmitCase,
         ApproveCase, ReturnCase, DeleteDoc, Start, Serve, MoveCase, PatchTask, Register,
         CheckUpload, SaveUpload, PutObject, ResetTask, ListCases, Refuse, Continue, Proceed, Show,
         Stop, Lose, GiveUp

\* What a step does to documents keeps what another chain has sent.
LEMMA SentKept ==
  ASSUME TypeInv, RowInv, NEW c \in Chain, NEW b \in Chain \ {c}, run[b] # None, run'[b] = run[b],
         faults' # 0 \/ faults' = faults,
         \/ docs' = docs /\ stored \subseteq stored' /\ over' = over
         \/ Insert(c)
         \/ Remove(c)
  PROVE  Sent(b)'
<1>1. Sent(b) /\ Fits(b)
  BY DEF RowInv, TypeInv, TypeOK
<1>2. CASE docs' = docs /\ stored \subseteq stored' /\ over' = over
  BY <1>1, <1>2 DEF Sent
<1>3. CASE Insert(c)
  <2>1. PICK d \in Doc : /\ d # run[b].doc /\ docs' = docs \cup {d} /\ stored' = stored
                         /\ over => over'
    BY <1>3 DEF Insert, Fresh
  <2>2. QED
    BY <1>1, <2>1 DEF Sent
<1>4. CASE Remove(c)
  <2>1. run[c].doc \in Doc
    BY <1>4 DEF Remove, TypeInv, TypeOK
  <2>2. QED
    BY <1>1, <1>4, <2>1 DEF Sent, Remove
<1>5. QED
  BY <1>2, <1>3, <1>4

\* A click sends a call that has no answer yet; no click completes the task of the file.
Clicked(c) == \E call, t, d : Start(c, call, t, d) /\ (call = "patch" => t # "ID_DOC")

LEMMA PressClicked ==
  /\ \A c \in Chain : Press(c) => Clicked(c)
  /\ \A t \in Tab : Open(t) => \E c \in Chain : Clicked(c)
<1>1. ASSUME NEW c \in Chain, Press(c) PROVE Clicked(c)
  <2>1. CASE AcceptInvite(c)
    BY <2>1 DEF AcceptInvite, Clicked
  <2>2. CASE UploadId(c)
    BY <2>2 DEF UploadId, Clicked
  <2>3. CASE SubmitCase(c)
    BY <2>3 DEF SubmitCase, Clicked
  <2>4. CASE ApproveCase(c)
    BY <2>4 DEF ApproveCase, Clicked
  <2>5. CASE ReturnCase(c)
    BY <2>5 DEF ReturnCase, Clicked
  <2>6. ASSUME NEW t \in Task, MarkDone(c, t) PROVE Clicked(c)
    BY <2>6 DEF MarkDone, MarkDoneShown, Clicked
  <2>7. ASSUME NEW d \in Doc, DeleteId(c, d) \/ DeleteDoc(c, d) PROVE Clicked(c)
    <3>1. Start(c, "delete", "ID_DOC", d)
      BY <2>7 DEF DeleteId, DeleteDoc
    <3>2. "delete" # "patch"
      OBVIOUS
    <3>3. QED
      BY <3>1, <3>2 DEF Clicked
  <2>8. QED
    BY <1>1, <2>1, <2>2, <2>3, <2>4, <2>5, <2>6, <2>7 DEF Press
<1>2. ASSUME NEW t \in Tab, Open(t) PROVE \E c \in Chain : Clicked(c)
  <2>1. PICK c \in Chain : Start(c, "load", None, None)
    BY <1>2 DEF Open
  <2>2. Clicked(c)
    BY <2>1 DEF Clicked
  <2>3. QED
    BY <2>2
<1>3. QED
  BY <1>1, <1>2

LEMMA StepRow == TypeInv /\ RowInv /\ [Next]_vars => RowInv'
<1> SUFFICES ASSUME TypeInv, RowInv, [Next]_vars PROVE RowInv'
  OBVIOUS
<1> DEFINE AllSent == \A b \in Chain : run[b] # None => Sent(b)
<1>0. /\ Rows' /\ TypeInv' /\ AllSent /\ None \notin {"checked", "ok", "refused"}
      /\ run \in [Chain -> Chained \cup {None}] /\ faults \in Nat
  BY StepRows, StepType, PortalAssumption DEF RowInv, TypeInv, TypeOK
<1>1. CASE UNCHANGED vars
  BY <1>0, <1>1 DEF vars, server, bounds, RowInv, Sent
<1>2. ASSUME NEW c \in Chain, Clicked(c) PROVE AllSent'
  <2>1. PICK call, t, d : Start(c, call, t, d) /\ (call = "patch" => t # "ID_DOC")
    BY <1>2 DEF Clicked
  <2> DEFINE x == [call |-> call, task |-> t, doc |-> d, answer |-> None, seen |-> None,
                   late |-> FALSE]
  <2>2. run' = [run EXCEPT ![c] = x] /\ UNCHANGED <<docs, stored, over, faults>>
    BY <2>1 DEF Start, server
  <2>3. run'[c] = x
    BY <1>0, <2>2
  <2>4. Sent(c)'
    BY <1>0, <2>1, <2>3 DEF Sent
  <2>5. QED
    BY <1>0, <2>2, <2>4, SentKept
<1>3. ASSUME NEW c \in Chain,
             \/ MoveCase(c) \/ PatchTask(c) \/ ListCases(c) \/ Refuse(c) \/ Register(c)
             \/ CheckUpload(c) \/ SaveUpload(c) \/ PutObject(c) \/ ResetTask(c)
      PROVE  AllSent'
  <2>1. /\ run[c] # None /\ run[c].answer \in {None, "checked"}
        /\ docs' = docs /\ stored \subseteq stored' /\ UNCHANGED <<over, faults>>
    BY <1>3 DEF MoveCase, PatchTask, ListCases, Refuse, Register, CheckUpload, SaveUpload, PutObject,
                ResetTask, Waiting, Checked, server, bounds
  <2>2. /\ \A b \in Chain \ {c} : run'[b] = run[b]
        /\ run'[c].call = run[c].call /\ run'[c].doc = run[c].doc /\ run'[c].task = run[c].task
        /\ run'[c].late = run[c].late
    BY <1>0, <1>3, <2>1 DEF MoveCase, PatchTask, ListCases, Refuse, Register, CheckUpload, SaveUpload,
                            PutObject, ResetTask, Answer, Chained
  <2>3. ASSUME run[c].call = "put"
        PROVE  /\ run'[c].answer = "ok" => run[c].doc \in stored'
               /\ run'[c].answer = "refused" => over \/ run[c].doc \notin docs
    <3>1. CheckUpload(c) \/ SaveUpload(c) \/ PutObject(c) \/ Refuse(c)
      BY <1>3, <2>3 DEF MoveCase, PatchTask, ListCases, Register, ResetTask, Waiting, Checked, Target
    <3>2. CASE CheckUpload(c)
      BY <1>0, <2>1, <3>2 DEF CheckUpload, Answer, Chained
    <3>3. CASE SaveUpload(c)
      <4>1. run[c].doc \in stored' /\ (run[c].doc \in docs => Answer(c, "ok"))
        BY <3>3 DEF SaveUpload
      <4>2. run[c].doc \in docs => run'[c].answer = "ok"
        BY <1>0, <2>1, <4>1 DEF Answer, Chained
      <4>3. QED
        BY <4>1, <4>2
    <3>4. CASE PutObject(c)
      BY <1>0, <2>1, <3>4 DEF PutObject, Answer, Chained
    <3>5. CASE Refuse(c)
      <4>1. ~UploadAllowed(run[c].doc) /\ run'[c].answer = "refused"
        BY <1>0, <2>1, <2>3, <3>5 DEF Refuse, Answer, Chained, Waiting, Target
      <4>2. QED
        BY <1>0, <4>1, RowFits DEF RowInv
    <3>6. QED
      BY <3>1, <3>2, <3>3, <3>4, <3>5
  <2>4. Sent(c)'
    BY <1>0, <2>1, <2>2, <2>3 DEF Sent
  <2>5. QED
    BY <1>0, <2>1, <2>2, <2>4, SentKept
<1>4. ASSUME NEW c \in Chain, Insert(c) \/ Remove(c) PROVE AllSent'
  <2>1. /\ run[c] # None /\ run[c].call \in {"register", "delete"} /\ faults' = faults
        /\ \A b \in Chain \ {c} : run'[b] = run[b]
        /\ run'[c].call = run[c].call /\ run'[c].late = run[c].late
    BY <1>0, <1>4 DEF Insert, Remove, Waiting, Checked, Answer, Chained, bounds
  <2>2. Sent(c)'
    BY <1>0, <2>1 DEF Sent
  <2>3. QED
    BY <1>0, <1>4, <2>1, <2>2, SentKept
<1>5. ASSUME NEW c \in Chain, Proceed(c) PROVE AllSent'
  <2>1. /\ run[c] # None /\ run[c].answer = "ok" /\ run[c].call # "load" /\ ~run[c].late
        /\ run' = [run EXCEPT ![c] = [run[c] EXCEPT !.call = Then[run[c].call], !.answer = None]]
        /\ UNCHANGED <<docs, stored, over, faults>> /\ Fits(c)
    BY <1>0, <1>5 DEF Proceed, Answered, server, bounds, TypeInv, TypeOK
  <2>2. /\ run'[c].call = Then[run[c].call] /\ run'[c].answer = None /\ run'[c].late = run[c].late
        /\ run'[c].doc = run[c].doc /\ run'[c].task = run[c].task
    BY <1>0, <2>1 DEF Chained
  <2>3. run'[c].call = "patch" => run[c].call = "put"
    BY <1>0, <2>1, <2>2 DEF Then, Chained, Calls
  <2>4. Sent(c)'
    BY <1>0, <2>1, <2>2, <2>3 DEF Sent
  <2>5. QED
    BY <1>0, <2>1, <2>4, SentKept
<1>6. ASSUME NEW c \in Chain, Show(c) \/ Stop(c) \/ Lose(c) PROVE AllSent'
  <2>1. /\ run' = [run EXCEPT ![c] = None] /\ UNCHANGED <<docs, stored, over>>
        /\ faults' \in {faults, faults + 1}
    BY <1>6 DEF Show, Stop, Lose, End, server, bounds
  <2>2. faults' # 0 \/ faults' = faults
    BY <1>0, <2>1
  <2>3. QED
    BY <1>0, <2>1, <2>2, SentKept
<1>7. ASSUME NEW c \in Chain, GiveUp(c) PROVE AllSent'
  <2>1. /\ run' = [run EXCEPT ![c] = [run[c] EXCEPT !.late = TRUE]]
        /\ UNCHANGED <<docs, stored, over>>
        /\ faults' = faults + 1 /\ run[c] # None
    BY <1>7 DEF GiveUp, server
  <2>2. faults' # 0
    BY <1>0, <2>1
  <2>3. /\ run'[c].call = run[c].call /\ run'[c].doc = run[c].doc /\ run'[c].task = run[c].task
        /\ run'[c].answer = run[c].answer
    BY <1>0, <2>1 DEF Chained
  <2>4. Sent(c)'
    BY <1>0, <2>1, <2>2, <2>3 DEF Sent
  <2>5. QED
    BY <1>0, <2>1, <2>2, <2>4, SentKept
<1>8. QED
  <2>1. ASSUME Next PROVE AllSent'
    BY <1>2, <1>3, <1>4, <1>5, <1>6, <1>7, <2>1, PressClicked DEF Next, Serve, Continue
  <2>2. QED
    BY <1>0, <1>1, <2>1 DEF RowInv

LEMMA RowInvariant == Spec => []RowInv
BY InitRow, StepRow, TypeInvariant, PTL DEF Spec

\* The task of the identity document becomes done only by an upload whose file has
\* arrived or was deleted since: no call of the API compares the two, so this is what
\* the order of the calls of a page amounts to (upload in web-onboarding/src/App.tsx).
THEOREM TaskAfterFile == Spec => DoneByUpload
<1> DEFINE A == task["ID_DOC"] = "pending" /\ task'["ID_DOC"] = "done" =>
                  \E c \in Chain : /\ Waiting(c, "patch") /\ run'[c] # run[c]
                                   /\ run[c].doc \in stored \cup (Doc \ docs)
<1>1. TypeInv /\ RowInv /\ [Next]_vars => [A]_vars
  <2> SUFFICES ASSUME TypeInv, RowInv, Next,
                      task["ID_DOC"] = "pending", task'["ID_DOC"] = "done"
               PROVE  \E c \in Chain : /\ Waiting(c, "patch") /\ run'[c] # run[c]
                                       /\ run[c].doc \in stored \cup (Doc \ docs)
    OBVIOUS
  <2>1. task \in [Task -> {"pending", "done"}] /\ run \in [Chain -> Chained \cup {None}]
    BY DEF TypeInv, TypeOK
  <2>2. ASSUME NEW c \in Chain, Clicked(c) PROVE UNCHANGED task
    BY <2>2 DEF Clicked, Start, server
  <2>3. ASSUME NEW c \in Chain, Continue(c) \/ Lose(c) \/ GiveUp(c) PROVE UNCHANGED task
    BY <2>3 DEF Continue, Proceed, Show, Stop, Lose, GiveUp, server
  <2>4. ASSUME NEW c \in Chain,
               \/ MoveCase(c) \/ ListCases(c) \/ Refuse(c) \/ Register(c) \/ Insert(c)
               \/ CheckUpload(c) \/ SaveUpload(c) \/ PutObject(c) \/ Remove(c)
        PROVE  UNCHANGED task
    BY <2>4 DEF MoveCase, ListCases, Refuse, Register, Insert, CheckUpload, SaveUpload, PutObject,
                Remove, server
  <2>5. ASSUME NEW c \in Chain, ResetTask(c) PROVE task'["ID_DOC"] = "pending"
    BY <2>1, <2>5 DEF ResetTask, Task
  <2>6. PICK c \in Chain : PatchTask(c)
    <3>1. "pending" # "done"
      OBVIOUS
    <3>2. QED
      BY <2>2, <2>3, <2>4, <2>5, <3>1, PressClicked DEF Next, Serve
  <2>7. run[c] # None /\ run[c].call = "patch" /\ run[c].answer = None /\ run[c].task = "ID_DOC"
    BY <2>1, <2>6 DEF PatchTask, Waiting
  <2>8. run'[c].answer = "ok" /\ "ok" # None
    BY <2>1, <2>6, <2>7, PortalAssumption DEF PatchTask, Answer, Chained
  <2>9. QED
    BY <2>6, <2>7, <2>8 DEF RowInv, Sent, PatchTask
<1>2. Spec => [][A]_vars
  <2> HIDE DEF A
  <2>1. QED
    BY <1>1, TypeInvariant, RowInvariant, PTL DEF Spec
<1>3. QED
  BY <1>2 DEF DoneByUpload

\* An upload under way has the row d.
Carries(c, d) == run[c] # None /\ run[c].doc = d /\ run[c].call \in {"register", "put"}

\* Within the quota, an upload that has sent its file, or that was refused, leaves no row
\* without bytes.
LEMMA CarriedOn ==
  ASSUME TypeInv, RowInv, TypeInv', Next, faults' = 0, ~over, NEW d \in docs \ stored, d \notin stored',
         NEW c \in Chain, Carries(c, d)
  PROVE  Carries(c, d)'
<1> USE DEF Carries
<1>1. /\ run[c] # None /\ run[c] \in Chained /\ d \in Doc /\ Fits(c) /\ Sent(c)
      /\ run \in [Chain -> Chained \cup {None}] /\ faults \in Nat
      /\ None \notin Doc \cup Chained \cup {"checked", "ok", "refused"}
  BY PortalAssumption DEF TypeInv, TypeOK, RowInv
<1>2. ASSUME NEW b \in Chain, Clicked(b) PROVE b # c /\ run'[c] = run[c]
  BY <1>1, <1>2 DEF Clicked, Start
<1>3. ASSUME NEW b \in Chain, Serve(b) PROVE Carries(c, d)'
  <2>1. CASE b # c
    BY <1>1, <1>3, <2>1 DEF Serve, MoveCase, PatchTask, Register, Insert, CheckUpload, SaveUpload,
                            PutObject, Remove, ResetTask, ListCases, Refuse, Answer
  <2>2. CASE b = c
    <3>1. run[c].call = "put" /\ run[c].answer \in {None, "checked"}
      BY <1>1, <1>3, <2>2 DEF Serve, MoveCase, PatchTask, Register, Insert, CheckUpload, SaveUpload,
                              PutObject, Remove, ResetTask, ListCases, Refuse, Waiting, Checked,
                              Fits, Target
    <3>2. CheckUpload(c) \/ Refuse(c)
      <4>1. ~SaveUpload(c) /\ ~PutObject(c)
        BY DEF SaveUpload, PutObject
      <4>2. QED
        BY <1>3, <2>2, <3>1, <4>1 DEF Serve, MoveCase, PatchTask, Register, Insert, Remove, ResetTask,
                                      ListCases, Waiting, Checked, Target
    <3>3. PICK a \in {"checked", "refused"} : run' = [run EXCEPT ![c].answer = a]
      BY <3>2 DEF CheckUpload, Refuse, Answer
    <3>4. run'[c] = [run[c] EXCEPT !.answer = a] /\ run'[c] \in Chained
      BY <1>1, <3>3 DEF Chained
    <3>5. QED
      BY <1>1, <3>1, <3>4 DEF Chained
  <2>3. QED
    BY <2>1, <2>2
<1>4. ASSUME NEW b \in Chain, Continue(b) PROVE Carries(c, d)'
  <2>1. CASE b # c
    BY <1>1, <1>4, <2>1 DEF Continue, Proceed, Show, Stop, End
  <2>2. CASE b = c
    <3>1. faults = 0 /\ ~run[c].late
      BY <1>1, <1>4 DEF Continue, Proceed, Show, Stop, bounds, Sent
    <3>2. run[c].answer # "refused"
      BY <1>1 DEF Fits, Sent
    <3>3. Proceed(c)
      BY <1>1, <1>4, <2>2, <3>1, <3>2 DEF Continue, Show, Stop
    <3>4. run[c].call = "register"
      BY <1>1, <3>3 DEF Sent, Proceed
    <3>5. Then["register"] = "put"
      BY DEF Then
    <3>6. run'[c] = [run[c] EXCEPT !.call = "put", !.answer = None]
      BY <1>1, <3>3, <3>4, <3>5 DEF Proceed
    <3>7. run'[c] \in Chained /\ run'[c].call = "put" /\ run'[c].doc = run[c].doc
      BY <1>1, <3>6 DEF Chained, Calls
    <3>8. QED
      BY <1>1, <3>7
  <2>3. QED
    BY <2>1, <2>2
<1>5. ASSUME NEW b \in Chain PROVE ~Lose(b) /\ ~GiveUp(b)
  BY <1>1 DEF Lose, GiveUp
<1>6. QED
  BY <1>1, <1>2, <1>3, <1>4, <1>5, PressClicked DEF Next

\* The rows themselves: a new one is carried by the chain that registered it, and
\* bytes go only with their row.
LEMMA RowsChange ==
  ASSUME TypeInv, Next
  PROVE  /\ \A d \in docs' \ docs : \E c \in Chain : Carries(c, d)'
         /\ stored \cap docs' \subseteq stored' /\ (over => over')
         /\ faults' \in {faults, faults + 1}
<1>0. run \in [Chain -> Chained \cup {None}]
  BY DEF TypeInv, TypeOK
<1>1. ASSUME NEW c \in Chain, Clicked(c) PROVE UNCHANGED <<docs, stored, over, faults>>
  BY <1>1 DEF Clicked, Start, server
<1>2. ASSUME NEW c \in Chain, Continue(c) \/ Lose(c) \/ GiveUp(c)
      PROVE  UNCHANGED <<docs, stored, over>> /\ faults' \in {faults, faults + 1}
  BY <1>2 DEF Continue, Proceed, Show, Stop, Lose, GiveUp, server, bounds
<1>3. ASSUME NEW c \in Chain,
             \/ MoveCase(c) \/ PatchTask(c) \/ ListCases(c) \/ Refuse(c) \/ Register(c)
             \/ CheckUpload(c) \/ SaveUpload(c) \/ PutObject(c) \/ Remove(c) \/ ResetTask(c)
      PROVE  /\ docs' \subseteq docs /\ stored \cap docs' \subseteq stored'
             /\ UNCHANGED <<over, faults>>
  BY <1>3 DEF MoveCase, PatchTask, ListCases, Refuse, Register, CheckUpload, SaveUpload, PutObject,
              Remove, ResetTask, server, bounds
<1>4. ASSUME NEW c \in Chain, Insert(c)
      PROVE  /\ \A d \in docs' \ docs : Carries(c, d)'
             /\ UNCHANGED <<stored, faults>> /\ (over => over')
  <2>1. PICK d \in Doc : /\ docs' = docs \cup {d}
                         /\ run' = [run EXCEPT ![c].doc = d, ![c].answer = "ok"]
    BY <1>4 DEF Insert
  <2>2. run[c] \in Chained /\ run[c].call = "register" /\ d # None
    BY <1>0, <1>4, PortalAssumption DEF Insert, Checked
  <2>3. run'[c] = [run[c] EXCEPT !.doc = d, !.answer = "ok"]
    BY <1>0, <2>1, <2>2
  <2>4. run'[c].doc = d /\ run'[c].call = "register"
    BY <2>2, <2>3 DEF Chained
  <2>5. run'[c] # None
    <3>1. [run[c] EXCEPT !.doc = d, !.answer = "ok"] \in Chained
      BY <2>1, <2>2 DEF Chained
    <3>2. QED
      BY <2>3, <3>1, PortalAssumption
  <2>6. QED
    BY <1>4, <2>1, <2>4, <2>5 DEF Insert, Carries, bounds
<1>5. QED
  BY <1>1, <1>2, <1>3, <1>4, PressClicked DEF Next, Serve

\* A row without bytes is one whose upload is under way, unless a call was lost or given
\* up, or overlapping registrations took the rows over the quota: otherwise what is
\* registered fits when its bytes arrive (register, saveUpload).
THEOREM NoEmptyRow == Spec => []EmptyRowExplained
<1> DEFINE E == faults = 0 /\ ~over => \A d \in docs \ stored : \E c \in Chain : Carries(c, d)
<1>1. Init => E
  BY DEF Init
<1>2. TypeInv /\ RowInv /\ TypeInv' /\ E /\ [Next]_vars => E'
  <2> SUFFICES ASSUME TypeInv, RowInv, TypeInv', E, Next, faults' = 0, ~over',
                      NEW d \in docs' \ stored'
               PROVE  \E c \in Chain : Carries(c, d)'
    BY DEF vars, server, bounds, Carries
  <2>1. CASE d \notin docs
    BY <2>1, RowsChange
  <2>2. CASE d \in docs
    <3>1. d \in docs \ stored
      BY <2>2, RowsChange
    <3>2. faults \in Nat
      BY DEF TypeInv, TypeOK
    <3>3. faults = 0 /\ ~over
      BY <3>2, RowsChange
    <3>4. PICK c \in Chain : Carries(c, d)
      BY <3>1, <3>3
    <3>5. QED
      BY <3>1, <3>3, <3>4, CarriedOn
  <2>3. QED
    BY <2>1, <2>2
<1>3. E => EmptyRowExplained
  BY DEF Carries, EmptyRowExplained
<1>4. QED
  <2> HIDE DEF E
  <2>1. QED
    BY <1>1, <1>2, <1>3, TypeInvariant, RowInvariant, PTL DEF Spec

-----------------------------------------------------------------------------
(* A calm page and the case.                                               *)

Calm == faults = 0 /\ hasty = 0

Alone(t) == \A s \in Tab : user[s] = "employee" <=> s = t

Mine(t) == {c \in Chain : tabOf[c] = t}

\* A view misses no completed task, and no document but perhaps d.
CoversBut(v, d) == docs \ {d} \subseteq v.docs /\ \A k \in Task : task[k] = "done" => v.task[k] = "done"

Covers(v) == CoversBut(v, None)

\* A chain of the employee's page either has added nothing yet but its own document, or
\* leads to a load that no refusal keeps away.
Halfway(t, c) ==
  \/ run[c].call = "load" /\ (run[c].answer # None => Covers(run[c].seen))
  \/ run[c].call = "patch" /\ run[c].answer # "refused"
  \/ /\ run[c].call \in {"register", "put"} /\ CoversBut(view[t], run[c].doc)
     /\ run[c].call = "register" /\ run[c].answer = "checked" => WithinQuota
  \/ run[c].call \in {"accept", "delete", "submit"} /\ Covers(view[t])

\* The employee's page is the only one that adds to the case, one chain at a time: so
\* its registrations never meet.
PageInv(t) ==
  Calm => /\ ~over
          /\ \A c \in Chain \ Mine(t) : run[c] # None => run[c].call \notin {"register", "put", "patch"}
          /\ \A b, c \in Mine(t) : run[b] # None /\ run[c] # None => b = c
          /\ \A c \in Mine(t) : run[c] # None => Halfway(t, c)
          /\ (\A c \in Mine(t) : run[c] = None) /\ view[t] # None => Covers(view[t])

\* A click that is not hasty is made on a quiet page.
LEMMA CalmClick ==
  ASSUME TypeInv, Calm, Calm', NEW c \in Chain, Press(c)
  PROVE  /\ Quiet(tabOf[c])
         /\ \E call \in Calls, u \in Task \cup {None}, d \in Doc \cup {None} :
              /\ Start(c, call, u, d)
              /\ \/ /\ user[tabOf[c]] = "employee" /\ view[tabOf[c]] # None
                    /\ call \in {"register", "accept", "delete", "submit", "patch"}
                    /\ call = "register" => d = None
                 \/ user[tabOf[c]] = "hr_admin" /\ call \in {"approve", "return", "delete"}
<1>1. Quiet(tabOf[c])
  <2>1. PICK h : Spend(c, h)
    BY DEF Press, AcceptInvite, MarkDone, UploadId, DeleteId, SubmitCase, ApproveCase, ReturnCase,
           DeleteDoc
  <2>2. hasty = 0 /\ hasty' = 0
    BY DEF Calm
  <2>3. QED
    BY <2>1, <2>2 DEF Spend
<1>2. CASE AcceptInvite(c)
  BY <1>1, <1>2 DEF AcceptInvite, OnPage, Calls
<1>3. CASE UploadId(c)
  BY <1>1, <1>3 DEF UploadId, OnPage, Calls, Task
<1>4. CASE SubmitCase(c)
  BY <1>1, <1>4 DEF SubmitCase, OnPage, Calls
<1>5. CASE ApproveCase(c)
  BY <1>1, <1>5 DEF ApproveCase, OnPage, Calls
<1>6. CASE ReturnCase(c)
  BY <1>1, <1>6 DEF ReturnCase, OnPage, Calls
<1>7. ASSUME NEW u \in Task, MarkDone(c, u)
      PROVE  /\ Start(c, "patch", u, None)
             /\ user[tabOf[c]] = "employee" /\ view[tabOf[c]] # None
  BY <1>7 DEF MarkDone, OnPage
<1>8. ASSUME NEW d \in Doc, DeleteId(c, d)
      PROVE  /\ Start(c, "delete", "ID_DOC", d)
             /\ user[tabOf[c]] = "employee" /\ view[tabOf[c]] # None
  BY <1>8 DEF DeleteId, OnPage
<1>9. ASSUME NEW d \in Doc, DeleteDoc(c, d)
      PROVE  Start(c, "delete", "ID_DOC", d) /\ user[tabOf[c]] = "hr_admin"
  BY <1>9 DEF DeleteDoc, OnPage
<1>10. QED
  <2>1. "patch" \in Calls /\ "delete" \in Calls /\ "ID_DOC" \in Task
    BY DEF Calls, Task
  <2>2. QED
    BY <2>1, <1>1, <1>2, <1>3, <1>4, <1>5, <1>6, <1>7, <1>8, <1>9 DEF Press

\* A step that adds neither a document nor a completed task.
Shrinks(t) ==
  /\ docs' \subseteq docs /\ over' = over /\ view'[t] = view[t]
  /\ \A k \in Task : task'[k] = "done" => task[k] = "done"

LEMMA StillCovers ==
  ASSUME NEW t, Shrinks(t)
  PROVE  /\ \A v, d : CoversBut(v, d) => CoversBut(v, d)'
         /\ Covers(view[t]) => Covers(view[t])'
<1>1. \A v, d : CoversBut(v, d) => CoversBut(v, d)'
  BY DEF Shrinks, CoversBut
<1>2. Covers(view[t])' <=> docs' \subseteq view[t].docs \cup {None}
                           /\ \A k \in Task : task'[k] = "done" => view[t].task[k] = "done"
  BY DEF Covers, CoversBut, Shrinks
<1>3. QED
  BY <1>1, <1>2 DEF Covers, CoversBut, Shrinks

\* Room for one more stays.
LEMMA StillRoom ==
  ASSUME Rows, docs' \subseteq docs, WithinQuota
  PROVE  WithinQuota'
<1>1. Cardinality(docs') <= Cardinality(docs) /\ Cardinality(docs') \in Nat
  BY FS_Subset, FS_CardinalityType DEF Rows
<1>2. Cardinality(docs) \in Nat /\ Quota \in Nat
  BY FS_CardinalityType, PortalAssumption DEF Rows
<1>3. QED
  BY <1>1, <1>2 DEF WithinQuota

LEMMA StillHalfway ==
  ASSUME Rows, NEW t, Shrinks(t), NEW c, Halfway(t, c),
         run'[c].call = run[c].call, run'[c].doc = run[c].doc,
         run[c].call = "load" => run'[c] = run[c],
         run[c].call = "patch" => run'[c].answer # "refused",
         run[c].call = "register" /\ run'[c].answer = "checked" => WithinQuota'
  PROVE  Halfway(t, c)'
<1>1. view'[t] = view[t]
  BY DEF Shrinks
<1>2. CASE run[c].call = "load"
  BY <1>2, StillCovers DEF Halfway, Covers
<1>3. CASE run[c].call = "patch"
  BY <1>3 DEF Halfway
<1>4. CASE run[c].call \in {"register", "put"}
  <2>1. CoversBut(view[t], run[c].doc)
    BY <1>4 DEF Halfway
  <2>2. docs' \ {run'[c].doc} \subseteq view'[t].docs
        /\ \A k \in Task : task'[k] = "done" => view'[t].task[k] = "done"
    BY <1>1, <2>1 DEF CoversBut, Shrinks
  <2>3. CoversBut(view[t], run[c].doc)'
    BY <2>2 DEF CoversBut
  <2>4. QED
    BY <1>4, <2>3 DEF Halfway
<1>5. CASE run[c].call \in {"accept", "delete", "submit"}
  BY <1>5, StillCovers DEF Halfway
<1>6. QED
  BY <1>2, <1>3, <1>4, <1>5 DEF Halfway

\* What another page does: HR approves, returns, deletes, and loads its page.
LEMMA OtherStep ==
  ASSUME TypeInv, Rows, Calm, Calm', NEW t \in Tab, Alone(t), PageInv(t), NEW c \in Chain \ Mine(t),
         \/ Press(c) \/ Serve(c) \/ Continue(c)
         \/ \E s \in Tab : Open(s) /\ Start(c, "load", None, None)
  PROVE  PageInv(t)'
<1> DEFINE Foreign(call) == call \notin {"register", "put", "patch"}
<1>0. /\ run \in [Chain -> Chained \cup {None}] /\ view \in [Tab -> View \cup {None}]
      /\ task \in [Task -> {"pending", "done"}]
      /\ tabOf[c] \in Tab \ {t} /\ user[tabOf[c]] # "employee"
      /\ run[c] # None => run[c] \in Chained /\ Foreign(run[c].call)
      /\ None \notin {"checked", "ok", "refused"}
  BY PortalAssumption DEF TypeInv, TypeOK, PageInv, Mine, Alone
<1>1. /\ Shrinks(t)
      /\ \A b \in Chain \ {c} : run'[b] = run[b]
      /\ run'[c] # None => Foreign(run'[c].call)
  <2>0. ASSUME UNCHANGED <<server, view>> PROVE Shrinks(t)
    BY <2>0 DEF Shrinks, server
  <2>1. ASSUME NEW call, Foreign(call), NEW u, NEW d, Start(c, call, u, d) PROVE <1>1
    <3>1. run'[c].call = call
      BY <1>0, <2>1 DEF Start
    <3>2. QED
      BY <1>0, <2>0, <2>1, <3>1 DEF Start
  <2>2. CASE Press(c)
    <3>1. \E call, u, d : Start(c, call, u, d) /\ call \in {"approve", "return", "delete"}
      BY <1>0, <2>2, CalmClick
    <3>2. QED
      BY <2>1, <3>1
  <2>3. CASE Serve(c)
    <3>1. /\ run[c] # None
          /\ MoveCase(c) \/ Remove(c) \/ ResetTask(c) \/ ListCases(c) \/ Refuse(c)
      BY <1>0, <2>3 DEF Serve, PatchTask, Register, Insert, CheckUpload, SaveUpload, PutObject,
                        Waiting, Checked, MoveCase, Remove, ResetTask, ListCases, Refuse
    <3>2. Shrinks(t)
      <4>1. CASE MoveCase(c) \/ Remove(c) \/ ListCases(c) \/ Refuse(c)
        BY <4>1 DEF MoveCase, Remove, ListCases, Refuse, server, Shrinks
      <4>2. CASE ResetTask(c)
        BY <1>0, <4>2 DEF ResetTask, Shrinks
      <4>3. QED
        BY <3>1, <4>1, <4>2
    <3>3. /\ \A b \in Chain \ {c} : run'[b] = run[b]
          /\ run'[c].call = run[c].call
      BY <1>0, <3>1 DEF MoveCase, Remove, ResetTask, ListCases, Refuse, Answer, Chained
    <3>4. QED
      BY <1>0, <3>1, <3>2, <3>3
  <2>4. CASE Proceed(c)
    <3>1. run[c] # None /\ Then[run[c].call] = "load"
      BY <1>0, <2>4 DEF Proceed, Answered, Then, Chained, Calls
    <3>2. run'[c] = [run[c] EXCEPT !.call = "load", !.answer = None]
      BY <1>0, <2>4, <3>1 DEF Proceed
    <3>3. run'[c].call = "load"
      BY <1>0, <3>1, <3>2 DEF Chained
    <3>4. \A b \in Chain \ {c} : run'[b] = run[b]
      BY <1>0, <2>4 DEF Proceed
    <3>5. QED
      BY <2>0, <2>4, <3>3, <3>4 DEF Proceed
  <2>5. CASE Show(c)
    BY <1>0, <2>5 DEF Show, End, server, Shrinks
  <2>6. CASE Stop(c)
    BY <1>0, <2>0, <2>6 DEF Stop, End
  <2>7. QED
    BY <2>1, <2>2, <2>3, <2>4, <2>5, <2>6 DEF Continue
<1>2. \A b \in Mine(t) : b # c /\ run'[b] = run[b]
  BY <1>1 DEF Mine
<1>3. ASSUME NEW b \in Mine(t), run[b] # None PROVE Halfway(t, b)'
  <2>1. Halfway(t, b)
    BY <1>3 DEF PageInv
  <2>2. run[b].call = "register" /\ run[b].answer = "checked" => WithinQuota'
    BY <1>1, <2>1, StillRoom DEF Halfway, Shrinks
  <2>3. run[b].call = "patch" => run[b].answer # "refused"
    BY <2>1 DEF Halfway
  <2>4. QED
    BY <1>1, <1>2, <2>1, <2>2, <2>3, StillHalfway
<1>4. Covers(view[t]) => Covers(view[t])'
  BY <1>1, StillCovers
<1>5. over' = over /\ view'[t] = view[t]
  BY <1>1 DEF Shrinks
<1>6. QED
  BY <1>1, <1>2, <1>3, <1>4, <1>5 DEF PageInv, Mine

\* What the page of the employee does itself: one chain at a time.
LEMMA OwnStep ==
  ASSUME TypeInv, RowInv, Calm, Calm', NEW t \in Tab, Alone(t), PageInv(t), NEW c \in Mine(t),
         \/ Press(c) \/ Serve(c) \/ Continue(c)
         \/ Open(t) /\ Start(c, "load", None, None)
  PROVE  PageInv(t)'
<1>0. /\ run \in [Chain -> Chained \cup {None}] /\ view \in [Tab -> View \cup {None}]
      /\ task \in [Task -> {"pending", "done"}] /\ docs \subseteq Doc
      /\ c \in Chain /\ tabOf[c] = t /\ user[t] = "employee"
      /\ None \notin Doc \cup {"checked", "ok", "refused"}
      /\ run[c] # None => run[c] \in Chained /\ Halfway(t, c) /\ Fits(c) /\ Sent(c) /\ ~run[c].late
      /\ faults = 0 /\ ~over /\ Rows
  BY PortalAssumption DEF TypeInv, TypeOK, RowInv, PageInv, Mine, Alone, Sent, Calm
<1>1. \A b \in Chain \ {c} : run'[b] = run[b]
  BY <1>0 DEF Press, AcceptInvite, MarkDone, UploadId, DeleteId, SubmitCase, ApproveCase, ReturnCase,
              DeleteDoc, Start, Serve, MoveCase, PatchTask, Register, Insert, CheckUpload, SaveUpload,
              PutObject, Remove, ResetTask, ListCases, Refuse, Answer, Continue, Proceed, Show, Stop,
              End
<1>2. \A b \in Mine(t) \ {c} : run[b] = None
  <2>1. ASSUME run[c] = None, Quiet(t) PROVE \A b \in Mine(t) : run[b] = None
    BY <1>0, <2>1 DEF Quiet, RowInv, Sent, Mine
  <2>2. CASE run[c] # None
    BY <2>2 DEF PageInv
  <2>3. CASE run[c] = None
    <3>1. ~Serve(c) /\ ~Continue(c)
      BY <2>3 DEF Serve, MoveCase, PatchTask, Register, Insert, CheckUpload, SaveUpload, PutObject,
         Remove, ResetTask, ListCases, Refuse, Waiting, Checked, Continue, Proceed, Show, Stop, Answered
    <3>2. Quiet(t)
      BY <1>0, <3>1, CalmClick DEF Open
    <3>3. QED
      BY <2>1, <2>3, <3>2
  <2>4. QED
    BY <2>2, <2>3
<1>3. /\ run'[c] # None => Halfway(t, c)'
      /\ run'[c] = None /\ view'[t] # None => Covers(view[t])'
      /\ over' = over
  <2>1. ASSUME NEW call \in Calls, NEW u \in Task \cup {None}, NEW d \in Doc \cup {None},
               Start(c, call, u, d),
               \/ call \in {"patch", "load"}
               \/ /\ call \in {"register", "accept", "delete", "submit"} /\ Covers(view[t])
                  /\ call = "register" => d = None
        PROVE  <1>3
    <3> DEFINE x == [call |-> call, task |-> u, doc |-> d, answer |-> None, seen |-> None,
                     late |-> FALSE]
    <3>1. run'[c] = x /\ x \in Chained
      BY <1>0, <2>1 DEF Start, Chained
    <3>2. run'[c].call = call /\ run'[c].answer = None /\ run'[c].doc = d /\ run'[c] # None
      <4>1. run'[c].call = call /\ run'[c].answer = None /\ run'[c].doc = d
        BY <3>1
      <4>2. run'[c] # None
        <5> HIDE DEF x
        <5>1. QED
          BY <3>1, PortalAssumption
      <4>3. QED
        BY <4>1, <4>2
    <3>3. Shrinks(t)
      BY <2>1 DEF Start, Shrinks, server
    <3>4. Covers(view[t]) => Covers(view[t])'
      BY <3>3, StillCovers
    <3>5. Halfway(t, c)'
      BY <1>0, <2>1, <3>2, <3>4 DEF Halfway, Covers
    <3>6. QED
      BY <3>2, <3>3, <3>5 DEF Shrinks
  <2>2. CASE Press(c)
    <3>1. PICK call \in Calls, u \in Task \cup {None}, d \in Doc \cup {None} :
            /\ Start(c, call, u, d) /\ view[t] # None
            /\ call \in {"register", "accept", "delete", "submit", "patch"}
            /\ call = "register" => d = None
      BY <1>0, <2>2, CalmClick
    <3>2. Covers(view[t])
      BY <1>2, <3>1 DEF Start, PageInv
    <3>3. QED
      BY <2>1, <3>1, <3>2
  <2>3. CASE Open(t) /\ Start(c, "load", None, None)
    BY <2>1, <2>3 DEF Calls
  <2>4. CASE Serve(c)
    <3>1. /\ run[c] # None /\ run[c].answer \in {None, "checked"} /\ view' = view
      BY <2>4 DEF Serve, MoveCase, PatchTask, Register, Insert, CheckUpload, SaveUpload, PutObject,
                  Remove, ResetTask, ListCases, Refuse, Waiting, Checked
    <3>2. ASSUME NEW a \in {"checked", "ok", "refused"}, Answer(c, a)
          PROVE  /\ run'[c].call = run[c].call /\ run'[c].doc = run[c].doc /\ run'[c].answer = a
                 /\ run'[c] # None
      <4>1. run'[c] = [run[c] EXCEPT !.answer = a] /\ run'[c] \in Chained
        BY <1>0, <3>1, <3>2 DEF Answer, Chained
      <4>2. QED
        BY <1>0, <3>1, <4>1, PortalAssumption DEF Chained
    <3>3. ASSUME Shrinks(t), NEW a \in {"checked", "ok", "refused"}, Answer(c, a),
                 run[c].call \notin {"load", "patch"},
                 run[c].call = "register" /\ a = "checked" => WithinQuota'
          PROVE  <1>3
      <4>1. Halfway(t, c)
        BY <1>0, <3>1
      <4>2. Halfway(t, c)'
        BY <1>0, <3>2, <3>3, <4>1, StillHalfway
      <4>3. QED
        BY <3>2, <3>3, <4>2 DEF Shrinks
    <3>4. CASE MoveCase(c)
      <4>1. run[c].call \in {"accept", "submit", "approve", "return"} /\ Answer(c, "ok") /\ Shrinks(t)
        BY <3>1, <3>4 DEF MoveCase, Waiting, Target, Shrinks
      <4>2. QED
        BY <3>3, <4>1
    <3>5. CASE PatchTask(c)
      <4>1. run[c].call = "patch" /\ Answer(c, "ok") /\ over' = over
        BY <3>5 DEF PatchTask, Waiting
      <4>2. QED
        BY <1>0, <3>2, <4>1 DEF Halfway
    <3>6. CASE Register(c)
      <4>1. Answer(c, "checked") /\ run[c].call = "register" /\ WithinQuota /\ UNCHANGED <<server, view>>
        BY <3>6 DEF Register, Waiting
      <4>2. Shrinks(t) /\ WithinQuota'
        BY <4>1 DEF Shrinks, server, WithinQuota
      <4>3. QED
        BY <3>3, <4>1, <4>2
    <3>7. CASE Insert(c)
      <4>1. PICK d \in Doc : /\ docs' = docs \cup {d} /\ run[c].call = "register"
                             /\ run[c].answer = "checked" /\ task' = task
                             /\ run' = [run EXCEPT ![c].doc = d, ![c].answer = "ok"]
        BY <3>7 DEF Insert, Checked
      <4>2. run'[c] = [run[c] EXCEPT !.doc = d, !.answer = "ok"] /\ run'[c] \in Chained
        BY <1>0, <3>1, <4>1 DEF Chained
      <4>3. run'[c].call = "register" /\ run'[c].doc = d /\ run'[c].answer = "ok" /\ run'[c] # None
        BY <1>0, <3>1, <4>1, <4>2, PortalAssumption DEF Chained
      <4>4. WithinQuota /\ run[c].doc = None /\ CoversBut(view[t], run[c].doc)
        BY <1>0, <3>1, <4>1 DEF Halfway, Fits
      <4>5. over' = over
        BY <1>0, <3>7, <4>4 DEF Insert, TypeInv, TypeOK
      <4>6. CoversBut(view[t], d)'
        BY <1>0, <3>1, <4>1, <4>4 DEF CoversBut
      <4>7. QED
        BY <1>0, <4>3, <4>5, <4>6 DEF Halfway
    <3>8. CASE CheckUpload(c) \/ SaveUpload(c) \/ PutObject(c)
      <4>1. /\ run[c].call = "put" /\ \E a \in {"checked", "ok", "refused"} : Answer(c, a)
            /\ Shrinks(t)
        BY <3>1, <3>8 DEF CheckUpload, SaveUpload, PutObject, Waiting, Checked, Shrinks, server
      <4>2. QED
        BY <3>3, <4>1
    <3>9. CASE Remove(c) \/ ResetTask(c)
      <4>1. run[c].call = "delete" /\ \E a \in {"checked", "ok"} : Answer(c, a)
        BY <3>9 DEF Remove, ResetTask, Waiting, Checked
      <4>2. Shrinks(t)
        BY <1>0, <3>1, <3>9 DEF Remove, ResetTask, Shrinks
      <4>3. QED
        BY <3>3, <4>1, <4>2
    <3>10. CASE ListCases(c)
      <4> DEFINE s == Seen("employee")
      <4>1. s \in View /\ s.task = task /\ s.docs = docs
        BY SeenType DEF Seen
      <4>2. run'[c] = [run[c] EXCEPT !.answer = "ok", !.seen = s] /\ run[c].call = "load"
        BY <1>0, <3>10 DEF ListCases, Waiting
      <4>3. over' = over
        BY <3>10 DEF ListCases, server
      <4> HIDE DEF s
      <4>4. run'[c] \in Chained /\ run'[c].call = "load" /\ run'[c].seen = s /\ run'[c] # None
        <5>1. run'[c] \in Chained /\ run'[c].call = "load" /\ run'[c].seen = s
          BY <1>0, <3>1, <4>1, <4>2 DEF Chained
        <5>2. QED
          BY <5>1, PortalAssumption
      <4>5. Covers(run[c].seen)'
        <5>1. docs' = docs /\ task' = task
          BY <3>10 DEF ListCases, server
        <5>2. run'[c].seen.docs = docs' /\ run'[c].seen.task = task'
          BY <4>1, <4>4, <5>1
        <5>3. QED
          BY <5>2 DEF Covers, CoversBut
      <4>6. QED
        BY <4>3, <4>4, <4>5 DEF Halfway
    <3>11. CASE Refuse(c)
      <4>1. run[c].call \notin {"load", "patch"} /\ Answer(c, "refused") /\ Shrinks(t)
        BY <3>1, <3>11 DEF Refuse, Waiting, Target, Shrinks, server
      <4>2. QED
        BY <3>3, <4>1
    <3>12. QED
      BY <2>4, <3>4, <3>5, <3>6, <3>7, <3>8, <3>9, <3>10, <3>11 DEF Serve
  <2>5. CASE Proceed(c)
    <3>1. /\ run[c] # None /\ run[c].answer = "ok" /\ run[c].call # "load" /\ run[c] \in Chained
          /\ run'[c] = [run[c] EXCEPT !.call = Then[run[c].call], !.answer = None]
          /\ UNCHANGED <<server, view>>
      BY <1>0, <2>5 DEF Proceed, Answered
    <3>2. /\ Then[run[c].call] \in {"put", "patch", "load"}
          /\ Then[run[c].call] = "put" => run[c].call = "register"
      BY <3>1 DEF Then, Chained, Calls
    <3>3. run'[c] \in Chained /\ run'[c].call = Then[run[c].call] /\ run'[c].answer = None
          /\ run'[c].doc = run[c].doc /\ run'[c] # None
      BY <3>1, <3>2, PortalAssumption DEF Chained, Calls
    <3>4. run[c].call = "register" => CoversBut(view[t], run[c].doc)
      BY <1>0, <3>1 DEF Halfway
    <3>5. CoversBut(view[t], run[c].doc) => CoversBut(view[t], run[c].doc)'
      BY <3>1, <3>3 DEF CoversBut, server
    <3>6. QED
      BY <1>0, <3>1, <3>2, <3>3, <3>4, <3>5 DEF Halfway, server
  <2>6. CASE Show(c)
    <3>1. run[c] # None /\ run[c].answer # None /\ run[c].call = "load"
      BY <1>0, <2>6 DEF Show, Answered
    <3>2. Covers(run[c].seen)
      BY <1>0, <3>1 DEF Halfway
    <3>3. view'[t] = run[c].seen /\ run'[c] = None /\ UNCHANGED <<task, docs, over>>
      BY <1>0, <2>6 DEF Show, End, server
    <3>4. QED
      BY <3>2, <3>3 DEF Covers, CoversBut
  <2>7. CASE Stop(c)
    <3>1. run[c] # None /\ run[c].answer = "refused"
      BY <1>0, <2>7 DEF Stop, Answered
    <3>2. Covers(view[t])
      <4>1. CASE run[c].call = "register"
        BY <1>0, <3>1, <4>1 DEF Halfway, Fits, Covers
      <4>2. CASE run[c].call = "put"
        <5>1. CoversBut(view[t], run[c].doc) /\ run[c].doc \notin docs
          BY <1>0, <3>1, <4>2 DEF Halfway, Sent
        <5>2. QED
          BY <1>0, <5>1 DEF Covers, CoversBut
      <4>3. CASE run[c].call \notin {"register", "put"}
        BY <1>0, <3>1, <4>3 DEF Halfway, Fits
      <4>4. QED
        BY <4>1, <4>2, <4>3
    <3>3. run'[c] = None /\ UNCHANGED <<task, docs, over, view>>
      BY <1>0, <2>7 DEF Stop, End, server
    <3>4. QED
      BY <3>2, <3>3 DEF Covers, CoversBut
  <2>8. QED
    BY <2>2, <2>3, <2>4, <2>5, <2>6, <2>7 DEF Continue
<1>4. QED
  BY <1>1, <1>2, <1>3, <1>0 DEF PageInv, Mine

LEMMA PageStep ==
  ASSUME NEW t \in Tab, Alone(t)
  PROVE  TypeInv /\ RowInv /\ TypeInv' /\ PageInv(t) /\ [Next]_vars => PageInv(t)'
<1> SUFFICES ASSUME TypeInv, RowInv, PageInv(t), [Next]_vars, Calm' PROVE PageInv(t)'
  BY DEF PageInv
<1>1. CASE UNCHANGED vars
  BY <1>1 DEF vars, server, bounds, PageInv, Mine, Halfway, Covers, CoversBut, WithinQuota, Calm
<1>2. CASE Next
  <2>1. faults \in Nat /\ hasty \in Nat
    BY DEF TypeInv, TypeOK
  <2>2. hasty' \in {hasty, hasty + 1}
    <3>1. ASSUME NEW c \in Chain, Press(c) PROVE hasty' \in {hasty, hasty + 1}
      <4>1. \E h : Spend(c, h)
        BY <3>1 DEF Press, AcceptInvite, MarkDone, UploadId, DeleteId, SubmitCase, ApproveCase,
                    ReturnCase, DeleteDoc
      <4>2. QED
        BY <4>1 DEF Spend
    <3>2. ASSUME NEW c \in Chain, Serve(c) PROVE hasty' = hasty
      BY <3>2 DEF Serve, MoveCase, PatchTask, Register, Insert, CheckUpload, SaveUpload, PutObject,
                  Remove, ResetTask, ListCases, Refuse, bounds
    <3>3. ASSUME NEW c \in Chain, Continue(c) \/ Lose(c) \/ GiveUp(c) PROVE hasty' = hasty
      BY <3>3 DEF Continue, Proceed, Show, Stop, Lose, GiveUp, bounds
    <3>4. QED
      BY <1>2, <3>1, <3>2, <3>3 DEF Next, Open
  <2>3. Calm
    BY <1>2, <2>1, <2>2, RowsChange DEF Calm
  <2>4. \A c \in Chain : ~Lose(c) /\ ~GiveUp(c)
    BY <2>1, <2>3 DEF Lose, GiveUp, Calm
  <2>5. ASSUME NEW c \in Chain, Press(c) \/ Serve(c) \/ Continue(c) PROVE PageInv(t)'
    BY <2>3, <2>5, OwnStep, OtherStep DEF Mine, RowInv
  <2>6. ASSUME NEW s \in Tab, Open(s) PROVE PageInv(t)'
    <3>1. PICK c \in Chain : tabOf[c] = s /\ Start(c, "load", None, None)
      BY <2>6 DEF Open
    <3>2. QED
      BY <2>3, <2>6, <3>1, OwnStep, OtherStep DEF Mine, RowInv
  <2>7. QED
    BY <1>2, <2>4, <2>5, <2>6 DEF Next
<1>3. QED
  BY <1>1, <1>2

\* While no call is lost or given up and no click comes before the calls of its page are
\* answered, the employee's only page misses, at rest, no document and no completed task,
\* whatever HR deletes or returns meanwhile (App of web-onboarding/src/App.tsx).
THEOREM RestingPageComplete == Spec => []PageMissesNothing
<1> DEFINE P == \A t \in Tab : Alone(t) => PageInv(t)
<1>1. Init => P
  BY DEF Init, PageInv, Mine
<1>2. TypeInv /\ RowInv /\ TypeInv' /\ P /\ [Next]_vars => P'
  BY PageStep DEF Alone
<1>3. TypeInv /\ RowInv /\ P => PageMissesNothing
  <2> SUFFICES ASSUME TypeInv, RowInv, P, NEW t \in Tab,
                      Calm, Quiet(t), view[t] # None, Alone(t)
               PROVE  docs \subseteq view[t].docs
                      /\ \A k \in Task : task[k] = "done" => view[t].task[k] = "done"
    BY DEF PageMissesNothing, Calm, Alone
  <2>1. \A c \in Mine(t) : run[c] = None
    BY DEF Quiet, RowInv, Sent, Calm, Mine
  <2>2. Covers(view[t]) /\ None \notin docs
    BY <2>1, PortalAssumption DEF PageInv, TypeInv, TypeOK
  <2>3. QED
    BY <2>2 DEF Covers, CoversBut
<1>4. QED
  <2> HIDE DEF P
  <2>1. QED
    BY <1>1, <1>2, <1>3, TypeInvariant, RowInvariant, PTL DEF Spec

-----------------------------------------------------------------------------
(* The case.                                                               *)

Status == [c \in {"case"} |-> status]
Ready  == {c \in {"case"} : \A t \in Task : task[t] = "done"}
Active == {p \in {"hire"} : active}
Of     == [c \in {"case"} |-> "hire"]

LEMMA InitMaps == Init => Lifecycle!Init
<1> SUFFICES ASSUME Init PROVE Lifecycle!Init
  OBVIOUS
<1>1. Status \in [{"case"} -> {"invited", "in_progress"}]
  BY DEF Init, Status
<1>2. Ready \in SUBSET {"case"} /\ Active \in SUBSET {"hire"}
  BY DEF Ready, Active
<1>3. QED
  BY <1>1, <1>2 DEF Lifecycle!Init, Status, Ready, Active

\* A call that moves the case makes the move that it asks for.
LEMMA MoveMaps ==
  ASSUME TypeInv, NEW c \in Chain, MoveCase(c)
  PROVE  Lifecycle!Next
<1>1. PICK call \in DOMAIN Target : /\ MoveAllowed(call) /\ status' = Target[call]
                                   /\ active' = (active \/ call = "approve")
  BY DEF MoveCase
<1>2. /\ CanMove(status, Target[call])
      /\ call = "submit" => \A t \in Task : task[t] = "done"
  BY <1>1 DEF MoveAllowed
<1>3. call \in {"accept", "submit", "approve", "return"}
  BY DEF Target
<1>4. Status' = [Status EXCEPT !["case"] = Target[call]] /\ Status["case"] = status
  BY <1>1 DEF Status
<1>5. Ready' = Ready
  BY DEF MoveCase, Ready
<1>6. CASE call = "approve"
  <2>1. CanMove(Status["case"], "completed") /\ Status' = [Status EXCEPT !["case"] = "completed"]
    BY <1>2, <1>4, <1>6 DEF Target
  <2>2. Active' = Active \cup {Of["case"]}
    BY <1>1, <1>6 DEF Active, Of
  <2>3. Lifecycle!Complete("case")
    BY <1>5, <2>1, <2>2 DEF Lifecycle!Complete, Lifecycle!CanMove, Lifecycle!TRANSITIONS,
       CanMove, TRANSITIONS, Status, Ready, Active, Of
  <2>4. QED
    BY <2>3 DEF Lifecycle!Next
<1>7. CASE call # "approve"
  <2>1. Active' = Active
    BY <1>1, <1>7 DEF Active
  <2>2. Lifecycle!Move("case", Target[call])
    BY <1>2, <1>4, <1>5, <2>1 DEF Lifecycle!Move, Lifecycle!CanMove, Lifecycle!TRANSITIONS,
       CanMove, TRANSITIONS, Status, Ready, Active
  <2>3. CASE call = "submit"
    BY <1>2, <2>2, <2>3 DEF Lifecycle!Next, Lifecycle!Submit, Target
  <2>4. CASE call \in {"accept", "return"}
    BY <2>2, <2>4 DEF Lifecycle!Next, Lifecycle!Start, Target
  <2>5. QED
    BY <1>3, <1>7, <2>3, <2>4
<1>8. QED
  BY <1>6, <1>7

\* The calls that change a task leave the status of the case and of the employee.
LEMMA WorkMaps ==
  ASSUME TypeInv, UNCHANGED <<status, active>>
  PROVE  Lifecycle!Next
<1>1. Ready' \in {Ready \cup {"case"}, Ready \ {"case"}}
  <2>1. CASE (\A t \in Task : task[t] = "done")'
    BY <2>1 DEF Ready
  <2>2. CASE ~(\A t \in Task : task[t] = "done")'
    BY <2>2 DEF Ready
  <2>3. QED
    BY <2>1, <2>2
<1>2. Status' = Status /\ Active' = Active
  BY DEF Status, Active
<1>3. Lifecycle!WorkOnTasks("case")
  BY <1>1, <1>2 DEF Lifecycle!WorkOnTasks, Status, Ready, Active
<1>4. QED
  BY <1>3 DEF Lifecycle!Next

\* However pages and calls interleave, what they make of the case is a life that
\* CaseLifecycle allows, as it is of the handlers of Onboarding that stay apart.
THEOREM CaseLives == Spec => ImplementsLifecycle
<1>1. TypeInv /\ [Next]_vars => [Lifecycle!Next]_Lifecycle!lifecycle
  <2> SUFFICES ASSUME TypeInv, [Next]_vars, ~\E c \in Chain : MoveCase(c)
               PROVE  Lifecycle!Next
    BY MoveMaps
  <2>1. ASSUME NEW c \in Chain, Clicked(c) PROVE UNCHANGED <<status, active>>
    BY <2>1 DEF Clicked, Start, server
  <2>2. UNCHANGED <<status, active>>
    BY <2>1, PressClicked DEF Next, Serve, Continue, PatchTask, Register, Insert, CheckUpload,
       SaveUpload, PutObject, Remove, ResetTask, ListCases, Refuse, Proceed, Show, Stop, Lose, GiveUp,
       server, vars
  <2>3. QED
    BY <2>2, WorkMaps
<1>2. QED
  BY <1>1, InitMaps, TypeInvariant, PTL DEF Spec, ImplementsLifecycle, Lifecycle!Spec
=============================================================================
