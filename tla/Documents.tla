----------------------------- MODULE Documents -----------------------------
(***************************************************************************)
(* The documents service (documents/documents.service.ts) over the table   *)
(* documents_meta and a storage driver, as concurrent requests.            *)
(*                                                                         *)
(* The row and the stored bytes are two systems with no transaction around *)
(* them: every call to Prisma or to the storage port is one atomic step,   *)
(* other requests run between two steps, and a request may be lost there.  *)
(* A handler goes on with the row it read first ("row"), however stale.    *)
(* Downloads change nothing and are left out; so is createUpload, which    *)
(* only makes a URL.                                                       *)
(***************************************************************************)
EXTENDS Integers, Sequences, FiniteSetsExt

CONSTANTS Case, Task, User,
          caseEmployee,         \* OnboardingCase.employeeId
          readable,             \* the cases getCase lets each user read
          hrAdmins,             \* the users whose role is hr_admin
          Request,              \* the requests of a behaviour, each used once
          OldDoc, oldRow,       \* documents registered before, and their rows
          Calls,                \* bound: the calls clients make
          MaxFile, Quota,       \* MAX_FILE_BYTES, MAX_EMPLOYEE_BYTES
          Faults,               \* TRUE: requests may be lost
          DiskErrors,           \* TRUE: unlinking a local file may fail
          PutSizes,             \* bound: the sizes of bodies PUT to a signed URL
          None                  \* null

VARIABLES cloud,                \* STORAGE_DRIVER: FALSE: local disk; TRUE: S3 or GCS
          meta,                 \* documents_meta: the row of each document, or None
          stored,               \* bytes the storage driver holds; 0: no object
          taskStatus,           \* OnboardingTask.status
          audit,                \* the rows of audit_log about documents
          pc, call, row         \* per request: next step, arguments, row read

tables == <<cloud, meta, stored, taskStatus, audit>>
vars == <<cloud, meta, stored, taskStatus, audit, pc, call, row>>

\* A document is named by the request that registered it: randomUUID is fresh.
Doc == OldDoc \cup Request

ReviewStatus == {"pending", "approved", "rejected"}
TaskStatus   == {"pending", "done", "waived", "rejected"}

\* The task of a document is any task: register does not relate it to the case.
Row == [case : Case, task : Task \cup {None}, size : Nat, uploader : User,
        review : ReviewStatus]

\* The body of an upload is as long as it is; a declared size is at least 1.
Call == [op : {"register"}, user : User, case : Case, task : Task \cup {None}, size : Nat \ {0}]
   \cup [op : {"saveUpload"}, doc : Doc, size : Nat]
   \cup [op : {"review"}, user : User, doc : Doc, verdict : ReviewStatus]
   \cup [op : {"remove"}, user : User, doc : Doc]

AuditAction == [register |-> "DOCUMENT_REGISTERED", review |-> "DOCUMENT_REVIEWED",
                remove |-> "DOCUMENT_DELETED"]

AuditRow == [by : Request, doc : Doc, action : {AuditAction[o] : o \in DOMAIN AuditAction}]

ASSUME DocumentsAssumption ==
  /\ readable \in [User -> SUBSET Case]
  /\ hrAdmins \subseteq User
  /\ oldRow \in [OldDoc -> Row]
  /\ Calls \subseteq Call
  /\ MaxFile \in Nat \ {0} /\ Quota \in Nat
  /\ Faults \in BOOLEAN /\ DiskErrors \in BOOLEAN
  /\ PutSizes \subseteq Nat \ {0}
  /\ IsFiniteSet(OldDoc)
  /\ None \notin Row /\ None \notin Call /\ None \notin Task
  /\ OldDoc \cap Request = {}

-----------------------------------------------------------------------------
(* The checks.                                                             *)

Exists(d) == meta[d] # None

\* assertFileSize
FileSizeOk(size) == size \in 1..MaxFile

\* employeeUsedBytes: the sum of size_bytes over the employee's cases.
UsedBytes(e) ==
  MapThenSumSet(LAMBDA d : meta[d].size,
                {d \in Doc : Exists(d) /\ caseEmployee[meta[d].case] = e})

\* Mutant: what is stored already is compared, without what comes in.
UsedOnly(used, incoming) == used <= Quota

\* assertEmployeeQuota
WithinQuota(used, incoming) == used + incoming <= Quota

\* The checks before the first write of any kind, except the quota.
Allowed(k) ==
  /\ k.op = "register"   => k.case \in readable[k.user] /\ FileSizeOk(k.size)
  /\ k.op = "saveUpload" => Exists(k.doc) /\ ~cloud /\ FileSizeOk(k.size)
  /\ k.op = "review"     => k.user \in hrAdmins /\ Exists(k.doc)
  /\ k.op = "remove"     => /\ Exists(k.doc)
                            /\ k.user = meta[k.doc].uploader \/ k.user \in hrAdmins
                            /\ meta[k.doc].case \in readable[k.user]

-----------------------------------------------------------------------------
(* The steps of a request.                                                 *)

PC == {"idle", "load", "sum", "insert", "store", "resize", "mark", "erase",
       "delete", "count", "reset", "audit", "done", "refused", "failed", "lost"}

Running(r) == pc[r] \in PC \ {"idle", "done", "refused", "failed", "lost"}

AfterLoad == [register |-> "sum", saveUpload |-> "sum", review |-> "mark", remove |-> "erase"]

Goto(r, from, to) == pc[r] = from /\ pc' = [pc EXCEPT ![r] = to]

Init == /\ cloud \in BOOLEAN
        /\ meta = [d \in Doc |-> IF d \in OldDoc THEN oldRow[d] ELSE None]
        /\ \E uploaded \in SUBSET OldDoc :
             stored = [d \in Doc |-> IF d \in uploaded THEN oldRow[d].size ELSE 0]
        /\ taskStatus \in [Task -> {"pending", "done"}]
        /\ audit = << >>
        /\ pc = [r \in Request |-> "idle"]
        /\ call = [r \in Request |-> None]
        /\ row = [r \in Request |-> None]

\* A client issues a call.
Arrive(r) ==
  /\ Goto(r, "idle", "load")
  /\ \E k \in Calls : call' = [call EXCEPT ![r] = k]
  /\ UNCHANGED <<tables, row>>

\* The first reads (the case, or the document's row and its case).
Load(r) ==
  /\ Goto(r, "load", AfterLoad[call[r].op])
  /\ Allowed(call[r])
  /\ row' = IF call[r].op = "register" THEN row
            ELSE [row EXCEPT ![r] = meta[call[r].doc]]
  /\ UNCHANGED <<tables, call>>

Refuse(r) ==
  /\ Goto(r, "load", "refused")
  /\ ~Allowed(call[r])
  /\ UNCHANGED <<tables, call, row>>

\* employeeUsedBytes and assertEmployeeQuota.  An upload replaces the bytes its
\* document was counted with when the row was read.
QuotaAllows(r) ==
  LET k == call[r] IN
  IF k.op = "register"
  THEN WithinQuota(UsedBytes(caseEmployee[k.case]), k.size)
  ELSE WithinQuota(UsedBytes(caseEmployee[row[r].case]) - row[r].size, k.size)

Sum(r) ==
  /\ Goto(r, "sum", IF call[r].op = "register" THEN "insert" ELSE "store")
  /\ QuotaAllows(r)
  /\ UNCHANGED <<tables, call, row>>

RefuseQuota(r) ==
  /\ Goto(r, "sum", "refused")
  /\ ~QuotaAllows(r)
  /\ UNCHANGED <<tables, call, row>>

\* register: the row is created with the declared size; no bytes yet.
Insert(r) ==
  /\ Goto(r, "insert", "audit")
  /\ LET k == call[r] IN
     meta' = [meta EXCEPT ![r] = [case |-> k.case, task |-> k.task, size |-> k.size,
                                  uploader |-> k.user, review |-> "pending"]]
  /\ UNCHANGED <<cloud, stored, taskStatus, audit, call, row>>

\* saveUpload: write the file, then the row.  Nothing is audited.
Store(r) ==
  /\ Goto(r, "store", "resize")
  /\ stored' = [stored EXCEPT ![call[r].doc] = call[r].size]
  /\ UNCHANGED <<cloud, meta, taskStatus, audit, call, row>>

\* Mutant: the row keeps the declared size.
ResizeNothing(r) ==
  /\ Goto(r, "resize", "done")
  /\ Exists(call[r].doc)
  /\ UNCHANGED <<tables, call, row>>

Resize(r) ==
  /\ Goto(r, "resize", "done")
  /\ Exists(call[r].doc)
  /\ meta' = [meta EXCEPT ![call[r].doc].size = call[r].size]
  /\ UNCHANGED <<cloud, stored, taskStatus, audit, call, row>>

\* Mutant: only a pending document is reviewed.
MarkPending(r) ==
  /\ Goto(r, "mark", "audit")
  /\ Exists(call[r].doc)
  /\ meta' = IF meta[call[r].doc].review = "pending"
             THEN [meta EXCEPT ![call[r].doc].review = call[r].verdict] ELSE meta
  /\ UNCHANGED <<cloud, stored, taskStatus, audit, call, row>>

\* review
Mark(r) ==
  /\ Goto(r, "mark", "audit")
  /\ Exists(call[r].doc)
  /\ meta' = [meta EXCEPT ![call[r].doc].review = call[r].verdict]
  /\ UNCHANGED <<cloud, stored, taskStatus, audit, call, row>>

\* Mutant: the bytes are never erased.
EraseNothing(r) ==
  /\ Goto(r, "erase", "delete")
  /\ UNCHANGED <<tables, call, row>>

\* remove: the bytes first ...
Erase(r) ==
  /\ Goto(r, "erase", "delete")
  /\ stored' = [stored EXCEPT ![call[r].doc] = 0]
  /\ UNCHANGED <<cloud, meta, taskStatus, audit, call, row>>

\* ... (the local driver swallows an error of unlink and goes on) ...
EraseFails(r) ==
  /\ ~cloud /\ DiskErrors
  /\ Goto(r, "erase", "delete")
  /\ UNCHANGED <<tables, call, row>>

\* Mutants: deleteMany, which does not mind that the row is gone; the task is
\* looked at even if there is none.
DeleteMany(r) ==
  /\ Goto(r, "delete", IF row[r].task = None THEN "audit" ELSE "count")
  /\ meta' = [meta EXCEPT ![call[r].doc] = None]
  /\ UNCHANGED <<cloud, stored, taskStatus, audit, call, row>>
DeleteThenCount(r) ==
  /\ Goto(r, "delete", "count")
  /\ Exists(call[r].doc)
  /\ meta' = [meta EXCEPT ![call[r].doc] = None]
  /\ UNCHANGED <<cloud, stored, taskStatus, audit, call, row>>

\* ... then the row, which only one request can delete ...
Delete(r) ==
  /\ Goto(r, "delete", IF row[r].task = None THEN "audit" ELSE "count")
  /\ Exists(call[r].doc)
  /\ meta' = [meta EXCEPT ![call[r].doc] = None]
  /\ UNCHANGED <<cloud, stored, taskStatus, audit, call, row>>

\* ... then the task, if no document is left for it by now.
DocsOf(t) == {d \in Doc : Exists(d) /\ meta[d].task = t}

\* Mutant: the document just deleted is taken to be counted still.
CountsItself(r) ==
  /\ Goto(r, "count", IF \E d \in Doc : DocsOf(row[r].task) = {d} THEN "reset" ELSE "audit")
  /\ UNCHANGED <<tables, call, row>>

Count(r) ==
  /\ Goto(r, "count", IF DocsOf(row[r].task) = {} THEN "reset" ELSE "audit")
  /\ UNCHANGED <<tables, call, row>>

ResetTask(r) ==
  /\ Goto(r, "reset", "audit")
  /\ taskStatus' = [taskStatus EXCEPT ![row[r].task] = "pending"]
  /\ UNCHANGED <<cloud, meta, stored, audit, call, row>>

\* Prisma's update and delete throw when the row is gone (P2025).
RowGone(r) ==
  /\ pc[r] \in {"resize", "mark", "delete"} /\ ~Exists(call[r].doc)
  /\ pc' = [pc EXCEPT ![r] = "failed"]
  /\ UNCHANGED <<tables, call, row>>

AppendAudit(r) ==
  /\ Goto(r, "audit", "done")
  /\ LET k == call[r] IN
     audit' = Append(audit, [by |-> r, action |-> AuditAction[k.op],
                             doc |-> IF k.op = "register" THEN r ELSE k.doc])
  /\ UNCHANGED <<cloud, meta, stored, taskStatus, call, row>>

\* The request stops between two steps.
Lose(r) ==
  /\ Faults /\ Running(r)
  /\ pc' = [pc EXCEPT ![r] = "lost"]
  /\ UNCHANGED <<tables, call, row>>

-----------------------------------------------------------------------------
(* The cloud store on its own.                                             *)

\* The client of a registered document uses its signed URL, which fixes the
\* key and the content type but not the length, and outlives the row.
PutObject(d, size) ==
  /\ cloud
  /\ d \in OldDoc \/ (d \in Request /\ pc[d] = "done" /\ call[d].op = "register")
  /\ stored' = [stored EXCEPT ![d] = size]
  /\ UNCHANGED <<cloud, meta, taskStatus, audit, pc, call, row>>

\* The lifecycle rule of the bucket deletes an old object; the row stays.
Expire(d) ==
  /\ cloud
  /\ stored[d] # 0
  /\ stored' = [stored EXCEPT ![d] = 0]
  /\ UNCHANGED <<cloud, meta, taskStatus, audit, pc, call, row>>

Step(r) == \/ Load(r) \/ Refuse(r) \/ Sum(r) \/ RefuseQuota(r) \/ Insert(r)
           \/ Store(r) \/ Resize(r) \/ Mark(r) \/ Erase(r) \/ EraseFails(r)
           \/ Delete(r) \/ Count(r) \/ ResetTask(r) \/ RowGone(r) \/ AppendAudit(r)

Next == \/ \E r \in Request : Arrive(r) \/ Step(r) \/ Lose(r)
        \/ \E d \in Doc : Expire(d) \/ \E size \in PutSizes : PutObject(d, size)

Spec == Init /\ [][Next]_vars

-----------------------------------------------------------------------------
(* Type correctness.                                                       *)

\* Every variable keeps its type, and the next step of a request fits its call.
TypeOK ==
  /\ cloud \in BOOLEAN
  /\ meta \in [Doc -> Row \cup {None}]
  /\ stored \in [Doc -> Nat]
  /\ taskStatus \in [Task -> TaskStatus]
  /\ audit \in Seq(AuditRow)
  /\ pc \in [Request -> PC]
  /\ call \in [Request -> Calls \cup {None}]
  /\ row \in [Request -> Row \cup {None}]
  /\ \A r \in Request :
       /\ pc[r] = "idle" <=> call[r] = None
       /\ pc[r] = "sum" => call[r].op \in {"register", "saveUpload"}
       /\ pc[r] = "insert" => call[r].op = "register"
       /\ pc[r] = "audit" => call[r].op # "saveUpload"
       /\ pc[r] \in {"store", "resize"} => call[r].op = "saveUpload"
       /\ pc[r] = "mark" => call[r].op = "review"
       /\ pc[r] \in {"erase", "delete", "count", "reset"} => call[r].op = "remove"
       /\ pc[r] \in {"count", "reset"} => row[r].task # None
       /\ Running(r) /\ pc[r] # "load" /\ call[r].op # "register" => row[r] # None

-----------------------------------------------------------------------------
(* Properties that hold whatever the interleaving and the losses.          *)

\* The positions in the audit log of the rows of an action on a document.
Rows(d, action) == {i \in 1..Len(audit) : audit[i].doc = d /\ audit[i].action = action}

\* Of the requests that remove the same document at the same time one deletes
\* the row and says so: a deletion is audited once, and a document whose
\* deletion is audited is gone for good, whatever upload or review was under way.
DeletedOnce ==
  \A d \in Doc : LET deletions == Rows(d, "DOCUMENT_DELETED") IN
    /\ \A i, j \in deletions : i = j
    /\ deletions # {} => ~Exists(d)

\* The removals of a document of task t that got past their checks.
Removals(t) == {r \in Request : call[r] # None /\ call[r].op = "remove"
                                /\ row[r] # None /\ row[r].task = t}

\* However removals overlap, the last one resets the task: once all removals for
\* a task have ended, one of them succeeded and no document is left, the task
\* is pending again.  Each counts after its own delete, so one counts zero.
LastRemovalResets ==
  \A t \in Task :
    /\ \A r \in Removals(t) : pc[r] \in {"done", "failed"}
    /\ \E r \in Removals(t) : pc[r] = "done"
    /\ DocsOf(t) = {}
    => taskStatus[t] = "pending"

-----------------------------------------------------------------------------
(* Which requests must not overlap.  Nothing in the code keeps them apart;  *)
(* they are when one request runs at a time.                               *)

\* The request is between a read that its quota is judged by and its write.
Admitting(r) == pc[r] = "insert" \/ (pc[r] \in {"sum", "store", "resize"} /\ call[r].op = "saveUpload")

ChargedTo(r) == caseEmployee[IF call[r].op = "register" THEN call[r].case ELSE row[r].case]

\* No two such requests are of the same employee.
QuotaApart == \A q, r \in Request :
  Admitting(q) /\ Admitting(r) /\ ChargedTo(q) = ChargedTo(r) => q = r

\* No document is inserted for a task between the count and the reset of its task.
TasksApart == \A q, r \in Request :
  pc[q] = "insert" /\ pc[r] = "reset" => call[q].task # row[r].task

\* No file is on its way to a document whose bytes are erased and whose row is not.
ErasesApart == \A q, r \in Request :
  pc[q] \in {"sum", "store"} /\ call[q].op = "saveUpload" /\ pc[r] = "delete"
    => call[q].doc # call[r].doc

\* No two uploads of a document are between the file and the row.
UploadsApart == \A q, r \in Request :
  pc[q] = "resize" /\ pc[r] = "resize" /\ call[q].doc = call[r].doc => q = r

\* No two reviews of a document are between the row and the log.
ReviewsApart == \A q, r \in Request :
  /\ pc[q] = "audit" /\ call[q].op = "review" /\ pc[r] = "audit" /\ call[r].op = "review"
  /\ call[q].doc = call[r].doc
  => q = r

Apart == QuotaApart /\ TasksApart /\ ErasesApart /\ UploadsApart /\ ReviewsApart

-----------------------------------------------------------------------------
(* Properties of requests that are kept apart.                             *)

\* infra/aws-s3/README.md, DOC-004: an employee's documents never take more than
\* the quota by their rows.
QuotaRespected == \A c \in Case : UsedBytes(caseEmployee[c]) <= Quota

BytesHaveRows == \A d \in Doc : stored[d] > 0 => Exists(d)

\* With a disk that does not fail, bytes are never left behind without a row,
\* even when a removal or an upload is lost halfway: remove erases before it
\* deletes, and an upload needs the row.
NoOrphanObject == ~cloud /\ ~DiskErrors => BytesHaveRows

\* The request wrote the bytes and not yet their size, or may have and was lost.
Unsized(r, d) == pc[r] \in {"resize", "lost"} /\ call[r].op = "saveUpload" /\ call[r].doc = d

\* The size the quota counts for a document is the size of its bytes on disk, unless
\* an upload of it is between its two writes or was lost.
SizeMatches ==
  ~cloud => \A d \in Doc :
    Exists(d) /\ stored[d] > 0 /\ (\A r \in Request : ~Unsized(r, d)) => meta[d].size = stored[d]

\* The review the log reports of a document: the one of the last review row, or
\* the document's first.
Reviews(d) == Rows(d, "DOCUMENT_REVIEWED")
ReportedReview(d) ==
  IF Reviews(d) # {} THEN call[audit[Max(Reviews(d))].by].verdict
  ELSE IF d \in OldDoc THEN oldRow[d].review ELSE "pending"

\* A review is between its write and its row in the log, or was lost.
Unaudited(r, d) == pc[r] \in {"audit", "lost"} /\ call[r].op = "review" /\ call[r].doc = d

\* The review of a document is the one its last review row in the log reports, or its
\* first state, unless a review of it is not audited yet or was lost.
TrailExplainsReview == \A d \in Doc :
  Exists(d) /\ (\A r \in Request : ~Unaudited(r, d)) => meta[d].review = ReportedReview(d)

\* The inductive invariant behind NoOrphanObject, with ErasesApart, for a local disk
\* without errors: an upload about to write still has its row, and a removal about
\* to delete has erased.
NoOrphanInductive ==
  /\ \A r \in Request :
       /\ pc[r] \in {"sum", "store"} /\ call[r].op = "saveUpload" => Exists(call[r].doc)
       /\ pc[r] = "delete" => stored[call[r].doc] = 0
  /\ BytesHaveRows

\* The request has not inserted a row, and may still do so.
Unregistered(r) == pc[r] \in {"idle", "load", "sum", "insert"}

\* The inductive invariant behind SizeMatches, with UploadsApart: a document not yet
\* registered has no bytes, an upload about to write the size has written the bytes,
\* if they are still there, and where the two differ an upload is between its two
\* writes or was lost there.
SizeInductive ==
  /\ \A r \in Request :
       /\ Unregistered(r) => stored[r] = 0
       /\ pc[r] = "resize" => stored[call[r].doc] \in {0, call[r].size}
  /\ \A d \in Doc : Exists(d) /\ stored[d] > 0 =>
       meta[d].size = stored[d] \/ \E r \in Request : Unsized(r, d)

\* The inductive invariant behind TrailExplainsReview, with ReviewsApart: the reviews
\* of a document in the log have a last one, one not yet registered has none, a review
\* about to be audited is the one of its document, and where row and log differ a
\* review is not audited.
ReviewInductive ==
  /\ \A i \in 1..Len(audit) : pc[audit[i].by] # "idle"
  /\ \A r \in Request :
       /\ Unregistered(r) => Reviews(r) = {}
       /\ pc[r] = "audit" /\ call[r].op = "review" /\ Exists(call[r].doc)
            => meta[call[r].doc].review = call[r].verdict
  /\ \A d \in Doc :
       /\ Reviews(d) # {} => Max(Reviews(d)) \in Reviews(d)
       /\ Exists(d) =>
            meta[d].review = ReportedReview(d) \/ \E r \in Request : Unaudited(r, d)

\* The request deleted its document's row, and has not audited it.
Deleting(r) == pc[r] \in {"count", "reset", "audit"} /\ call[r].op = "remove"

\* The inductive invariant behind DeletedOnce: a document not yet registered has
\* no row and no removal, and of the removals that deleted a document's row and
\* have not audited it there is one, as long as the log has none.
DeletedOnceInductive ==
  /\ DeletedOnce
  /\ \A r \in Request :
       /\ Unregistered(r) =>
            /\ ~Exists(r)
            /\ Rows(r, "DOCUMENT_DELETED") = {}
            /\ \A q \in Request : Deleting(q) => call[q].doc # r
       /\ Deleting(r) =>
            /\ ~Exists(call[r].doc)
            /\ Rows(call[r].doc, "DOCUMENT_DELETED") = {}
            /\ \A q \in Request : Deleting(q) /\ call[q].doc = call[r].doc => q = r

\* A request that read a row still fits it: its document is registered, and as
\* long as it exists it is of the case, the task and the uploader that were read.
RowsFit ==
  \A r \in Request : row[r] # None =>
    /\ pc[r] \notin {"idle", "load"} /\ call[r].op # "register"
    /\ call[r].doc \in Request => ~Unregistered(call[r].doc)
    /\ Exists(call[r].doc) =>
         /\ meta[call[r].doc].case = row[r].case /\ meta[call[r].doc].task = row[r].task
         /\ meta[call[r].doc].uploader = row[r].uploader

\* Once the last document of a task is deleted the task is reset, or a removal
\* has yet to count or to reset, or was lost.
TaskFollows(t) ==
  /\ DocsOf(t) = {}
  /\ \E r \in Removals(t) : pc[r] \in {"count", "reset", "audit", "done"}
  => \/ taskStatus[t] = "pending"
     \/ \E r \in Removals(t) : pc[r] \in {"count", "reset", "lost"}

\* The inductive invariant behind LastRemovalResets.
ResetInductive == RowsFit /\ \A t \in Task : TaskFollows(t)

-----------------------------------------------------------------------------
(* The abstract specification.                                             *)

\* The tasks that a removed document was for: their removals read the row.
Emptied == {row[r].task : r \in {q \in Request : /\ call[q] # None /\ call[q].op = "remove"
                                                /\ row[q] # None /\ ~Exists(call[q].doc)}}
           \ {None}

Library == INSTANCE DocumentLibrary WITH held <- meta, emptied <- Emptied

\* The service implements DocumentLibrary: however many calls a handler makes, and
\* wherever it is lost, each of its steps is one whole operation that the library
\* allows at that moment, by someone who may do it, or changes nothing in it.
ImplementsLibrary == Library!Spec

\* What a request on its way to a write has checked and read still holds.
Secured(r) ==
  LET k == call[r] IN
  /\ pc[r] \in {"sum", "store", "resize"} /\ k.op = "saveUpload" /\ Exists(k.doc)
       => meta[k.doc].size = row[r].size
  /\ pc[r] \in {"sum", "insert"} /\ k.op = "register" => k.case \in readable[k.user]
  /\ pc[r] \in {"sum", "insert", "store", "resize"} => FileSizeOk(k.size)
  /\ pc[r] \in {"insert", "store", "resize"} => QuotaAllows(r)
  /\ pc[r] = "mark" => k.user \in hrAdmins
  /\ pc[r] \in {"erase", "delete"} => /\ k.user = row[r].uploader \/ k.user \in hrAdmins
                                     /\ row[r].case \in readable[k.user]

\* The inductive invariants behind ImplementsLibrary and QuotaRespected: requests can
\* rely on their checks (with QuotaApart), and a task about to be reset has no document
\* (with TasksApart).
ChecksHold == \A r \in Request : Secured(r)
NoneLeft   == \A r \in Request : pc[r] = "reset" => DocsOf(row[r].task) = {}

=============================================================================
