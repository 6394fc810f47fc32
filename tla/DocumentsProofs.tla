-------------------------- MODULE DocumentsProofs --------------------------
(***************************************************************************)
(* Proofs about module Documents, for any sets of cases, tasks, users and  *)
(* requests, any sizes, either kind of storage driver.                     *)
(***************************************************************************)
EXTENDS Documents, TLAPS

-----------------------------------------------------------------------------
(* Type correctness.                                                       *)

\* Which fields a call has, by its operation.
LEMMA CallFields ==
  ASSUME NEW k \in Calls
  PROVE  /\ k # None
         /\ k.op \in {"register", "saveUpload", "review", "remove"}
         /\ k.op = "register" => /\ k.user \in User /\ k.case \in Case
                                 /\ k.task \in Task \cup {None} /\ k.size \in Nat
         /\ k.op = "saveUpload" => k.doc \in Doc /\ k.size \in Nat
         /\ k.op = "review" => k.doc \in Doc /\ k.verdict \in ReviewStatus
         /\ k.op = "remove" => k.doc \in Doc
<1>1. k \in Call /\ k # None
  BY DocumentsAssumption
<1>2. CASE k \in [op : {"register"}, user : User, case : Case, task : Task \cup {None},
                  size : Nat \ {0}]
  BY <1>1, <1>2
<1>3. CASE k \in [op : {"saveUpload"}, doc : Doc, size : Nat]
  BY <1>1, <1>3
<1>4. CASE k \in [op : {"review"}, user : User, doc : Doc, verdict : ReviewStatus]
  BY <1>1, <1>4
<1>5. CASE k \in [op : {"remove"}, user : User, doc : Doc]
  BY <1>1, <1>5
<1>6. QED
  BY <1>1, <1>2, <1>3, <1>4, <1>5 DEF Call

\* The table of the step after the first reads.
LEMMA AfterLoadTable ==
  /\ AfterLoad["register"] = "sum" /\ AfterLoad["saveUpload"] = "sum"
  /\ AfterLoad["review"] = "mark" /\ AfterLoad["remove"] = "erase"
BY DEF AfterLoad

LEMMA InitType == Init => TypeOK
<1> SUFFICES ASSUME Init PROVE TypeOK
  OBVIOUS
<1> USE DocumentsAssumption DEF Init
<1>1. meta \in [Doc -> Row \cup {None}]
  OBVIOUS
<1>2. stored \in [Doc -> Nat]
  <2>1. PICK uploaded \in SUBSET OldDoc :
          stored = [d \in Doc |-> IF d \in uploaded THEN oldRow[d].size ELSE 0]
    OBVIOUS
  <2>2. \A d \in uploaded : oldRow[d].size \in Nat
    BY <2>1 DEF Row
  <2>3. QED
    BY <2>1, <2>2
<1>3. /\ taskStatus \in [Task -> TaskStatus] /\ audit \in Seq(AuditRow)
      /\ pc \in [Request -> PC] /\ call \in [Request -> Calls \cup {None}]
      /\ row \in [Request -> Row \cup {None}]
  BY DEF TaskStatus, PC
<1>4. QED
  BY <1>1, <1>2, <1>3 DEF TypeOK, Running

LEMMA StepType == TypeOK /\ [Next]_vars => TypeOK'
<1> SUFFICES ASSUME TypeOK, [Next]_vars PROVE TypeOK'
  OBVIOUS
<1> USE DocumentsAssumption
<1>1. ASSUME NEW r \in Request, Arrive(r) PROVE TypeOK'
  BY <1>1 DEF Arrive, TypeOK, Goto, PC, tables, Running
<1>2. ASSUME NEW r \in Request, Load(r) PROVE TypeOK'
  <2>1. call[r] \in Calls
    BY <1>2 DEF Load, Goto, TypeOK
  <2>2. /\ call[r].op \in {"register", "saveUpload", "review", "remove"}
        /\ call[r].op # "register" => meta[call[r].doc] \in Row /\ meta[call[r].doc] # None
    BY <1>2, <2>1, CallFields DEF Load, Allowed, Exists, TypeOK
  <2>3. pc[r] = "load" /\ pc' = [pc EXCEPT ![r] = AfterLoad[call[r].op]]
    BY <1>2 DEF Load, Goto
  <2>4. row' \in [Request -> Row \cup {None}] /\ (call[r].op # "register" => row'[r] # None)
    BY <1>2, <2>2 DEF Load, TypeOK
  <2>5. \A q \in Request \ {r} : row'[q] = row[q] /\ pc'[q] = pc[q]
    BY <1>2, <2>3 DEF Load, TypeOK
  <2>6. /\ pc' \in [Request -> PC] /\ pc'[r] \in {"sum", "mark", "erase"}
        /\ pc'[r] = "sum" => call[r].op \in {"register", "saveUpload"}
        /\ pc'[r] = "mark" => call[r].op = "review"
        /\ pc'[r] = "erase" => call[r].op = "remove"
    BY <2>2, <2>3, AfterLoadTable DEF TypeOK, PC
  <2>7. UNCHANGED <<tables, call>>
    BY <1>2 DEF Load
  <2>8. QED
    BY <2>1, <2>4, <2>5, <2>6, <2>7 DEF TypeOK, tables, Running
<1>3. ASSUME NEW r \in Request, Refuse(r) \/ RefuseQuota(r) \/ RowGone(r) \/ Lose(r)
      PROVE  TypeOK'
  <2>1. /\ pc' \in [Request -> PC]
        /\ pc[r] # "idle" /\ pc'[r] \in {"refused", "failed", "lost"}
        /\ \A q \in Request \ {r} : pc'[q] = pc[q]
    BY <1>3 DEF Refuse, RefuseQuota, RowGone, Lose, Running, Goto, TypeOK, PC
  <2>2. UNCHANGED <<tables, call, row>>
    BY <1>3 DEF Refuse, RefuseQuota, RowGone, Lose
  <2>3. QED
    BY <2>1, <2>2 DEF TypeOK, tables, Running
<1>4. ASSUME NEW r \in Request, Sum(r) PROVE TypeOK'
  BY <1>4 DEF Sum, Goto, TypeOK, PC, tables, Running
<1>5. ASSUME NEW r \in Request, Insert(r) PROVE TypeOK'
  <2>1. call[r] \in Calls /\ call[r].op = "register" /\ r \in Doc
    BY <1>5 DEF Insert, Goto, TypeOK, Doc
  <2>2. [case |-> call[r].case, task |-> call[r].task, size |-> call[r].size,
         uploader |-> call[r].user, review |-> "pending"] \in Row
    BY <2>1, CallFields DEF Row, ReviewStatus
  <2>3. meta' \in [Doc -> Row \cup {None}]
    BY <1>5, <2>1, <2>2 DEF Insert, TypeOK
  <2>4. QED
    BY <1>5, <2>1, <2>3 DEF Insert, Goto, TypeOK, PC, Running
<1>6. ASSUME NEW r \in Request, Store(r) PROVE TypeOK'
  <2>1. call[r] \in Calls /\ call[r].op = "saveUpload"
    BY <1>6 DEF Store, Goto, TypeOK
  <2>2. stored' \in [Doc -> Nat]
    BY <1>6, <2>1, CallFields DEF Store, TypeOK
  <2>3. QED
    BY <1>6, <2>2 DEF Store, Goto, TypeOK, PC, Running
<1>7. ASSUME NEW r \in Request, Resize(r) \/ Mark(r) PROVE TypeOK'
  <2>1. call[r] \in Calls /\ call[r].op \in {"saveUpload", "review"} /\ Exists(call[r].doc)
    BY <1>7 DEF Resize, Mark, Goto, TypeOK
  <2>2. call[r].doc \in Doc /\ meta[call[r].doc] \in Row
    BY <2>1, CallFields DEF Exists, TypeOK
  <2>3. meta' \in [Doc -> Row \cup {None}]
    <3>1. CASE Resize(r)
      <4>1. call[r].size \in Nat
        BY <2>1, <3>1, CallFields DEF Resize, Goto, TypeOK
      <4>2. [meta[call[r].doc] EXCEPT !.size = call[r].size] \in Row
        BY <2>2, <4>1 DEF Row
      <4>3. QED
        BY <2>2, <3>1, <4>2 DEF Resize, TypeOK
    <3>2. CASE Mark(r)
      <4>1. call[r].verdict \in ReviewStatus
        BY <2>1, <3>2, CallFields DEF Mark, Goto, TypeOK
      <4>2. [meta[call[r].doc] EXCEPT !.review = call[r].verdict] \in Row
        BY <2>2, <4>1 DEF Row
      <4>3. QED
        BY <2>2, <3>2, <4>2 DEF Mark, TypeOK
    <3>3. QED
      BY <1>7, <3>1, <3>2
  <2>4. UNCHANGED <<cloud, stored, taskStatus, audit, call, row>>
    BY <1>7 DEF Resize, Mark
  <2>5. \/ Goto(r, "resize", "done")
        \/ Goto(r, "mark", "audit") /\ call[r].op = "review"
    BY <1>7 DEF Resize, Mark, Goto, TypeOK
  <2>6. QED
    BY <2>3, <2>4, <2>5 DEF Goto, TypeOK, PC, Running
<1>8. ASSUME NEW r \in Request, Erase(r) \/ EraseFails(r) PROVE TypeOK'
  <2>1. stored' \in [Doc -> Nat]
    <3>1. CASE Erase(r)
      BY <3>1 DEF Erase, TypeOK
    <3>2. CASE EraseFails(r)
      BY <3>2 DEF EraseFails, TypeOK, tables
    <3>3. QED
      BY <1>8, <3>1, <3>2
  <2>2. QED
    BY <1>8, <2>1 DEF Erase, EraseFails, Goto, TypeOK, PC, tables, Running
<1>9. ASSUME NEW r \in Request, Delete(r) PROVE TypeOK'
  <2>1. meta' \in [Doc -> Row \cup {None}]
    BY <1>9 DEF Delete, TypeOK
  <2>2. QED
    BY <1>9, <2>1 DEF Delete, Goto, TypeOK, PC, Running
<1>10. ASSUME NEW r \in Request, Count(r) PROVE TypeOK'
  BY <1>10 DEF Count, Goto, TypeOK, PC, tables, Running
<1>11. ASSUME NEW r \in Request, ResetTask(r) PROVE TypeOK'
  BY <1>11 DEF ResetTask, Goto, TypeOK, PC, TaskStatus, Running
<1>12. ASSUME NEW r \in Request, AppendAudit(r) PROVE TypeOK'
  <2>1. call[r] \in Calls /\ call[r].op \in {"register", "review", "remove"} /\ r \in Doc
    BY <1>12, CallFields DEF AppendAudit, Goto, TypeOK, Doc
  <2>2. call[r].op \in DOMAIN AuditAction
    BY <2>1 DEF AuditAction
  <2>3. [by |-> r, action |-> AuditAction[call[r].op],
         doc |-> IF call[r].op = "register" THEN r ELSE call[r].doc] \in AuditRow
    BY <2>1, <2>2, CallFields DEF AuditRow
  <2>4. audit' \in Seq(AuditRow)
    BY <1>12, <2>3 DEF AppendAudit, TypeOK
  <2>5. QED
    BY <1>12, <2>4 DEF AppendAudit, Goto, TypeOK, PC, Running
<1>13. ASSUME NEW d \in Doc, Expire(d) \/ \E size \in PutSizes : PutObject(d, size)
       PROVE  TypeOK'
  <2>1. PICK size \in Nat : stored' = [stored EXCEPT ![d] = size]
    <3>1. CASE Expire(d)
      BY <3>1 DEF Expire
    <3>2. ASSUME NEW size \in PutSizes, PutObject(d, size)
          PROVE  size \in Nat /\ stored' = [stored EXCEPT ![d] = size]
      BY <3>2 DEF PutObject
    <3>3. QED
      BY <1>13, <3>1, <3>2
  <2>2. UNCHANGED <<cloud, meta, taskStatus, audit, pc, call, row>>
    BY <1>13 DEF Expire, PutObject
  <2>3. stored' \in [Doc -> Nat]
    BY <2>1 DEF TypeOK
  <2>4. QED
    BY <2>2, <2>3 DEF TypeOK, Running
<1>14. CASE UNCHANGED vars
  BY <1>14 DEF vars, TypeOK, Running
<1>15. QED
  BY <1>1, <1>2, <1>3, <1>4, <1>5, <1>6, <1>7, <1>8, <1>9, <1>10, <1>11, <1>12, <1>13, <1>14
     DEF Next, Step

\* Every variable keeps its type in every reachable state.
THEOREM TypeCorrect == Spec => []TypeOK
BY InitType, StepType, PTL DEF Spec

-----------------------------------------------------------------------------
(* What the steps do to the rows.                                          *)

\* The row stays of the case, the task and the uploader it is of.
Unmoved(d) == /\ meta'[d].case = meta[d].case /\ meta'[d].task = meta[d].task
              /\ meta'[d].uploader = meta[d].uploader

\* Changing the size or the review of a row leaves its document, its case, its task,
\* its uploader and every other row as they were.
LEMMA RowEdit ==
  ASSUME TypeOK, NEW r \in Request, Resize(r) \/ Mark(r)
  PROVE  \A d \in Doc : /\ Exists(d)' <=> Exists(d)
                        /\ Exists(d) => Unmoved(d)
<1>1. call[r] \in Calls /\ call[r].op \in {"saveUpload", "review"} /\ Exists(call[r].doc)
  BY DocumentsAssumption DEF Resize, Mark, Goto, TypeOK
<1>2. call[r].doc \in Doc /\ meta[call[r].doc] \in Row
  BY <1>1, CallFields DEF Exists, TypeOK
<1>3. \A d \in Doc \ {call[r].doc} : meta'[d] = meta[d]
  BY DEF Resize, Mark, TypeOK
<1>4. meta'[call[r].doc] \in Row /\ Unmoved(call[r].doc)
  <2>1. CASE Resize(r)
    <3>1. call[r].size \in Nat
      BY <1>1, <2>1, CallFields DEF Resize, Goto, TypeOK
    <3>2. meta'[call[r].doc] = [meta[call[r].doc] EXCEPT !.size = call[r].size]
      BY <1>2, <2>1 DEF Resize, TypeOK
    <3>3. QED
      BY <1>2, <3>1, <3>2 DEF Row, Unmoved
  <2>2. CASE Mark(r)
    <3>1. call[r].verdict \in ReviewStatus
      BY <1>1, <2>2, CallFields DEF Mark, Goto, TypeOK
    <3>2. meta'[call[r].doc] = [meta[call[r].doc] EXCEPT !.review = call[r].verdict]
      BY <1>2, <2>2 DEF Mark, TypeOK
    <3>3. QED
      BY <1>2, <3>1, <3>2 DEF Row, Unmoved
  <2>3. QED
    BY <2>1, <2>2
<1>5. QED
  BY <1>1, <1>3, <1>4, DocumentsAssumption DEF Exists, Unmoved

\* A row appended to the log is the only one that becomes new in it.
LEMMA RowsAppend ==
  ASSUME TypeOK, NEW x \in AuditRow, audit' = Append(audit, x), NEW d, NEW a
  PROVE  Rows(d, a)' = Rows(d, a) \cup
           (IF x.doc = d /\ x.action = a THEN {Len(audit) + 1} ELSE {})
<1>1. audit \in Seq(AuditRow) /\ Len(audit) \in Nat
  BY DEF TypeOK
<1>2. /\ Len(audit') = Len(audit) + 1
      /\ \A i \in 1..Len(audit) : audit'[i] = audit[i]
      /\ audit'[Len(audit) + 1] = x
  BY <1>1
<1>3. 1..(Len(audit) + 1) = (1..Len(audit)) \cup {Len(audit) + 1}
  BY <1>1
<1>4. QED
  BY <1>2, <1>3 DEF Rows

LEMMA DeletionsAppend ==
  ASSUME TypeOK, NEW x \in AuditRow, audit' = Append(audit, x), NEW d
  PROVE  Rows(d, "DOCUMENT_DELETED")' = Rows(d, "DOCUMENT_DELETED") \cup
           (IF x.doc = d /\ x.action = "DOCUMENT_DELETED" THEN {Len(audit) + 1} ELSE {})
BY RowsAppend

-----------------------------------------------------------------------------
(* A document is deleted once.                                             *)

\* Steps that neither delete nor register a document, nor audit.
LEMMA DeletedOnceQuiet ==
  ASSUME DeletedOnceInductive,
         UNCHANGED audit,
         \A d \in Doc : Exists(d)' <=> Exists(d),
         \A q \in Request : Unregistered(q)' => Unregistered(q),
         \A q \in Request : Deleting(q)' => Deleting(q) /\ call'[q] = call[q],
         \A q \in Request : Deleting(q) => call[q].doc \in Doc
  PROVE  DeletedOnceInductive'
<1>1. \A d, a : Rows(d, a)' = Rows(d, a)
  BY DEF Rows
<1>2. DeletedOnce'
  BY <1>1 DEF DeletedOnceInductive, DeletedOnce
<1>3. \A r \in Request : Unregistered(r)' =>
            /\ ~Exists(r)'
            /\ Rows(r, "DOCUMENT_DELETED")' = {}
            /\ \A q \in Request : Deleting(q)' => call'[q].doc # r
  BY <1>1 DEF DeletedOnceInductive, Doc
<1>4. \A r \in Request : Deleting(r)' =>
            /\ ~Exists(call[r].doc)'
            /\ Rows(call[r].doc, "DOCUMENT_DELETED")' = {}
            /\ \A q \in Request : Deleting(q)' /\ call'[q].doc = call'[r].doc => q = r
  BY <1>1 DEF DeletedOnceInductive
<1>5. QED
  BY <1>2, <1>3, <1>4 DEF DeletedOnceInductive

LEMMA DeletedOnceStep == TypeOK /\ DeletedOnceInductive /\ [Next]_vars => DeletedOnceInductive'
<1> SUFFICES ASSUME TypeOK, DeletedOnceInductive, [Next]_vars PROVE DeletedOnceInductive'
  OBVIOUS
<1> USE DocumentsAssumption
<1>0. /\ \A q \in Request : pc[q] # "idle" => call[q] \in Calls
      /\ \A q \in Request : Deleting(q) => call[q].doc \in Doc
  BY CallFields DEF TypeOK, Deleting
<1>1. ASSUME NEW r \in Request,
             Arrive(r) \/ Load(r) \/ Refuse(r) \/ Sum(r) \/ RefuseQuota(r) \/ Store(r)
             \/ Erase(r) \/ EraseFails(r) \/ Count(r) \/ ResetTask(r) \/ RowGone(r) \/ Lose(r)
      PROVE  DeletedOnceInductive'
  <2>1. UNCHANGED <<meta, audit>>
    BY <1>1 DEF Arrive, Load, Refuse, Sum, RefuseQuota, Store, Erase, EraseFails, Count,
                ResetTask, RowGone, Lose, tables
  <2>2. \A q \in Request \ {r} : pc'[q] = pc[q] /\ call'[q] = call[q]
    BY <1>1 DEF Arrive, Load, Refuse, Sum, RefuseQuota, Store, Erase, EraseFails, Count,
                ResetTask, RowGone, Lose, Goto, TypeOK
  <2>3. Unregistered(r)' => Unregistered(r)
    <3>1. CASE Arrive(r)
      BY <3>1 DEF Arrive, Goto, Unregistered
    <3>2. CASE Load(r)
      BY <3>2 DEF Load, Goto, Unregistered
    <3>3. CASE Sum(r)
      BY <3>3 DEF Sum, Goto, Unregistered
    <3>4. CASE Refuse(r) \/ RefuseQuota(r) \/ Store(r) \/ Erase(r) \/ EraseFails(r)
               \/ Count(r) \/ ResetTask(r) \/ RowGone(r) \/ Lose(r)
      <4>1. pc'[r] \in {"refused", "resize", "delete", "reset", "audit", "failed", "lost"}
        BY <3>4 DEF Refuse, RefuseQuota, Store, Erase, EraseFails, Count, ResetTask, RowGone,
                    Lose, Goto, TypeOK
      <4>2. QED
        BY <4>1 DEF Unregistered
    <3>5. QED
      BY <1>1, <3>1, <3>2, <3>3, <3>4
  <2>4. Deleting(r)' => Deleting(r) /\ call'[r] = call[r]
    <3>1. CASE Arrive(r) \/ Refuse(r) \/ Sum(r) \/ RefuseQuota(r) \/ Store(r)
               \/ Erase(r) \/ EraseFails(r) \/ RowGone(r) \/ Lose(r)
      <4>1. pc'[r] \notin {"count", "reset", "audit"}
        BY <3>1 DEF Arrive, Refuse, Sum, RefuseQuota, Store, Erase, EraseFails, RowGone, Lose,
                    Goto, TypeOK
      <4>2. QED
        BY <4>1 DEF Deleting
    <3>2. CASE Load(r)
      <4>1. call[r].op \in {"register", "saveUpload", "review", "remove"}
        BY <1>0, <3>2, CallFields DEF Load, Goto
      <4>2. pc'[r] \in {"sum", "mark", "erase"}
        BY <3>2, <4>1, AfterLoadTable DEF Load, Goto, TypeOK
      <4>3. QED
        BY <4>2 DEF Deleting
    <3>3. CASE Count(r) \/ ResetTask(r)
      BY <3>3 DEF Count, ResetTask, Goto, Deleting
    <3>4. QED
      BY <1>1, <3>1, <3>2, <3>3
  <2>5. \A q \in Request \ {r} : /\ Unregistered(q)' => Unregistered(q)
                                 /\ Deleting(q)' => Deleting(q)
    BY <2>2 DEF Unregistered, Deleting
  <2>6. \A d \in Doc : Exists(d)' <=> Exists(d)
    BY <2>1 DEF Exists
  <2>7. QED
    BY <1>0, <2>1, <2>2, <2>3, <2>4, <2>5, <2>6, DeletedOnceQuiet
<1>2. ASSUME NEW r \in Request, Resize(r) \/ Mark(r) PROVE DeletedOnceInductive'
  <2>1. UNCHANGED <<audit, call>>
    BY <1>2 DEF Resize, Mark
  <2>2. /\ \A q \in Request \ {r} : pc'[q] = pc[q]
        /\ pc'[r] \in {"done", "audit"}
        /\ pc'[r] = "audit" => call[r].op # "remove"
    BY <1>2 DEF Resize, Mark, Goto, TypeOK
  <2>3. \A q \in Request : /\ Unregistered(q)' => Unregistered(q)
                           /\ Deleting(q)' => Deleting(q)
    BY <2>1, <2>2 DEF Unregistered, Deleting
  <2>4. QED
    BY <1>0, <1>2, <2>1, <2>3, RowEdit, DeletedOnceQuiet
<1>3. ASSUME NEW r \in Request, Insert(r) PROVE DeletedOnceInductive'
  <2>1. /\ pc[r] = "insert" /\ call[r].op = "register" /\ Unregistered(r)
        /\ pc' = [pc EXCEPT ![r] = "audit"] /\ UNCHANGED <<audit, call>>
    BY <1>3 DEF Insert, Goto, TypeOK, Unregistered
  <2>2. \A d \in Doc \ {r} : meta'[d] = meta[d]
    BY <1>3 DEF Insert, TypeOK
  <2>3. /\ \A q \in Request : Unregistered(q)' => Unregistered(q) /\ q # r
        /\ \A q \in Request : Deleting(q)' => Deleting(q) /\ q # r
    BY <2>1 DEF Unregistered, Deleting, TypeOK
  <2>4. \A d, a : Rows(d, a)' = Rows(d, a)
    BY <2>1 DEF Rows
  <2>5. Rows(r, "DOCUMENT_DELETED") = {} /\ \A q \in Request : Deleting(q) => call[q].doc # r
    BY <2>1 DEF DeletedOnceInductive
  <2>6. \A d \in Doc \ {r} : Exists(d)' <=> Exists(d)
    BY <2>2 DEF Exists
  <2>7. DeletedOnce'
    BY <2>4, <2>5, <2>6 DEF DeletedOnceInductive, DeletedOnce
  <2>8. \A q \in Request : Unregistered(q)' =>
            /\ ~Exists(q)'
            /\ Rows(q, "DOCUMENT_DELETED")' = {}
            /\ \A p \in Request : Deleting(p)' => call'[p].doc # q
    BY <2>1, <2>3, <2>4, <2>6 DEF DeletedOnceInductive, Doc
  <2>9. \A q \in Request : Deleting(q)' =>
            /\ ~Exists(call[q].doc)'
            /\ Rows(call[q].doc, "DOCUMENT_DELETED")' = {}
            /\ \A p \in Request : Deleting(p)' /\ call'[p].doc = call'[q].doc => p = q
    BY <1>0, <2>1, <2>3, <2>4, <2>5, <2>6 DEF DeletedOnceInductive
  <2>10. QED
    BY <2>1, <2>7, <2>8, <2>9 DEF DeletedOnceInductive
<1>4. ASSUME NEW r \in Request, Delete(r) PROVE DeletedOnceInductive'
  <2> DEFINE doc == call[r].doc
  <2>1. /\ pc[r] = "delete" /\ call[r].op = "remove" /\ Exists(doc)
        /\ pc' = [pc EXCEPT ![r] = pc'[r]] /\ pc'[r] \in {"count", "audit"}
        /\ UNCHANGED <<audit, call>>
    BY <1>4 DEF Delete, Goto, TypeOK
  <2>2. doc \in Doc
    BY <1>0, <2>1, CallFields
  <2>3. /\ ~Exists(doc)'
        /\ \A d \in Doc : Exists(d)' => Exists(d)
    BY <1>4, <2>2 DEF Delete, TypeOK, Exists
  <2>4. Rows(doc, "DOCUMENT_DELETED") = {}
    BY <2>1, <2>2 DEF DeletedOnceInductive, DeletedOnce
  <2>5. \A q \in Request : Deleting(q) => call[q].doc # doc
    BY <2>1 DEF DeletedOnceInductive
  <2>6. /\ \A q \in Request : Unregistered(q)' => Unregistered(q) /\ q # doc
        /\ \A q \in Request : Deleting(q)' => Deleting(q) \/ q = r
    <3>1. \A q \in Request \ {r} : pc'[q] = pc[q]
      BY <2>1 DEF TypeOK
    <3>2. \A q \in Request : Unregistered(q) => q # doc
      BY <2>1 DEF DeletedOnceInductive
    <3>3. QED
      BY <2>1, <3>1, <3>2 DEF Unregistered, Deleting
  <2>7. \A d, a : Rows(d, a)' = Rows(d, a)
    BY <2>1 DEF Rows
  <2>8. DeletedOnce'
    BY <2>3, <2>7 DEF DeletedOnceInductive, DeletedOnce
  <2>9. \A q \in Request : Unregistered(q)' =>
            /\ ~Exists(q)'
            /\ Rows(q, "DOCUMENT_DELETED")' = {}
            /\ \A p \in Request : Deleting(p)' => call'[p].doc # q
    BY <2>1, <2>3, <2>6, <2>7 DEF DeletedOnceInductive, Doc
  <2>10. \A q \in Request : Deleting(q)' =>
            /\ ~Exists(call[q].doc)'
            /\ Rows(call[q].doc, "DOCUMENT_DELETED")' = {}
            /\ \A p \in Request : Deleting(p)' /\ call'[p].doc = call'[q].doc => p = q
    <3> SUFFICES ASSUME NEW q \in Request, Deleting(q)'
                 PROVE  /\ ~Exists(call[q].doc)'
                        /\ Rows(call[q].doc, "DOCUMENT_DELETED")' = {}
                        /\ \A p \in Request : Deleting(p)' /\ call'[p].doc = call'[q].doc => p = q
      OBVIOUS
    <3>1. CASE q = r
      BY <2>1, <2>3, <2>4, <2>5, <2>6, <2>7, <3>1
    <3>2. CASE Deleting(q)
      BY <1>0, <2>1, <2>3, <2>5, <2>6, <2>7, <3>2 DEF DeletedOnceInductive
    <3>3. QED
      BY <2>6, <3>1, <3>2
  <2>11. QED
    BY <2>1, <2>8, <2>9, <2>10 DEF DeletedOnceInductive
<1>5. ASSUME NEW r \in Request, AppendAudit(r) PROVE DeletedOnceInductive'
  <2> DEFINE doc == IF call[r].op = "register" THEN r ELSE call[r].doc
             x == [by |-> r, action |-> AuditAction[call[r].op], doc |-> doc]
  <2>1. /\ pc[r] = "audit" /\ pc' = [pc EXCEPT ![r] = "done"]
        /\ audit' = Append(audit, x) /\ UNCHANGED <<meta, call>>
    BY <1>5 DEF AppendAudit, Goto
  <2>2. call[r] \in Calls /\ call[r].op \in {"register", "review", "remove"} /\ doc \in Doc
    BY <1>0, <2>1, CallFields DEF TypeOK, Doc
  <2>3. /\ x \in AuditRow
        /\ x.doc = doc /\ (x.action = "DOCUMENT_DELETED" <=> call[r].op = "remove")
    BY <2>2 DEF AuditRow, AuditAction
  <2>4. /\ \A q \in Request : Unregistered(q)' => Unregistered(q) /\ q # r
        /\ \A q \in Request : Deleting(q)' => Deleting(q) /\ q # r
    BY <2>1 DEF Unregistered, Deleting, TypeOK
  <2>5. \A d : Exists(d)' <=> Exists(d)
    BY <2>1 DEF Exists
  <2>6. CASE call[r].op # "remove"
    <3>1. \A d : Rows(d, "DOCUMENT_DELETED")' = Rows(d, "DOCUMENT_DELETED")
      BY <2>1, <2>3, <2>6, DeletionsAppend
    <3>2. DeletedOnce'
      BY <2>5, <3>1 DEF DeletedOnceInductive, DeletedOnce
    <3>3. QED
      BY <2>1, <2>4, <2>5, <3>1, <3>2 DEF DeletedOnceInductive
  <2>7. CASE call[r].op = "remove"
    <3>1. Deleting(r) /\ doc = call[r].doc
      BY <2>1, <2>7 DEF Deleting
    <3>2. /\ ~Exists(doc) /\ Rows(doc, "DOCUMENT_DELETED") = {}
          /\ \A q \in Request : Deleting(q) /\ call[q].doc = doc => q = r
          /\ \A q \in Request : Unregistered(q) => q # doc
      BY <3>1 DEF DeletedOnceInductive
    <3>3. ASSUME NEW d, d = doc PROVE Rows(d, "DOCUMENT_DELETED")' = {Len(audit) + 1}
      BY <2>1, <2>3, <2>7, <3>2, <3>3, DeletionsAppend
    <3>4. ASSUME NEW d, d # doc
          PROVE  Rows(d, "DOCUMENT_DELETED")' = Rows(d, "DOCUMENT_DELETED")
      <4> HIDE DEF doc, x
      <4>1. Rows(d, "DOCUMENT_DELETED")' = Rows(d, "DOCUMENT_DELETED") \cup {}
        BY <2>1, <2>3, <3>4, DeletionsAppend
      <4>2. QED
        BY <4>1
    <3>5. DeletedOnce'
      <4> SUFFICES ASSUME NEW d \in Doc
                   PROVE  /\ \A i, j \in Rows(d, "DOCUMENT_DELETED")' : i = j
                          /\ Rows(d, "DOCUMENT_DELETED")' # {} => ~Exists(d)'
        BY DEF DeletedOnce
      <4>1. CASE d = doc
        <5>1. Rows(d, "DOCUMENT_DELETED")' = {Len(audit) + 1} /\ ~Exists(d)'
          BY <2>5, <3>2, <3>3, <4>1
        <5>2. QED
          BY <5>1
      <4>2. CASE d # doc
        BY <2>5, <3>4, <4>2 DEF DeletedOnceInductive, DeletedOnce
      <4>3. QED
        BY <4>1, <4>2
    <3>6. QED
      BY <2>1, <2>4, <2>5, <3>2, <3>4, <3>5 DEF DeletedOnceInductive
  <2>8. QED
    BY <2>6, <2>7
<1>6. ASSUME NEW d \in Doc, Expire(d) \/ \E size \in PutSizes : PutObject(d, size)
      PROVE  DeletedOnceInductive'
  <2>1. UNCHANGED <<meta, audit, pc, call>>
    BY <1>6 DEF Expire, PutObject
  <2>2. QED
    BY <1>0, <2>1, DeletedOnceQuiet DEF Exists, Unregistered, Deleting
<1>7. CASE UNCHANGED vars
  BY <1>0, <1>7, DeletedOnceQuiet DEF vars, Exists, Unregistered, Deleting
<1>8. QED
  BY <1>1, <1>2, <1>3, <1>4, <1>5, <1>6, <1>7 DEF Next, Step

LEMMA DeletedOnceInit == Init => DeletedOnceInductive
<1> SUFFICES ASSUME Init PROVE DeletedOnceInductive
  OBVIOUS
<1>1. \A d, a : Rows(d, a) = {}
  BY DEF Init, Rows
<1>2. \A r \in Request : ~Exists(r) /\ ~Deleting(r)
  BY DocumentsAssumption DEF Init, Exists, Deleting, Doc
<1>3. QED
  BY <1>1, <1>2 DEF DeletedOnceInductive, DeletedOnce

\* However uploads, reviews and removals overlap, a document is deleted at most
\* once by the audit log, and a deleted document never comes back.
THEOREM DeletionOnce == Spec => []DeletedOnce
<1>1. DeletedOnceInductive => DeletedOnce
  BY DEF DeletedOnceInductive
<1>2. QED
  BY <1>1, InitType, StepType, DeletedOnceInit, DeletedOnceStep, PTL DEF Spec

-----------------------------------------------------------------------------
(* No bytes without a row.                                                 *)

\* The driver is chosen once.
LEMMA DriverStays == [Next]_vars => UNCHANGED cloud
BY DEF Next, Step, vars, tables, Arrive, Load, Refuse, Sum, RefuseQuota, Insert, Store, Resize,
       Mark, Erase, EraseFails, Delete, Count, ResetTask, RowGone, AppendAudit, Lose, Expire,
       PutObject

\* On a disk that does not fail every step keeps the bytes covered by a row, if no
\* file is written to a document whose bytes are erased already.
LEMMA NoOrphanStep ==
  ASSUME ~cloud, ~DiskErrors, TypeOK, ErasesApart, NoOrphanInductive, [Next]_vars
  PROVE  NoOrphanInductive'
<1> USE DocumentsAssumption
<1>0. /\ \A q \in Request : pc[q] # "idle" => call[q] \in Calls
      /\ \A q \in Request : pc[q] \in {"sum", "store"} /\ call[q].op = "saveUpload"
           => call[q].doc \in Doc /\ Exists(call[q].doc)
      /\ \A q \in Request : pc[q] = "delete"
           => call[q].doc \in Doc /\ stored[call[q].doc] = 0
  BY CallFields DEF TypeOK, NoOrphanInductive
<1>1. ASSUME NEW r \in Request,
             \A q \in Request \ {r} : pc'[q] = pc[q] /\ call'[q] = call[q],
             pc'[r] \in {"sum", "store"} /\ call'[r].op = "saveUpload"
               => meta'[call'[r].doc] # None,
             pc'[r] = "delete" => stored'[call'[r].doc] = 0,
             \A q \in Request \ {r} : pc[q] \in {"sum", "store"} /\ call[q].op = "saveUpload"
               => meta'[call[q].doc] # None,
             \A q \in Request \ {r} : pc[q] = "delete" => stored'[call[q].doc] = 0,
             BytesHaveRows'
      PROVE  NoOrphanInductive'
  BY <1>1 DEF NoOrphanInductive, Exists
<1>2. ASSUME NEW r \in Request,
             Arrive(r) \/ Refuse(r) \/ RefuseQuota(r) \/ Sum(r) \/ Count(r) \/ ResetTask(r)
             \/ RowGone(r) \/ AppendAudit(r) \/ Lose(r)
      PROVE  NoOrphanInductive'
  <2>1. /\ UNCHANGED <<meta, stored>>
        /\ \A q \in Request \ {r} : pc'[q] = pc[q] /\ call'[q] = call[q]
    BY <1>2 DEF Arrive, Refuse, RefuseQuota, Sum, Count, ResetTask, RowGone, AppendAudit, Lose,
                Goto, TypeOK, tables
  <2>2. /\ pc'[r] # "delete"
        /\ pc'[r] \in {"sum", "store"} => pc[r] = "sum" /\ call'[r] = call[r]
    BY <1>2 DEF Arrive, Refuse, RefuseQuota, Sum, Count, ResetTask, RowGone, AppendAudit, Lose,
                Goto, TypeOK
  <2>3. BytesHaveRows'
    BY <2>1 DEF NoOrphanInductive, BytesHaveRows, Exists
  <2>4. QED
    BY <1>0, <1>1, <2>1, <2>2, <2>3 DEF Exists
<1>3. ASSUME NEW r \in Request, Load(r) PROVE NoOrphanInductive'
  <2>1. /\ UNCHANGED <<meta, stored, call>>
        /\ \A q \in Request \ {r} : pc'[q] = pc[q]
    BY <1>3 DEF Load, Goto, TypeOK, tables
  <2>2. call[r].op = "saveUpload" => Exists(call[r].doc)
    BY <1>3 DEF Load, Allowed
  <2>3. pc'[r] # "delete"
    <3>1. call[r].op \in {"register", "saveUpload", "review", "remove"}
      BY <1>0, <1>3, CallFields DEF Load, Goto
    <3>2. QED
      BY <1>3, <3>1, AfterLoadTable DEF Load, Goto, TypeOK
  <2>4. BytesHaveRows'
    BY <2>1 DEF NoOrphanInductive, BytesHaveRows, Exists
  <2>5. QED
    BY <1>0, <1>1, <2>1, <2>2, <2>3, <2>4 DEF Exists
<1>4. ASSUME NEW r \in Request, Insert(r) PROVE NoOrphanInductive'
  <2>1. /\ pc'[r] = "audit" /\ UNCHANGED <<stored, call>>
        /\ \A q \in Request \ {r} : pc'[q] = pc[q]
        /\ \A d \in Doc \ {r} : meta'[d] = meta[d]
    BY <1>4 DEF Insert, Goto, TypeOK
  <2>2. meta'[r] # None
    <3>1. call[r] \in Calls /\ call[r].op = "register" /\ r \in Doc
      BY <1>0, <1>4 DEF Insert, Goto, TypeOK, Doc
    <3>2. meta'[r] \in Row
      BY <1>4, <3>1, CallFields DEF Insert, TypeOK, Row, ReviewStatus
    <3>3. QED
      BY <3>2
  <2>3. BytesHaveRows'
    BY <2>1, <2>2 DEF NoOrphanInductive, BytesHaveRows, Exists
  <2>4. \A q \in Request \ {r} : pc[q] \in {"sum", "store"} /\ call[q].op = "saveUpload"
               => meta'[call[q].doc] # None
    BY <1>0, <2>1, <2>2 DEF Exists
  <2>5. QED
    BY <1>0, <1>1, <2>1, <2>3, <2>4
<1>5. ASSUME NEW r \in Request, Resize(r) \/ Mark(r) PROVE NoOrphanInductive'
  <2>1. /\ pc'[r] \in {"done", "audit"} /\ UNCHANGED <<stored, call>>
        /\ \A q \in Request \ {r} : pc'[q] = pc[q]
    BY <1>5 DEF Resize, Mark, Goto, TypeOK
  <2>2. \A d \in Doc : Exists(d)' <=> Exists(d)
    BY <1>5, RowEdit
  <2>3. BytesHaveRows'
    BY <2>1, <2>2 DEF NoOrphanInductive, BytesHaveRows
  <2>4. QED
    BY <1>0, <1>1, <2>1, <2>2, <2>3 DEF Exists
<1>6. ASSUME NEW r \in Request, Store(r) PROVE NoOrphanInductive'
  <2>1. /\ pc[r] = "store" /\ pc'[r] = "resize" /\ UNCHANGED <<meta, call>>
        /\ \A q \in Request \ {r} : pc'[q] = pc[q]
        /\ call[r].op = "saveUpload" /\ Exists(call[r].doc)
    BY <1>0, <1>6 DEF Store, Goto, TypeOK
  <2>2. \A d \in Doc \ {call[r].doc} : stored'[d] = stored[d]
    BY <1>6 DEF Store, TypeOK
  <2>3. BytesHaveRows'
    BY <2>1, <2>2 DEF NoOrphanInductive, BytesHaveRows, Exists
  <2>4. \A q \in Request \ {r} : pc[q] = "delete" => stored'[call[q].doc] = 0
    BY <1>0, <2>1, <2>2 DEF ErasesApart
  <2>5. QED
    BY <1>0, <1>1, <2>1, <2>3, <2>4 DEF Exists
<1>7. ASSUME NEW r \in Request, Erase(r) PROVE NoOrphanInductive'
  <2>1. /\ pc'[r] = "delete" /\ UNCHANGED <<meta, call>>
        /\ \A q \in Request \ {r} : pc'[q] = pc[q]
    BY <1>7 DEF Erase, Goto, TypeOK
  <2>2. call[r].doc \in Doc
    BY <1>0, <1>7, CallFields DEF Erase, Goto, TypeOK
  <2>3. /\ stored'[call[r].doc] = 0
        /\ \A d \in Doc : stored'[d] \in {0, stored[d]}
    BY <1>7, <2>2 DEF Erase, TypeOK
  <2>4. BytesHaveRows'
    BY <2>1, <2>3 DEF NoOrphanInductive, BytesHaveRows, Exists, TypeOK
  <2>5. \A q \in Request \ {r} : pc[q] = "delete" => stored'[call[q].doc] = 0
    BY <1>0, <2>3
  <2>6. QED
    BY <1>0, <1>1, <2>1, <2>3, <2>4, <2>5 DEF Exists
<1>8. ASSUME NEW r \in Request, Delete(r) PROVE NoOrphanInductive'
  <2>1. /\ pc[r] = "delete" /\ pc'[r] \in {"count", "audit"} /\ UNCHANGED <<stored, call>>
        /\ \A q \in Request \ {r} : pc'[q] = pc[q]
        /\ stored[call[r].doc] = 0
    BY <1>0, <1>8 DEF Delete, Goto, TypeOK
  <2>2. \A d \in Doc \ {call[r].doc} : meta'[d] = meta[d]
    BY <1>8 DEF Delete, TypeOK
  <2>3. BytesHaveRows'
    BY <2>1, <2>2 DEF NoOrphanInductive, BytesHaveRows, Exists
  <2>4. \A q \in Request \ {r} : pc[q] \in {"sum", "store"} /\ call[q].op = "saveUpload"
               => meta'[call[q].doc] # None
    BY <1>0, <2>1, <2>2 DEF ErasesApart, Exists
  <2>5. QED
    BY <1>0, <1>1, <2>1, <2>3, <2>4
<1>9. CASE UNCHANGED vars
  BY <1>9 DEF vars, NoOrphanInductive, BytesHaveRows, Exists
<1>10. QED
  BY <1>2, <1>3, <1>4, <1>5, <1>6, <1>7, <1>8, <1>9
     DEF Next, Step, EraseFails, PutObject, Expire

LEMMA NoOrphanInit == Init => NoOrphanInductive
<1> SUFFICES ASSUME Init PROVE NoOrphanInductive
  OBVIOUS
<1> USE DocumentsAssumption DEF Init
<1>1. PICK uploaded \in SUBSET OldDoc :
        stored = [d \in Doc |-> IF d \in uploaded THEN oldRow[d].size ELSE 0]
  OBVIOUS
<1>2. \A d \in OldDoc : d \in Doc /\ Exists(d)
  BY DEF Exists, Doc
<1>3. BytesHaveRows
  BY <1>1, <1>2 DEF BytesHaveRows
<1>4. QED
  BY <1>3 DEF NoOrphanInductive

\* On a local disk that does not fail, bytes always have their row, even when requests
\* are lost between their steps, unless an upload writes between the two steps of a
\* removal of the same document.
THEOREM NoOrphans == Spec /\ []ErasesApart => []NoOrphanObject
<1>1. CASE ~DiskErrors
  <2> DEFINE I == ~cloud => NoOrphanInductive
  <2>1. TypeOK /\ ErasesApart /\ I /\ [Next]_vars => I'
    BY <1>1, NoOrphanStep, DriverStays
  <2>2. Init => I
    BY NoOrphanInit
  <2>3. I => NoOrphanObject
    BY DEF NoOrphanInductive, NoOrphanObject
  <2>4. QED
    <3> HIDE DEF I
    <3>1. QED
      BY <2>1, <2>2, <2>3, InitType, StepType, PTL DEF Spec
<1>2. CASE DiskErrors
  <2>1. NoOrphanObject
    BY <1>2 DEF NoOrphanObject
  <2>2. QED
    BY <2>1, PTL
<1>3. QED
  BY <1>1, <1>2

-----------------------------------------------------------------------------
(* The last removal resets the task.                                       *)

LEMMA RowsFitStep ==
  ASSUME TypeOK, DeletedOnceInductive, RowsFit, [Next]_vars
  PROVE  RowsFit'
<1> USE DocumentsAssumption DEF Unmoved
<1> DEFINE Fits(m, n) == m.case = n.case /\ m.task = n.task /\ m.uploader = n.uploader
<1>0. /\ \A q \in Request : pc[q] # "idle" => call[q] \in Calls
      /\ \A q \in Request : row[q] # None => call[q].doc \in Doc
      /\ \A q \in Request : Unregistered(q) => ~Exists(q)
  BY CallFields DEF TypeOK, RowsFit, DeletedOnceInductive
<1>1. ASSUME NEW r \in Request,
             UNCHANGED row,
             \A q \in Request \ {r} : pc'[q] = pc[q] /\ call'[q] = call[q],
             pc[r] = "idle" \/ (call'[r] = call[r] /\ pc'[r] \notin {"idle", "load"}),
             Unregistered(r)' => Unregistered(r),
             \A q \in Request : row[q] # None /\ meta'[call[q].doc] # None
               => Exists(call[q].doc) /\ Unmoved(call[q].doc)
      PROVE  RowsFit'
  <2>1. \A q \in Request : Unregistered(q)' => Unregistered(q)
    BY <1>1 DEF Unregistered
  <2>2. row[r] # None => pc[r] # "idle"
    BY DEF RowsFit
  <2> SUFFICES ASSUME NEW q \in Request, row'[q] # None
               PROVE  /\ pc'[q] \notin {"idle", "load"} /\ call'[q].op # "register"
                      /\ call[q].doc \in Request => ~Unregistered(call[q].doc)'
                      /\ call'[q] = call[q]
                      /\ meta'[call[q].doc] # None => Fits(meta'[call[q].doc], row'[q])
    BY DEF RowsFit, Unregistered, Exists
  <2>3. /\ row[q] # None /\ row'[q] = row[q]
        /\ pc[q] \notin {"idle", "load"} /\ call[q].op # "register"
        /\ call[q].doc \in Request => ~Unregistered(call[q].doc)
        /\ Exists(call[q].doc) => Fits(meta[call[q].doc], row[q])
    BY <1>1 DEF RowsFit
  <2>4. call'[q] = call[q] /\ pc'[q] \notin {"idle", "load"}
    BY <1>1, <2>2, <2>3
  <2>5. QED
    BY <1>1, <2>1, <2>3, <2>4
<1>2. ASSUME NEW r \in Request,
             Arrive(r) \/ Refuse(r) \/ Sum(r) \/ RefuseQuota(r) \/ Store(r) \/ Erase(r)
             \/ EraseFails(r) \/ Count(r) \/ ResetTask(r) \/ RowGone(r) \/ AppendAudit(r) \/ Lose(r)
      PROVE  RowsFit'
  <2>1. /\ UNCHANGED <<meta, row>>
        /\ \A q \in Request \ {r} : pc'[q] = pc[q] /\ call'[q] = call[q]
    BY <1>2 DEF Arrive, Refuse, Sum, RefuseQuota, Store, Erase, EraseFails, Count, ResetTask,
                RowGone, AppendAudit, Lose, Goto, TypeOK, tables
  <2>2. pc[r] = "idle" \/ (call'[r] = call[r] /\ pc'[r] \notin {"idle", "load"})
    BY <1>2 DEF Arrive, Refuse, Sum, RefuseQuota, Store, Erase, EraseFails, Count, ResetTask,
                RowGone, AppendAudit, Lose, Goto, TypeOK, tables
  <2>3. Unregistered(r)' => Unregistered(r)
    BY <1>2 DEF Arrive, Refuse, Sum, RefuseQuota, Store, Erase, EraseFails, Count, ResetTask,
                RowGone, AppendAudit, Lose, Goto, TypeOK, Unregistered
  <2>4. QED
    BY <1>1, <2>1, <2>2, <2>3 DEF Exists
<1>3. ASSUME NEW r \in Request, Resize(r) \/ Mark(r) PROVE RowsFit'
  <2>1. /\ UNCHANGED <<row, call>> /\ pc'[r] \in {"done", "audit"}
        /\ \A q \in Request \ {r} : pc'[q] = pc[q]
    BY <1>3 DEF Resize, Mark, Goto, TypeOK
  <2>2. ~Unregistered(r)'
    BY <2>1 DEF Unregistered
  <2>3. \A q \in Request : row[q] # None /\ meta'[call[q].doc] # None
               => Exists(call[q].doc) /\ Unmoved(call[q].doc)
    BY <1>0, <1>3, <2>1, RowEdit DEF Exists
  <2>4. QED
    BY <1>1, <2>1, <2>2, <2>3
<1>4. ASSUME NEW r \in Request, Insert(r) PROVE RowsFit'
  <2>1. /\ UNCHANGED <<row, call>> /\ pc'[r] = "audit" /\ Unregistered(r)
        /\ \A q \in Request \ {r} : pc'[q] = pc[q]
        /\ \A d \in Doc \ {r} : meta'[d] = meta[d]
    BY <1>4 DEF Insert, Goto, TypeOK, Unregistered
  <2>2. ~Unregistered(r)'
    BY <2>1 DEF Unregistered
  <2>3. \A q \in Request : row[q] # None => call[q].doc \in Doc \ {r}
    BY <1>0, <2>1 DEF RowsFit
  <2>4. \A q \in Request : row[q] # None /\ meta'[call[q].doc] # None
               => Exists(call[q].doc) /\ Unmoved(call[q].doc)
    BY <2>1, <2>3 DEF Exists
  <2>5. QED
    BY <1>1, <2>1, <2>2, <2>4
<1>5. ASSUME NEW r \in Request, Delete(r) PROVE RowsFit'
  <2>1. /\ UNCHANGED <<row, call>> /\ pc'[r] \in {"count", "audit"}
        /\ \A q \in Request \ {r} : pc'[q] = pc[q]
    BY <1>5 DEF Delete, Goto, TypeOK
  <2>2. ~Unregistered(r)'
    BY <2>1 DEF Unregistered
  <2>3. \A d \in Doc : meta'[d] = meta[d] \/ meta'[d] = None
    BY <1>5 DEF Delete, TypeOK
  <2>4. \A q \in Request : row[q] # None /\ meta'[call[q].doc] # None
               => Exists(call[q].doc) /\ Unmoved(call[q].doc)
    BY <1>0, <2>1, <2>3 DEF Exists
  <2>5. QED
    BY <1>1, <2>1, <2>2, <2>4
<1>6. ASSUME NEW r \in Request, Load(r) PROVE RowsFit'
  <2>1. /\ pc[r] = "load" /\ pc'[r] \in {"sum", "mark", "erase"} /\ UNCHANGED <<meta, call>>
        /\ \A q \in Request \ {r} : pc'[q] = pc[q] /\ row'[q] = row[q]
        /\ call[r] \in Calls
    <3>1. call[r] \in Calls /\ call[r].op \in {"register", "saveUpload", "review", "remove"}
      BY <1>0, <1>6, CallFields DEF Load, Goto
    <3>2. QED
      BY <1>6, <3>1, AfterLoadTable DEF Load, Goto, TypeOK, tables
  <2>2. row[r] = None
    BY <2>1 DEF RowsFit
  <2>3. \A q \in Request : Unregistered(q)' => Unregistered(q)
    BY <2>1 DEF Unregistered
  <2>4. row'[r] # None => /\ call[r].op # "register" /\ Exists(call[r].doc)
                          /\ row'[r] = meta[call[r].doc]
    BY <1>6, <2>1, <2>2, CallFields DEF Load, TypeOK, Allowed
  <2>5. row'[r] # None => /\ pc'[r] \notin {"idle", "load"} /\ call[r].op # "register"
                          /\ call[r].doc \in Request => ~Unregistered(call[r].doc)'
                          /\ Fits(meta[call[r].doc], row'[r])
    BY <1>0, <2>1, <2>3, <2>4
  <2>6. \A q \in Request \ {r} : row'[q] # None =>
                          /\ pc'[q] \notin {"idle", "load"} /\ call[q].op # "register"
                          /\ call[q].doc \in Request => ~Unregistered(call[q].doc)'
                          /\ Exists(call[q].doc) => Fits(meta[call[q].doc], row'[q])
    BY <2>1, <2>3 DEF RowsFit
  <2>7. QED
    BY <2>1, <2>5, <2>6 DEF RowsFit, Exists, Unregistered
<1>7. ASSUME NEW d \in Doc, Expire(d) \/ \E size \in PutSizes : PutObject(d, size)
      PROVE  RowsFit'
  <2>1. UNCHANGED <<meta, pc, call, row>>
    BY <1>7 DEF Expire, PutObject
  <2>2. QED
    BY <2>1 DEF RowsFit, Unregistered, Exists
<1>8. CASE UNCHANGED vars
  BY <1>8 DEF vars, RowsFit, Unregistered, Exists
<1>9. QED
  BY <1>2, <1>3, <1>4, <1>5, <1>6, <1>7, <1>8 DEF Next, Step

\* Steps that leave the documents and the status of task t alone, or help it.
LEMMA TaskFollowsQuiet ==
  ASSUME NEW t \in Task, TaskFollows(t),
         DocsOf(t)' = {} => DocsOf(t) = {},
         taskStatus[t] = "pending" => taskStatus'[t] = "pending",
         \A q \in Request :
           /\ q \in Removals(t)' /\ pc'[q] \in {"count", "reset", "audit", "done"}
                => q \in Removals(t) /\ pc[q] \in {"count", "reset", "audit", "done"}
           /\ q \in Removals(t) /\ pc[q] \in {"count", "reset", "lost"}
                => q \in Removals(t)' /\ pc'[q] \in {"count", "reset", "lost"}
  PROVE  TaskFollows(t)'
BY DEF TaskFollows, Removals

LEMMA TaskFollowsStep ==
  ASSUME TypeOK, DeletedOnceInductive, RowsFit, [Next]_vars, NEW t \in Task, TaskFollows(t)
  PROVE  TaskFollows(t)'
<1> USE DocumentsAssumption
<1>0. /\ \A q \in Request : pc[q] # "idle" => call[q] \in Calls
      /\ \A q \in Request : q \in Removals(t) => pc[q] \notin {"idle", "load"}
  BY DEF TypeOK, Removals, RowsFit
<1>1. ASSUME NEW r \in Request, UNCHANGED <<call, row>>,
             \A q \in Request \ {r} : pc'[q] = pc[q],
             pc'[r] \in {"count", "reset", "audit", "done"} =>
               pc[r] \in {"count", "reset", "audit", "done"} \/ call[r].op # "remove",
             pc[r] \in {"count", "reset", "lost"} => pc'[r] \in {"count", "reset", "lost"},
             DocsOf(t)' = {} => DocsOf(t) = {},
             taskStatus[t] = "pending" => taskStatus'[t] = "pending"
      PROVE  TaskFollows(t)'
  <2>1. Removals(t)' = Removals(t)
    BY <1>1 DEF Removals
  <2>2. r \in Removals(t) => call[r].op = "remove"
    BY DEF Removals
  <2>3. QED
    BY <1>1, <2>1, <2>2, TaskFollowsQuiet
<1>2. ASSUME NEW r \in Request, Arrive(r) \/ Load(r) PROVE TaskFollows(t)'
  <2>1. /\ UNCHANGED <<meta, taskStatus>> /\ pc[r] \in {"idle", "load"}
        /\ \A q \in Request \ {r} : pc'[q] = pc[q] /\ call'[q] = call[q] /\ row'[q] = row[q]
    BY <1>2 DEF Arrive, Load, Goto, TypeOK, tables
  <2>2. r \notin Removals(t)
    BY <1>0, <2>1
  <2>3. pc'[r] \in {"load", "sum", "mark", "erase"}
    <3>1. CASE Arrive(r)
      BY <3>1 DEF Arrive, Goto, TypeOK
    <3>2. CASE Load(r)
      <4>1. call[r].op \in {"register", "saveUpload", "review", "remove"}
        BY <1>0, <3>2, CallFields DEF Load, Goto
      <4>2. QED
        BY <3>2, <4>1, AfterLoadTable DEF Load, Goto, TypeOK
    <3>3. QED
      BY <1>2, <3>1, <3>2
  <2>4. \A q \in Request \ {r} : q \in Removals(t)' <=> q \in Removals(t)
    BY <2>1 DEF Removals
  <2>5. DocsOf(t)' = DocsOf(t)
    BY <2>1 DEF DocsOf, Exists
  <2>6. QED
    BY <2>1, <2>2, <2>3, <2>4, <2>5, TaskFollowsQuiet
<1>3. ASSUME NEW r \in Request,
             Refuse(r) \/ Sum(r) \/ RefuseQuota(r) \/ Store(r) \/ Erase(r) \/ EraseFails(r)
             \/ RowGone(r) \/ AppendAudit(r) \/ Lose(r)
      PROVE  TaskFollows(t)'
  <2>1. /\ UNCHANGED <<meta, taskStatus, call, row>>
        /\ \A q \in Request \ {r} : pc'[q] = pc[q]
    BY <1>3 DEF Refuse, Sum, RefuseQuota, Store, Erase, EraseFails, RowGone, AppendAudit, Lose,
                Goto, TypeOK, tables
  <2>2. /\ pc'[r] \in {"count", "reset", "audit", "done"} => pc[r] = "audit"
        /\ pc[r] \in {"count", "reset", "lost"} => pc'[r] = "lost"
    BY <1>3 DEF Refuse, Sum, RefuseQuota, Store, Erase, EraseFails, RowGone, AppendAudit, Lose,
                Goto, TypeOK, Running
  <2>3. DocsOf(t)' = DocsOf(t)
    BY <2>1 DEF DocsOf, Exists
  <2>4. QED
    BY <1>1, <2>1, <2>2, <2>3
<1>4. ASSUME NEW r \in Request, Resize(r) \/ Mark(r) \/ Insert(r) PROVE TaskFollows(t)'
  <2>1. /\ UNCHANGED <<taskStatus, call, row>>
        /\ pc[r] \in {"resize", "mark", "insert"} /\ call[r].op # "remove"
        /\ \A q \in Request \ {r} : pc'[q] = pc[q]
    BY <1>4 DEF Resize, Mark, Insert, Goto, TypeOK
  <2>2. DocsOf(t) \subseteq DocsOf(t)'
    <3>1. CASE Resize(r) \/ Mark(r)
      BY <3>1, RowEdit DEF DocsOf, Exists, Unmoved
    <3>2. CASE Insert(r)
      <4>1. r \notin DocsOf(t)
        BY <1>0, <3>2 DEF Insert, Goto, Unregistered, DocsOf, DeletedOnceInductive
      <4>2. \A d \in Doc \ {r} : meta'[d] = meta[d]
        BY <3>2 DEF Insert, TypeOK
      <4>3. QED
        BY <4>1, <4>2 DEF DocsOf, Exists
    <3>3. QED
      BY <1>4, <3>1, <3>2
  <2>3. QED
    BY <1>1, <2>1, <2>2
<1>5. ASSUME NEW r \in Request, Delete(r) PROVE TaskFollows(t)'
  <2>1. /\ pc[r] = "delete" /\ pc' = [pc EXCEPT ![r] = IF row[r].task = None THEN "audit" ELSE "count"]
        /\ UNCHANGED <<taskStatus, call, row>> /\ Exists(call[r].doc)
        /\ call[r].op = "remove" /\ row[r] # None
    BY <1>5 DEF Delete, Goto, TypeOK, Running, PC
  <2>2. Removals(t)' = Removals(t) /\ \A q \in Request \ {r} : pc'[q] = pc[q]
    BY <2>1 DEF Removals, TypeOK
  <2>3. CASE row[r].task = t
    <3>1. r \in Removals(t)
      BY <2>1, <2>3, <1>0 DEF Removals
    <3>2. pc'[r] = "count"
      BY <2>1, <2>3 DEF TypeOK
    <3>3. QED
      BY <2>2, <3>1, <3>2 DEF TaskFollows
  <2>4. CASE row[r].task # t
    <3>1. meta[call[r].doc].task # t
      BY <2>1, <2>4 DEF RowsFit
    <3>2. \A d \in Doc \ {call[r].doc} : meta'[d] = meta[d]
      BY <1>5 DEF Delete, TypeOK
    <3>3. DocsOf(t) \subseteq DocsOf(t)'
      BY <3>1, <3>2 DEF DocsOf, Exists
    <3>4. r \notin Removals(t)
      BY <2>4 DEF Removals
    <3>5. QED
      BY <2>1, <2>2, <3>3, <3>4, TaskFollowsQuiet
  <2>5. QED
    BY <2>3, <2>4
<1>6. ASSUME NEW r \in Request, Count(r) PROVE TaskFollows(t)'
  <2>1. /\ pc[r] = "count" /\ UNCHANGED <<meta, taskStatus, call, row>>
        /\ pc' = [pc EXCEPT ![r] = IF DocsOf(row[r].task) = {} THEN "reset" ELSE "audit"]
    BY <1>6 DEF Count, Goto, tables
  <2>2. /\ Removals(t)' = Removals(t) /\ DocsOf(t)' = DocsOf(t)
        /\ \A q \in Request \ {r} : pc'[q] = pc[q]
    BY <2>1 DEF Removals, DocsOf, Exists, TypeOK
  <2>3. CASE r \in Removals(t) /\ DocsOf(t) # {}
    BY <2>2, <2>3 DEF TaskFollows
  <2>4. CASE r \in Removals(t) /\ DocsOf(t) = {}
    <3>1. pc'[r] = "reset"
      BY <2>1, <2>4 DEF Removals, TypeOK
    <3>2. QED
      BY <2>2, <2>4, <3>1 DEF TaskFollows
  <2>5. CASE r \notin Removals(t)
    BY <2>1, <2>2, <2>5, TaskFollowsQuiet
  <2>6. QED
    BY <2>3, <2>4, <2>5
<1>7. ASSUME NEW r \in Request, ResetTask(r) PROVE TaskFollows(t)'
  <2>1. /\ pc[r] = "reset" /\ pc' = [pc EXCEPT ![r] = "audit"]
        /\ taskStatus' = [taskStatus EXCEPT ![row[r].task] = "pending"]
        /\ UNCHANGED <<meta, call, row>>
    BY <1>7 DEF ResetTask, Goto
  <2>2. /\ Removals(t)' = Removals(t) /\ DocsOf(t)' = DocsOf(t)
        /\ \A q \in Request \ {r} : pc'[q] = pc[q]
    BY <2>1 DEF Removals, DocsOf, Exists, TypeOK
  <2>3. CASE row[r].task = t
    <3>1. taskStatus'[t] = "pending"
      BY <2>1, <2>3 DEF TypeOK
    <3>2. QED
      BY <3>1 DEF TaskFollows
  <2>4. CASE row[r].task # t
    <3>1. r \notin Removals(t) /\ taskStatus'[t] = taskStatus[t]
      BY <2>1, <2>4 DEF Removals, TypeOK
    <3>2. QED
      BY <2>2, <3>1, TaskFollowsQuiet
  <2>5. QED
    BY <2>3, <2>4
<1>8. ASSUME NEW d \in Doc, Expire(d) \/ \E size \in PutSizes : PutObject(d, size)
      PROVE  TaskFollows(t)'
  <2>1. UNCHANGED <<meta, taskStatus, pc, call, row>>
    BY <1>8 DEF Expire, PutObject
  <2>2. QED
    BY <2>1 DEF TaskFollows, DocsOf, Removals, Exists
<1>9. CASE UNCHANGED vars
  BY <1>9 DEF vars, TaskFollows, DocsOf, Removals, Exists
<1>10. QED
  BY <1>2, <1>3, <1>4, <1>5, <1>6, <1>7, <1>8, <1>9 DEF Next, Step

LEMMA ResetInit == Init => ResetInductive
<1> SUFFICES ASSUME Init PROVE ResetInductive
  OBVIOUS
<1>1. \A r \in Request : row[r] = None
  BY DEF Init
<1>2. QED
  BY <1>1 DEF ResetInductive, RowsFit, TaskFollows, Removals

\* However removals of the documents of a task overlap, when the last one has
\* ended and no document is left the task is pending again.
THEOREM RemovalResets == Spec => []LastRemovalResets
<1>1. TypeOK /\ DeletedOnceInductive /\ ResetInductive /\ [Next]_vars => ResetInductive'
  <2> SUFFICES ASSUME TypeOK, DeletedOnceInductive, ResetInductive, [Next]_vars
               PROVE  ResetInductive'
    OBVIOUS
  <2>1. RowsFit'
    BY RowsFitStep DEF ResetInductive
  <2>2. ASSUME NEW t \in Task PROVE TaskFollows(t)'
    BY TaskFollowsStep DEF ResetInductive
  <2>3. QED
    BY <2>1, <2>2 DEF ResetInductive
<1>2. ResetInductive => LastRemovalResets
  BY DEF ResetInductive, TaskFollows, LastRemovalResets
<1>3. QED
  BY <1>1, <1>2, InitType, StepType, DeletedOnceInit, DeletedOnceStep, ResetInit, PTL DEF Spec
-----------------------------------------------------------------------------
(* The sizes of the rows and of the bytes.                                 *)

\* On a local disk every step keeps the sizes equal, or is one of the two of an
\* upload.
LEMMA SizeStep ==
  ASSUME ~cloud, TypeOK, DeletedOnceInductive, RowsFit, UploadsApart', SizeInductive, [Next]_vars
  PROVE  SizeInductive'
<1> USE DocumentsAssumption DEF Unsized
<1>0. \A q \in Request : pc[q] # "idle" => call[q] \in Calls
  BY DEF TypeOK
<1> DEFINE Between(r, d) == /\ pc[r] \in {"resize", "lost"}
                            /\ call[r].op = "saveUpload" /\ call[r].doc = d
<1>1. ASSUME NEW r \in Request,
             \A q \in Request \ {r} : pc'[q] = pc[q] /\ call'[q] = call[q],
             pc[r] = "idle" \/ call'[r] = call[r],
             pc'[r] # "resize",
             pc[r] \in {"resize", "lost"} => pc'[r] = "lost",
             Unregistered(r)' => Unregistered(r),
             stored' = stored,
             \A d \in Doc : meta'[d] # None => meta[d] # None /\ meta'[d].size = meta[d].size
      PROVE  SizeInductive'
  <2>1. ASSUME NEW q \in Request
        PROVE  /\ Unregistered(q)' => stored'[q] = 0
               /\ pc'[q] = "resize" => stored'[call'[q].doc] \in {0, call'[q].size}
    BY <1>1 DEF SizeInductive, Unregistered
  <2>2. ASSUME NEW q \in Request, NEW d \in Doc, Between(q, d)
        PROVE  Between(q, d)'
    BY <1>1, <2>2
  <2>3. ASSUME NEW d \in Doc, Exists(d)', stored'[d] > 0
        PROVE  meta'[d].size = stored'[d] \/ \E q \in Request : Between(q, d)'
    <3>1. Exists(d) /\ meta'[d].size = meta[d].size /\ stored'[d] = stored[d]
      BY <1>1, <2>3 DEF Exists
    <3>2. meta[d].size = stored[d] \/ \E q \in Request : Between(q, d)
      BY <2>3, <3>1 DEF SizeInductive
    <3>3. QED
      BY <2>2, <3>1, <3>2
  <2>4. QED
    BY <1>0, <2>1, <2>3 DEF SizeInductive
<1>2. ASSUME NEW r \in Request,
             Arrive(r) \/ Load(r) \/ Refuse(r) \/ Sum(r) \/ RefuseQuota(r) \/ EraseFails(r)
             \/ Count(r) \/ ResetTask(r) \/ AppendAudit(r) \/ Lose(r)
      PROVE  SizeInductive'
  <2>1. UNCHANGED <<meta, stored>>
    BY <1>2 DEF Arrive, Load, Refuse, Sum, RefuseQuota, EraseFails, Count, ResetTask,
                AppendAudit, Lose, tables
  <2>2. \A q \in Request \ {r} : pc'[q] = pc[q] /\ call'[q] = call[q]
    BY <1>2 DEF Arrive, Load, Refuse, Sum, RefuseQuota, EraseFails, Count, ResetTask,
                AppendAudit, Lose, Goto, TypeOK
  <2>3. pc[r] = "idle" \/ call'[r] = call[r]
    BY <1>2 DEF Arrive, Load, Refuse, Sum, RefuseQuota, EraseFails, Count, ResetTask,
                AppendAudit, Lose, Goto, tables
  <2>4. /\ pc'[r] # "resize"
        /\ pc[r] \in {"resize", "lost"} => pc'[r] = "lost"
        /\ Unregistered(r)' => Unregistered(r)
    <3>1. CASE Load(r)
      <4>1. call[r].op \in {"register", "saveUpload", "review", "remove"}
        BY <1>0, <3>1, CallFields DEF Load, Goto
      <4>2. pc[r] = "load" /\ pc'[r] \in {"sum", "mark", "erase"}
        BY <3>1, <4>1, AfterLoadTable DEF Load, Goto, TypeOK
      <4>3. QED
        BY <4>2 DEF Unregistered
    <3>2. CASE Lose(r) \/ Arrive(r)
      BY <3>2 DEF Lose, Arrive, Goto, TypeOK, Running, Unregistered
    <3>3. CASE \/ Refuse(r) \/ Sum(r) \/ RefuseQuota(r) \/ EraseFails(r)
               \/ Count(r) \/ ResetTask(r) \/ AppendAudit(r)
      BY <3>3 DEF Refuse, Sum, RefuseQuota, EraseFails, Count, ResetTask, AppendAudit,
                  Goto, TypeOK, Unregistered
    <3>4. QED
      BY <1>2, <3>1, <3>2, <3>3
  <2>5. QED
    BY <1>1, <2>1, <2>2, <2>3, <2>4
<1>3. ASSUME NEW r \in Request, Mark(r) PROVE SizeInductive'
  <2>1. /\ UNCHANGED <<stored, call>> /\ pc[r] = "mark" /\ pc'[r] = "audit"
        /\ \A q \in Request \ {r} : pc'[q] = pc[q]
    BY <1>3 DEF Mark, Goto, TypeOK
  <2>2. \A d \in Doc : meta'[d] # None => meta[d] # None /\ meta'[d].size = meta[d].size
    <3>1. call[r].doc \in Doc /\ meta[call[r].doc] \in Row
      BY <1>0, <1>3, CallFields DEF Mark, Goto, TypeOK, Exists
    <3>2. meta' = [meta EXCEPT ![call[r].doc] = [meta[call[r].doc] EXCEPT !.review = call[r].verdict]]
      BY <1>3 DEF Mark
    <3>3. [meta[call[r].doc] EXCEPT !.review = call[r].verdict].size = meta[call[r].doc].size
      BY <3>1 DEF Row
    <3>4. QED
      BY <1>3, <3>1, <3>2, <3>3 DEF TypeOK, Mark, Exists
  <2>3. QED
    BY <1>1, <2>1, <2>2 DEF Unregistered
<1>4. ASSUME NEW r \in Request, RowGone(r) PROVE SizeInductive'
  <2>1. /\ UNCHANGED <<meta, stored, call>> /\ pc'[r] = "failed"
        /\ \A q \in Request \ {r} : pc'[q] = pc[q]
        /\ ~Exists(call[r].doc) /\ pc[r] # "lost"
    BY <1>4 DEF RowGone, TypeOK, tables
  <2>2. \A d \in Doc : Exists(d)' => \A q \in Request : Between(q, d) => Between(q, d)'
    BY <2>1 DEF Exists
  <2>3. \A d \in Doc : Exists(d)' /\ stored'[d] > 0 =>
          meta'[d].size = stored'[d] \/ \E q \in Request : Between(q, d)'
    BY <2>1, <2>2 DEF SizeInductive, Exists
  <2>4. \A q \in Request : /\ Unregistered(q)' => stored'[q] = 0
                           /\ pc'[q] = "resize" => stored'[call'[q].doc] \in {0, call'[q].size}
    BY <2>1 DEF SizeInductive, Unregistered
  <2>5. QED
    BY <1>0, <2>3, <2>4 DEF SizeInductive
<1>5. ASSUME NEW r \in Request, Insert(r) PROVE SizeInductive'
  <2>1. /\ UNCHANGED <<stored, call>> /\ pc[r] = "insert" /\ pc'[r] = "audit"
        /\ \A q \in Request \ {r} : pc'[q] = pc[q]
        /\ \A d \in Doc \ {r} : meta'[d] = meta[d]
    BY <1>5 DEF Insert, Goto, TypeOK
  <2>2. stored[r] = 0
    BY <2>1 DEF SizeInductive, Unregistered
  <2>3. \A q \in Request, d \in Doc : Between(q, d) => Between(q, d)'
    BY <2>1
  <2>4. ASSUME NEW d \in Doc, Exists(d)', stored'[d] > 0
        PROVE  meta'[d].size = stored'[d] \/ \E q \in Request : Between(q, d)'
    <3>1. d # r /\ meta'[d] = meta[d] /\ stored'[d] = stored[d]
      BY <2>1, <2>2, <2>4
    <3>2. QED
      BY <2>3, <2>4, <3>1 DEF SizeInductive, Exists
  <2>5. \A q \in Request : /\ Unregistered(q)' => stored'[q] = 0
                           /\ pc'[q] = "resize" => stored'[call'[q].doc] \in {0, call'[q].size}
    BY <2>1 DEF SizeInductive, Unregistered
  <2>6. QED
    BY <1>0, <2>4, <2>5 DEF SizeInductive
<1>6. ASSUME NEW r \in Request, Store(r) \/ Erase(r) PROVE SizeInductive'
  <2>1. /\ UNCHANGED <<meta, call>> /\ Running(r) /\ pc[r] \in {"store", "erase"}
        /\ \A q \in Request \ {r} : pc'[q] = pc[q]
        /\ \A d \in Doc \ {call[r].doc} : stored'[d] = stored[d]
        /\ row[r] # None
    BY <1>6 DEF Store, Erase, Goto, TypeOK, Running, PC
  <2>2. call[r].doc \in Doc
    BY <1>0, <2>1, <1>6, CallFields DEF TypeOK
  <2>3. \/ pc'[r] = "resize" /\ call[r].op = "saveUpload" /\ stored'[call[r].doc] = call[r].size
        \/ pc'[r] = "delete" /\ stored'[call[r].doc] = 0
    BY <1>6, <2>2 DEF Store, Erase, Goto, TypeOK
  <2>4. ASSUME NEW q \in Request \ {r}, pc'[q] = "resize"
        PROVE  stored'[call'[q].doc] \in {0, call'[q].size}
    <3>1. pc[q] = "resize" /\ call'[q] = call[q] /\ call[q].op = "saveUpload" /\ call[q] \in Calls
      BY <1>0, <2>1, <2>4 DEF TypeOK
    <3>2. call[q].doc \in Doc /\ stored[call[q].doc] \in {0, call[q].size}
      BY <3>1, CallFields DEF SizeInductive
    <3>3. CASE call[q].doc = call[r].doc
      <4>1. pc'[r] # "resize"
        BY <2>1, <2>4, <3>3 DEF UploadsApart
      <4>2. QED
        BY <2>3, <3>1, <3>3, <4>1
    <3>4. CASE call[q].doc # call[r].doc
      BY <2>1, <3>1, <3>2, <3>4
    <3>5. QED
      BY <3>3, <3>4
  <2>5. ASSUME NEW q \in Request, Unregistered(q)' PROVE stored'[q] = 0
    <3>1. q # r /\ Unregistered(q)
      BY <2>1, <2>3, <2>5 DEF Unregistered
    <3>2. call[r].doc # q /\ q \in Doc
      BY <2>1, <3>1 DEF RowsFit, Doc
    <3>3. QED
      BY <2>1, <3>1, <3>2 DEF SizeInductive
  <2>6. ASSUME NEW d \in Doc, Exists(d)', stored'[d] > 0
        PROVE  meta'[d].size = stored'[d] \/ \E q \in Request : Between(q, d)'
    <3>1. CASE d = call[r].doc
      BY <2>1, <2>3, <2>6, <3>1
    <3>2. CASE d # call[r].doc
      <4>1. meta[d].size = stored[d] \/ \E q \in Request : Between(q, d)
        BY <2>1, <2>6, <3>2 DEF SizeInductive, Exists
      <4>2. \A q \in Request : Between(q, d) => Between(q, d)'
        BY <2>1
      <4>3. QED
        BY <2>1, <3>2, <4>1, <4>2
    <3>3. QED
      BY <3>1, <3>2
  <2>7. pc'[r] = "resize" => stored'[call'[r].doc] \in {0, call'[r].size}
    BY <2>1, <2>3
  <2>8. QED
    BY <2>4, <2>5, <2>6, <2>7 DEF SizeInductive
<1>7. ASSUME NEW r \in Request, Resize(r) PROVE SizeInductive'
  <2>1. /\ UNCHANGED <<stored, call>> /\ pc[r] = "resize" /\ pc'[r] = "done"
        /\ \A q \in Request \ {r} : pc'[q] = pc[q]
        /\ \A d \in Doc \ {call[r].doc} : meta'[d] = meta[d]
    BY <1>7 DEF Resize, Goto, TypeOK
  <2>2. call[r].doc \in Doc /\ call[r].size \in Nat /\ meta[call[r].doc] \in Row
    BY <1>0, <1>7, CallFields DEF Resize, Goto, TypeOK, Exists
  <2>3. stored[call[r].doc] \in {0, meta'[call[r].doc].size}
    <3>1. meta'[call[r].doc] = [meta[call[r].doc] EXCEPT !.size = call[r].size]
      BY <1>7, <2>2 DEF Resize, TypeOK
    <3>2. QED
      BY <2>1, <2>2, <3>1 DEF Row, SizeInductive
  <2>4. ASSUME NEW d \in Doc, Exists(d)', stored'[d] > 0
        PROVE  meta'[d].size = stored'[d] \/ \E q \in Request : Between(q, d)'
    <3>1. CASE d = call[r].doc
      BY <2>1, <2>3, <2>4, <3>1
    <3>2. CASE d # call[r].doc
      <4>1. meta[d].size = stored[d] \/ \E q \in Request : Between(q, d)
        BY <2>1, <2>4, <3>2 DEF SizeInductive, Exists
      <4>2. \A q \in Request : Between(q, d) => Between(q, d)'
        BY <2>1, <3>2
      <4>3. QED
        BY <2>1, <3>2, <4>1, <4>2
    <3>3. QED
      BY <3>1, <3>2
  <2>5. \A q \in Request : /\ Unregistered(q)' => stored'[q] = 0
                           /\ pc'[q] = "resize" => stored'[call'[q].doc] \in {0, call'[q].size}
    BY <2>1 DEF SizeInductive, Unregistered
  <2>6. QED
    BY <1>0, <2>4, <2>5 DEF SizeInductive
<1>8. ASSUME NEW r \in Request, Delete(r) PROVE SizeInductive'
  <2>1. /\ UNCHANGED <<stored, call>> /\ pc[r] = "delete" /\ pc'[r] \in {"count", "audit"}
        /\ \A q \in Request \ {r} : pc'[q] = pc[q]
        /\ \A d \in Doc : meta'[d] = meta[d] \/ meta'[d] = None
    BY <1>8 DEF Delete, Goto, TypeOK
  <2>2. QED
    BY <1>1, <2>1 DEF Unregistered
<1>9. CASE UNCHANGED vars
  BY <1>0, <1>9 DEF vars, SizeInductive, Unregistered, Exists
<1>10. QED
  BY <1>2, <1>3, <1>4, <1>5, <1>6, <1>7, <1>8, <1>9 DEF Next, Step, Expire, PutObject

LEMMA SizeInit == Init => SizeInductive
<1> SUFFICES ASSUME Init PROVE SizeInductive
  OBVIOUS
<1> USE DocumentsAssumption DEF Init
<1>1. PICK uploaded \in SUBSET OldDoc :
        stored = [d \in Doc |-> IF d \in uploaded THEN oldRow[d].size ELSE 0]
  OBVIOUS
<1>2. \A r \in Request : stored[r] = 0 /\ pc[r] = "idle"
  BY <1>1 DEF Doc
<1>3. \A d \in Doc : Exists(d) /\ stored[d] > 0 => meta[d].size = stored[d]
  BY <1>1 DEF Exists
<1>4. QED
  BY <1>2, <1>3 DEF SizeInductive

\* On a local disk the size a row counts is that of the bytes on the disk, unless an
\* upload was lost between its two writes, or two uploads of the document overlapped
\* there.
THEOREM SizesMatch == Spec /\ []UploadsApart => []SizeMatches
<1> DEFINE I == ~cloud => SizeInductive
<1>1. TypeOK /\ DeletedOnceInductive /\ RowsFit /\ UploadsApart' /\ I /\ [Next]_vars => I'
  BY SizeStep, DriverStays
<1>2. Init => I
  BY SizeInit
<1>3. TypeOK /\ DeletedOnceInductive /\ RowsFit /\ [Next]_vars => RowsFit'
  BY RowsFitStep
<1>4. Init => RowsFit
  BY ResetInit DEF ResetInductive
<1>5. I => SizeMatches
  BY DEF SizeInductive, SizeMatches
<1>6. QED
  <2> HIDE DEF I
  <2>1. QED
    BY <1>1, <1>2, <1>3, <1>4, <1>5, InitType, StepType, DeletedOnceInit, DeletedOnceStep,
       PTL DEF Spec

-----------------------------------------------------------------------------
(* The reviews of the rows and of the log.                                 *)

LEMMA LastIsMax ==
  ASSUME NEW n \in Nat, NEW S \in SUBSET (1..n)
  PROVE  Max(S \cup {n + 1}) = n + 1
<1> DEFINE T == S \cup {n + 1}
<1>1. n + 1 \in T /\ \A y \in T : n + 1 >= y
  OBVIOUS
<1>2. Max(T) \in T /\ \A y \in T : Max(T) >= y
  <2> HIDE DEF T
  <2>1. QED
    BY <1>1 DEF Max
<1> DEFINE m == Max(T)
<1>3. m \in S \cup {n + 1} /\ m >= n + 1
  BY <1>1, <1>2
<1>4. m = n + 1
  <2> HIDE DEF m
  <2>1. m \in S => m \in 1..n
    OBVIOUS
  <2>2. QED
    BY <1>3, <2>1
<1>5. QED
  BY <1>4

\* While the log stays, so does the review it reports.
LEMMA ReportStays ==
  ASSUME TypeOK, ReviewInductive, UNCHANGED audit,
         \A q \in Request : pc[q] # "idle" => call'[q] = call[q],
         NEW d \in Doc
  PROVE  Reviews(d)' = Reviews(d) /\ ReportedReview(d)' = ReportedReview(d)
<1>1. Reviews(d)' = Reviews(d)
  BY DEF Reviews, Rows
<1>2. Reviews(d) # {} => /\ audit[Max(Reviews(d))].by \in Request
                         /\ pc[audit[Max(Reviews(d))].by] # "idle"
  <2> SUFFICES ASSUME Reviews(d) # {}
               PROVE  /\ audit[Max(Reviews(d))].by \in Request
                      /\ pc[audit[Max(Reviews(d))].by] # "idle"
    OBVIOUS
  <2>1. Max(Reviews(d)) \in 1..Len(audit)
    <3>1. Max(Reviews(d)) \in Reviews(d)
      BY DEF ReviewInductive
    <3>2. QED
      BY <3>1 DEF Reviews, Rows
  <2>2. audit[Max(Reviews(d))] \in AuditRow
    BY <2>1 DEF TypeOK
  <2>3. QED
    BY <2>1, <2>2 DEF ReviewInductive, AuditRow
<1>3. QED
  BY <1>1, <1>2 DEF ReportedReview

\* Steps that leave the log and the reviews of the documents alone.
LEMMA ReviewQuiet ==
  ASSUME TypeOK, ReviewInductive, UNCHANGED audit,
         \A q \in Request : pc[q] # "idle" => call'[q] = call[q] /\ pc'[q] # "idle",
         \A q \in Request : Unregistered(q)' => Unregistered(q),
         \A q \in Request : pc'[q] = "audit" /\ call'[q].op = "review" => pc[q] = "audit",
         \A q \in Request : pc[q] \in {"audit", "lost"} /\ call[q].op = "review"
                             => pc'[q] \in {"audit", "lost"},
         \A d \in Doc : meta'[d] # None => meta[d] # None /\ meta'[d].review = meta[d].review
  PROVE  ReviewInductive'
<1> USE DocumentsAssumption
<1>1. \A d \in Doc : Reviews(d)' = Reviews(d) /\ ReportedReview(d)' = ReportedReview(d)
  BY ReportStays
<1>2. \A i \in 1..Len(audit') : pc'[audit'[i].by] # "idle"
  <2>1. \A i \in 1..Len(audit) : audit[i] \in AuditRow
    BY DEF TypeOK
  <2>2. \A i \in 1..Len(audit) : audit[i].by \in Request
    BY <2>1 DEF AuditRow
  <2>3. QED
    BY <2>2 DEF ReviewInductive
<1>3. ASSUME NEW q \in Request
      PROVE  /\ Unregistered(q)' => Reviews(q)' = {}
             /\ pc'[q] = "audit" /\ call'[q].op = "review" /\ Exists(call[q].doc)'
                  => call'[q] = call[q] /\ meta'[call[q].doc].review = call[q].verdict
  <2>1. Unregistered(q)' => Reviews(q)' = {}
    BY <1>1 DEF ReviewInductive, Doc
  <2>2. ASSUME pc'[q] = "audit", call'[q].op = "review", Exists(call[q].doc)'
        PROVE  call'[q] = call[q] /\ meta'[call[q].doc].review = call[q].verdict
    <3>1. pc[q] = "audit" /\ call'[q] = call[q]
      BY <2>2
    <3>2. call[q].doc \in Doc
      BY <2>2, <3>1, CallFields DEF TypeOK
    <3>3. QED
      BY <2>2, <3>1, <3>2 DEF Exists, ReviewInductive
  <2>3. QED
    BY <2>1, <2>2
<1>4. \A q \in Request, d \in Doc : Unaudited(q, d) => Unaudited(q, d)'
  BY DEF Unaudited
<1>5. \A d \in Doc : /\ Reviews(d)' # {} => Max(Reviews(d)') \in Reviews(d)'
                     /\ Exists(d)' => \/ meta'[d].review = ReportedReview(d)'
                                      \/ \E q \in Request : Unaudited(q, d)'
  BY <1>1, <1>4 DEF ReviewInductive, Exists
<1>6. \A q \in Request :
        pc'[q] = "audit" /\ call'[q].op = "review" => call'[q] = call[q]
  OBVIOUS
<1>7. QED
  BY <1>2, <1>3, <1>5, <1>6 DEF ReviewInductive, Exists

\* Every step keeps the reviews equal, or is one of the two of a review.
LEMMA ReviewStep ==
  ASSUME TypeOK, DeletedOnceInductive, RowsFit, ReviewsApart, ReviewsApart', ReviewInductive,
         [Next]_vars
  PROVE  ReviewInductive'
<1> USE DocumentsAssumption
<1>0. /\ \A q \in Request : pc[q] # "idle" => call[q] \in Calls
      /\ \A q \in Request : pc[q] = "audit" /\ call[q].op = "review"
           => /\ call[q].doc \in Doc
              /\ Exists(call[q].doc) => meta[call[q].doc].review = call[q].verdict
  BY CallFields DEF TypeOK, ReviewInductive
<1>1. ASSUME NEW r \in Request,
             Arrive(r) \/ Load(r) \/ Refuse(r) \/ Sum(r) \/ RefuseQuota(r) \/ Store(r)
             \/ Erase(r) \/ EraseFails(r) \/ Count(r) \/ ResetTask(r) \/ RowGone(r) \/ Lose(r)
      PROVE  ReviewInductive'
  <2>1. UNCHANGED <<meta, audit>>
    BY <1>1 DEF Arrive, Load, Refuse, Sum, RefuseQuota, Store, Erase, EraseFails, Count,
                ResetTask, RowGone, Lose, tables
  <2>2. \A q \in Request \ {r} : pc'[q] = pc[q] /\ call'[q] = call[q]
    BY <1>1 DEF Arrive, Load, Refuse, Sum, RefuseQuota, Store, Erase, EraseFails, Count,
                ResetTask, RowGone, Lose, Goto, TypeOK, tables
  <2>3. /\ pc[r] # "idle" => call'[r] = call[r] /\ pc'[r] # "idle"
        /\ Unregistered(r)' => Unregistered(r)
        /\ pc'[r] = "audit" => call[r].op = "remove"
        /\ pc[r] \in {"audit", "lost"} => pc'[r] = "lost"
        /\ pc'[r] = "audit" => call'[r] = call[r]
    <3>1. CASE Arrive(r)
      BY <3>1 DEF Arrive, Goto, TypeOK, Unregistered
    <3>2. CASE Load(r)
      <4>1. call[r].op \in {"register", "saveUpload", "review", "remove"}
        BY <1>0, <3>2, CallFields DEF Load, Goto
      <4>2. pc[r] = "load" /\ pc'[r] \in {"sum", "mark", "erase"} /\ call' = call
        BY <3>2, <4>1, AfterLoadTable DEF Load, Goto, TypeOK
      <4>3. QED
        BY <4>2 DEF Unregistered
    <3>3. CASE \/ Refuse(r) \/ Sum(r) \/ RefuseQuota(r) \/ Store(r) \/ Erase(r)
               \/ EraseFails(r) \/ Count(r) \/ ResetTask(r)
      BY <3>3 DEF Refuse, Sum, RefuseQuota, Store, Erase, EraseFails, Count, ResetTask,
                  Goto, TypeOK, Unregistered
    <3>4. CASE RowGone(r) \/ Lose(r)
      BY <3>4 DEF RowGone, Lose, Running, TypeOK, Unregistered
    <3>5. QED
      BY <1>1, <3>1, <3>2, <3>3, <3>4
  <2>4. /\ \A q \in Request : pc[q] # "idle" => call'[q] = call[q] /\ pc'[q] # "idle"
        /\ \A q \in Request : Unregistered(q)' => Unregistered(q)
    BY <2>2, <2>3 DEF Unregistered
  <2>5. /\ \A q \in Request : pc'[q] = "audit" /\ call'[q].op = "review" => pc[q] = "audit"
        /\ \A q \in Request : pc[q] \in {"audit", "lost"} /\ call[q].op = "review"
                              => pc'[q] \in {"audit", "lost"}
    BY <2>2, <2>3
  <2>6. \A d \in Doc : meta'[d] # None => meta[d] # None /\ meta'[d].review = meta[d].review
    BY <2>1
  <2>7. QED
    BY <2>1, <2>4, <2>5, <2>6, ReviewQuiet
<1>2. ASSUME NEW r \in Request, Resize(r) PROVE ReviewInductive'
  <2>1. /\ UNCHANGED <<audit, call>> /\ pc[r] = "resize" /\ pc'[r] = "done"
        /\ \A q \in Request \ {r} : pc'[q] = pc[q]
    BY <1>2 DEF Resize, Goto, TypeOK
  <2>2. \A d \in Doc : meta'[d] # None => meta[d] # None /\ meta'[d].review = meta[d].review
    <3>1. call[r].doc \in Doc /\ meta[call[r].doc] \in Row
      BY <1>0, <1>2, CallFields DEF Resize, Goto, TypeOK, Exists
    <3>2. meta' = [meta EXCEPT ![call[r].doc] = [meta[call[r].doc] EXCEPT !.size = call[r].size]]
      BY <1>2 DEF Resize
    <3>3. [meta[call[r].doc] EXCEPT !.size = call[r].size].review = meta[call[r].doc].review
      BY <3>1 DEF Row
    <3>4. QED
      BY <1>2, <3>1, <3>2, <3>3 DEF TypeOK, Resize, Exists
  <2>3. QED
    BY <2>1, <2>2, ReviewQuiet DEF Unregistered
<1>3. ASSUME NEW r \in Request, Delete(r) PROVE ReviewInductive'
  <2>1. /\ UNCHANGED <<audit, call>> /\ pc[r] = "delete" /\ pc'[r] \in {"count", "audit"}
        /\ \A q \in Request \ {r} : pc'[q] = pc[q]
        /\ \A d \in Doc : meta'[d] = meta[d] \/ meta'[d] = None
        /\ call[r].op = "remove"
    BY <1>3 DEF Delete, Goto, TypeOK
  <2>2. QED
    BY <2>1, ReviewQuiet DEF Unregistered
<1>4. ASSUME NEW r \in Request, Insert(r) \/ Mark(r)
      PROVE  /\ UNCHANGED <<audit, call>>
             /\ pc[r] \in {"insert", "mark"} /\ pc'[r] = "audit"
             /\ \A q \in Request \ {r} : pc'[q] = pc[q]
             /\ \A q \in Request : Unregistered(q)' => Unregistered(q)
             /\ \A i \in 1..Len(audit') : pc'[audit'[i].by] # "idle"
             /\ \A q \in Request, d \in Doc : Unaudited(q, d) => Unaudited(q, d)'
             /\ \A d \in Doc : Reviews(d)' = Reviews(d) /\ ReportedReview(d)' = ReportedReview(d)
  <2>1. /\ UNCHANGED <<audit, call>> /\ Running(r)
        /\ pc[r] \in {"insert", "mark"} /\ pc'[r] = "audit"
        /\ \A q \in Request \ {r} : pc'[q] = pc[q]
    BY <1>4 DEF Insert, Mark, Goto, TypeOK, Running, PC
  <2>2. \A i \in 1..Len(audit') : pc'[audit'[i].by] # "idle"
    <3>1. \A i \in 1..Len(audit) : audit[i] \in AuditRow
      BY DEF TypeOK
    <3>2. \A i \in 1..Len(audit) : audit[i].by \in Request
      BY <3>1 DEF AuditRow
    <3>3. QED
      BY <2>1, <3>2 DEF ReviewInductive
  <2>3. \A d \in Doc : Reviews(d)' = Reviews(d) /\ ReportedReview(d)' = ReportedReview(d)
    BY <2>1, ReportStays
  <2>4. QED
    BY <2>1, <2>2, <2>3 DEF Unregistered, Unaudited
<1>5. ASSUME NEW r \in Request, Insert(r) PROVE ReviewInductive'
  <2>1. /\ \A d \in Doc \ {r} : meta'[d] = meta[d]
        /\ pc[r] = "insert" /\ call[r].op = "register" /\ Unregistered(r) /\ r \in Doc
    BY <1>5 DEF Insert, Goto, TypeOK, Unregistered, Doc
  <2>2. meta'[r].review = ReportedReview(r)'
    <3>1. Reviews(r)' = {} /\ r \notin OldDoc
      BY <1>4, <1>5, <2>1 DEF ReviewInductive
    <3>2. meta'[r].review = "pending"
      BY <1>5, <2>1 DEF Insert, TypeOK
    <3>3. QED
      BY <3>1, <3>2 DEF ReportedReview
  <2>3. ASSUME NEW d \in Doc, Exists(d)'
        PROVE  meta'[d].review = ReportedReview(d)' \/ \E q \in Request : Unaudited(q, d)'
    <3>1. CASE d = r
      BY <2>2, <3>1
    <3>2. CASE d # r
      <4>1. Exists(d) /\ meta'[d] = meta[d]
        BY <2>1, <2>3, <3>2 DEF Exists
      <4>2. meta[d].review = ReportedReview(d) \/ \E q \in Request : Unaudited(q, d)
        BY <4>1 DEF ReviewInductive
      <4>3. QED
        BY <1>4, <1>5, <4>1, <4>2
    <3>3. QED
      BY <3>1, <3>2
  <2>4. ASSUME NEW q \in Request
        PROVE  /\ Unregistered(q)' => Reviews(q)' = {}
               /\ pc'[q] = "audit" /\ call'[q].op = "review" /\ meta'[call'[q].doc] # None
                    => meta'[call'[q].doc].review = call'[q].verdict
    <3>1. Unregistered(q)' => Reviews(q)' = {}
      BY <1>4, <1>5 DEF ReviewInductive, Doc
    <3>2. ASSUME pc'[q] = "audit", call'[q].op = "review", meta'[call'[q].doc] # None
          PROVE  meta'[call'[q].doc].review = call'[q].verdict
      <4>1. q # r /\ pc[q] = "audit" /\ call'[q] = call[q]
        BY <1>4, <1>5, <2>1, <3>2
      <4>2. call[q].doc # r
        <5>1. row[q] # None
          BY <3>2, <4>1 DEF TypeOK, Running, PC
        <5>2. QED
          BY <2>1, <5>1 DEF RowsFit
      <4>3. QED
        BY <1>0, <2>1, <3>2, <4>1, <4>2 DEF Exists
    <3>3. QED
      BY <3>1, <3>2
  <2>5. \A d \in Doc : Reviews(d)' # {} => Max(Reviews(d)') \in Reviews(d)'
    BY <1>4, <1>5 DEF ReviewInductive
  <2>6. QED
    BY <1>4, <1>5, <2>3, <2>4, <2>5 DEF ReviewInductive, Exists
<1>6. ASSUME NEW r \in Request, Mark(r) PROVE ReviewInductive'
  <2>1. call[r].doc \in Doc /\ call[r].op = "review" /\ meta[call[r].doc] \in Row
    BY <1>0, <1>6, CallFields DEF Mark, Goto, TypeOK, Exists
  <2>2. /\ \A d \in Doc \ {call[r].doc} : meta'[d] = meta[d]
        /\ meta'[call[r].doc] = [meta[call[r].doc] EXCEPT !.review = call[r].verdict]
    BY <1>6, <2>1 DEF Mark, TypeOK
  <2>3. meta'[call[r].doc].review = call[r].verdict
    BY <2>1, <2>2 DEF Row
  <2>4. ASSUME NEW d \in Doc, Exists(d)'
        PROVE  meta'[d].review = ReportedReview(d)' \/ \E q \in Request : Unaudited(q, d)'
    <3>1. CASE d = call[r].doc
      BY <1>4, <1>6, <2>1, <3>1 DEF Unaudited
    <3>2. CASE d # call[r].doc
      <4>1. Exists(d) /\ meta'[d] = meta[d]
        BY <2>2, <2>4, <3>2 DEF Exists
      <4>2. meta[d].review = ReportedReview(d) \/ \E q \in Request : Unaudited(q, d)
        BY <4>1 DEF ReviewInductive
      <4>3. QED
        BY <1>4, <1>6, <4>1, <4>2
    <3>3. QED
      BY <3>1, <3>2
  <2>5. ASSUME NEW q \in Request
        PROVE  /\ Unregistered(q)' => Reviews(q)' = {}
               /\ pc'[q] = "audit" /\ call'[q].op = "review" /\ meta'[call'[q].doc] # None
                    => meta'[call'[q].doc].review = call'[q].verdict
    <3>1. Unregistered(q)' => Reviews(q)' = {}
      BY <1>4, <1>6 DEF ReviewInductive, Doc
    <3>2. CASE q = r
      BY <1>4, <1>6, <2>3, <3>1, <3>2
    <3>3. CASE q # r
      <4>1. pc'[q] = "audit" /\ call'[q].op = "review" => call[q].doc # call[r].doc
        BY <1>4, <1>6, <2>1, <3>3 DEF ReviewsApart
      <4>2. QED
        BY <1>0, <1>4, <1>6, <2>2, <3>1, <3>3, <4>1 DEF Exists
    <3>4. QED
      BY <3>2, <3>3
  <2>6. \A d \in Doc : Reviews(d)' # {} => Max(Reviews(d)') \in Reviews(d)'
    BY <1>4, <1>6 DEF ReviewInductive
  <2>7. QED
    BY <1>4, <1>6, <2>4, <2>5, <2>6 DEF ReviewInductive, Exists
<1>7. ASSUME NEW r \in Request, AppendAudit(r) PROVE ReviewInductive'
  <2> DEFINE x == [by |-> r, action |-> AuditAction[call[r].op],
                   doc |-> IF call[r].op = "register" THEN r ELSE call[r].doc]
  <2>1. /\ UNCHANGED <<meta, call>> /\ pc[r] = "audit" /\ pc'[r] = "done"
        /\ \A q \in Request \ {r} : pc'[q] = pc[q]
        /\ audit' = Append(audit, x) /\ Running(r)
    BY <1>7 DEF AppendAudit, Goto, TypeOK, Running, PC
  <2>2. call[r] \in Calls /\ call[r].op \in {"register", "review", "remove"}
    BY <1>0, <2>1, CallFields DEF TypeOK
  <2>3. /\ AuditAction["register"] = "DOCUMENT_REGISTERED"
        /\ AuditAction["review"] = "DOCUMENT_REVIEWED"
        /\ AuditAction["remove"] = "DOCUMENT_DELETED"
    BY DEF AuditAction
  <2>4. x \in AuditRow
    <3>1. x.doc \in Doc
      BY <2>2, CallFields DEF Doc
    <3>2. AuditAction[call[r].op] \in {AuditAction[o] : o \in DOMAIN AuditAction}
      BY <2>2 DEF AuditAction
    <3>3. QED
      BY <3>1, <3>2 DEF AuditRow
  <2>5. /\ audit \in Seq(AuditRow) /\ Len(audit) \in Nat
        /\ Len(audit') = Len(audit) + 1
        /\ \A i \in 1..Len(audit) : audit'[i] = audit[i] /\ audit[i].by \in Request
        /\ audit'[Len(audit) + 1] = x
    <3>1. audit \in Seq(AuditRow) /\ Len(audit) \in Nat
      BY DEF TypeOK
    <3>2. \A i \in 1..Len(audit) : audit[i] \in AuditRow
      BY <3>1
    <3>3. \A i \in 1..Len(audit) : audit[i].by \in Request
      BY <3>2 DEF AuditRow
    <3>4. QED
      BY <2>1, <2>4, <3>1, <3>3
  <2>6. \A d : Reviews(d)' = Reviews(d) \cup
                (IF x.doc = d /\ x.action = "DOCUMENT_REVIEWED" THEN {Len(audit) + 1} ELSE {})
    BY <2>1, <2>4, RowsAppend DEF Reviews
  <2>7. x.action = "DOCUMENT_REVIEWED" <=> call[r].op = "review"
    BY <2>2, <2>3
  <2>8. call[r].op = "review" => x.doc = call[r].doc /\ call[r].doc \in Doc
    BY <2>2, CallFields
  <2>9. \A i \in 1..Len(audit') : pc'[audit'[i].by] # "idle"
    <3>1. \A i \in 1..Len(audit) : pc'[audit'[i].by] # "idle"
      BY <2>1, <2>5 DEF ReviewInductive
    <3>2. pc'[audit'[Len(audit) + 1].by] # "idle"
      BY <2>1, <2>5
    <3>3. QED
      BY <2>5, <3>1, <3>2
  <2> HIDE DEF x
  <2>10. ASSUME NEW d \in Doc, Reviews(d)' = Reviews(d)
         PROVE  ReportedReview(d)' = ReportedReview(d)
    <3>1. Reviews(d) # {} => audit'[Max(Reviews(d))] = audit[Max(Reviews(d))]
      <4>1. Reviews(d) # {} => Max(Reviews(d)) \in Reviews(d)
        BY DEF ReviewInductive
      <4>2. QED
        BY <2>5, <4>1 DEF Reviews, Rows
    <3>2. QED
      BY <2>1, <2>10, <3>1 DEF ReportedReview
  <2>11. ASSUME NEW q \in Request
         PROVE  /\ Unregistered(q)' => Reviews(q)' = {}
                /\ pc'[q] = "audit" /\ call'[q].op = "review" /\ meta'[call'[q].doc] # None
                     => meta'[call'[q].doc].review = call'[q].verdict
    <3>1. pc'[q] = "audit" /\ call'[q].op = "review" /\ meta'[call'[q].doc] # None
            => meta'[call'[q].doc].review = call'[q].verdict
      BY <1>0, <2>1 DEF Exists
    <3>2. ASSUME Unregistered(q)' PROVE Reviews(q)' = {}
      <4>1. q # r /\ Unregistered(q)
        BY <2>1, <3>2 DEF Unregistered
      <4>2. call[r].op = "review" => call[r].doc # q
        <5>1. call[r].op = "review" => row[r] # None
          BY <2>1 DEF TypeOK
        <5>2. QED
          BY <4>1, <5>1 DEF RowsFit
      <4>3. QED
        BY <2>6, <2>7, <2>8, <4>1, <4>2 DEF ReviewInductive
    <3>3. QED
      BY <3>1, <3>2
  <2>12. ASSUME NEW d \in Doc
         PROVE  /\ Reviews(d)' # {} => Max(Reviews(d)') \in Reviews(d)'
                /\ Exists(d)' => \/ meta'[d].review = ReportedReview(d)'
                                 \/ \E q \in Request : Unaudited(q, d)'
    <3>1. CASE call[r].op = "review" /\ call[r].doc = d
      <4>1. Reviews(d)' = Reviews(d) \cup {Len(audit) + 1} /\ Reviews(d) \subseteq 1..Len(audit)
        BY <2>6, <2>7, <2>8, <3>1 DEF Reviews, Rows
      <4>2. Max(Reviews(d)') = Len(audit) + 1
        BY <2>5, <4>1, LastIsMax
      <4>3. x.by = r
        BY DEF x
      <4>4. ReportedReview(d)' = call[r].verdict
        BY <2>1, <2>5, <4>1, <4>2, <4>3 DEF ReportedReview
      <4>5. Exists(d) => meta[d].review = call[r].verdict
        BY <2>1, <3>1 DEF ReviewInductive
      <4>6. QED
        BY <2>1, <4>1, <4>2, <4>4, <4>5 DEF Exists
    <3>2. CASE ~(call[r].op = "review" /\ call[r].doc = d)
      <4>1. Reviews(d)' = Reviews(d)
        BY <2>6, <2>7, <2>8, <3>2
      <4>2. \A q \in Request : Unaudited(q, d) => Unaudited(q, d)'
        BY <2>1, <3>2 DEF Unaudited
      <4>3. QED
        BY <2>1, <2>10, <4>1, <4>2 DEF ReviewInductive, Exists
    <3>3. QED
      BY <3>1, <3>2
  <2>13. QED
    BY <2>9, <2>11, <2>12 DEF ReviewInductive, Exists
<1>8. ASSUME NEW d \in Doc, Expire(d) \/ \E size \in PutSizes : PutObject(d, size)
      PROVE  ReviewInductive'
  <2>1. UNCHANGED <<meta, audit, pc, call>>
    BY <1>8 DEF Expire, PutObject
  <2>2. QED
    BY <2>1, ReviewQuiet DEF Unregistered
<1>9. CASE UNCHANGED vars
  BY <1>9, ReviewQuiet DEF vars, Unregistered
<1>10. QED
  BY <1>1, <1>2, <1>3, <1>5, <1>6, <1>7, <1>8, <1>9 DEF Next, Step

LEMMA ReviewInit == Init => ReviewInductive
<1> SUFFICES ASSUME Init PROVE ReviewInductive
  OBVIOUS
<1> USE DocumentsAssumption DEF Init
<1>1. Len(audit) = 0 /\ \A d : Reviews(d) = {}
  BY DEF Reviews, Rows
<1>2. \A d \in Doc : Exists(d) => d \in OldDoc /\ meta[d].review = oldRow[d].review
  BY DEF Exists
<1>3. QED
  BY <1>1, <1>2 DEF ReviewInductive, ReportedReview

\* On any storage driver the log tells the review of every document, unless a review
\* was lost before it was audited, or two reviews of the document overlapped there.
THEOREM ReviewsExplained == Spec /\ []ReviewsApart => []TrailExplainsReview
<1>1. TypeOK /\ DeletedOnceInductive /\ RowsFit /\ ReviewsApart /\ ReviewsApart' /\ ReviewInductive
      /\ [Next]_vars => ReviewInductive'
  BY ReviewStep
<1>2. TypeOK /\ DeletedOnceInductive /\ RowsFit /\ [Next]_vars => RowsFit'
  BY RowsFitStep
<1>3. Init => RowsFit
  BY ResetInit DEF ResetInductive
<1>4. ReviewInductive => TrailExplainsReview
  BY DEF ReviewInductive, TrailExplainsReview
<1>5. QED
  BY <1>1, <1>2, <1>3, <1>4, InitType, StepType, DeletedOnceInit, DeletedOnceStep, ReviewInit,
     PTL DEF Spec

=============================================================================
