---------------------------- MODULE MCDocuments ----------------------------
(***************************************************************************)
(* Small instances of Documents: one employee with one case, a document    *)
(* task, the employee's user and an HR administrator.  A file has at most  *)
(* 2 units, an employee 4.                                                 *)
(***************************************************************************)
EXTENDS Documents, TLC

CONSTANTS c1, luis, idTask, emp, hr, d1, d2, r1, r2, r3

MCCaseEmployee == c1 :> luis
MCReadable == (emp :> {c1}) @@ (hr :> {c1})

OldRowOf(size) == [case |-> c1, task |-> idTask, size |-> size, uploader |-> emp,
                   review |-> "pending"]

OneOldRow  == d1 :> OldRowOf(1)
TwoOldRows == (d1 :> OldRowOf(1)) @@ (d2 :> OldRowOf(2))

Register(tasks, sizes) == [op : {"register"}, user : {emp}, case : {c1}, task : tasks, size : sizes]
Upload(docs, sizes)    == [op : {"saveUpload"}, doc : docs, size : sizes]
Remove(users, docs)    == [op : {"remove"}, user : users, doc : docs]
Review(docs, verdicts) == [op : {"review"}, user : {hr}, doc : docs, verdict : verdicts]

ConcurrentCalls == Register({idTask, None}, {1}) \cup Upload({d1}, {1, 2})
              \cup Remove({emp}, {d1, d2}) \cup Review({d1}, {"approved"})
              \cup Review({r1, r2, r3}, {"rejected"}) \cup Remove({hr}, {r1, r2, r3})

ApartCalls == Register({idTask}, {2, 3}) \cup Upload({d1, r1, r2, r3}, {1, 2})
         \cup Remove({emp}, {d1, r1, r2, r3}) \cup Review({d1, r1, r2, r3}, {"approved", "rejected"})

RaceCalls == Register({idTask}, {2}) \cup Upload({d1}, {1}) \cup Remove({emp}, {d1})

Requests3 == Permutations({r1, r2, r3})
=============================================================================
