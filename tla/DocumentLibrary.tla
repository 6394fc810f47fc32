-------------------------- MODULE DocumentLibrary --------------------------
(***************************************************************************)
(* What the documents service promises, seen from outside: a library of    *)
(* documents that changes by whole operations, each by someone who may do  *)
(* it.  A document enters, or takes another size, only if its employee's   *)
(* quota holds with it, and a task is set back only when none of its       *)
(* documents is left, after one was removed.  No requests, no snapshots,   *)
(* no bytes, no audit.  Module Documents is shown to implement it when the *)
(* few requests that would disturb each other do not overlap.              *)
(***************************************************************************)
EXTENDS Integers, FiniteSetsExt

CONSTANTS Case, Task, User, Doc,
          caseEmployee,         \* the employee a case is for
          readable,             \* the cases each user may read
          hrAdmins,             \* the users who are HR administrators
          MaxFile, Quota, None

VARIABLES held,                 \* the record of each document, or None
          taskStatus,           \* the status of each task
          emptied               \* the tasks that a removed document was for

library == <<held, taskStatus, emptied>>

Verdict == {"pending", "approved", "rejected"}

Record == [case : Case, task : Task \cup {None}, size : Nat, uploader : User, review : Verdict]

Size == 1..MaxFile

Init == /\ held \in [Doc -> Record \cup {None}]
        /\ taskStatus \in [Task -> {"pending", "done"}]
        /\ emptied = {}

\* The documents of an employee, and their bytes.
Holding(e) == {d \in Doc : held[d] # None /\ caseEmployee[held[d].case] = e}
Used(e)    == MapThenSumSet(LAMBDA d : held[d].size, Holding(e))

Register(d) ==
  /\ held[d] = None
  /\ \E u \in User : \E c \in readable[u], t \in Task \cup {None}, size \in Size :
       /\ Used(caseEmployee[c]) + size <= Quota
       /\ held' = [held EXCEPT ![d] = [case |-> c, task |-> t, size |-> size,
                                       uploader |-> u, review |-> "pending"]]
  /\ UNCHANGED <<taskStatus, emptied>>

\* The file arrives, in another size than it was registered with.
Replace(d) ==
  /\ held[d] # None
  /\ \E size \in Size :
       /\ Used(caseEmployee[held[d].case]) - held[d].size + size <= Quota
       /\ held' = [held EXCEPT ![d].size = size]
  /\ UNCHANGED <<taskStatus, emptied>>

Review(d) ==
  /\ held[d] # None /\ hrAdmins # {}
  /\ \E verdict \in Verdict : held' = [held EXCEPT ![d].review = verdict]
  /\ UNCHANGED <<taskStatus, emptied>>

Remove(d) ==
  /\ held[d] # None
  /\ \E u \in User : /\ u = held[d].uploader \/ u \in hrAdmins
                     /\ held[d].case \in readable[u]
  /\ held' = [held EXCEPT ![d] = None]
  /\ emptied' = emptied \cup ({held[d].task} \ {None})
  /\ UNCHANGED taskStatus

SetBack(t) ==
  /\ t \in emptied
  /\ \A d \in Doc : held[d] # None => held[d].task # t
  /\ taskStatus' = [taskStatus EXCEPT ![t] = "pending"]
  /\ UNCHANGED <<held, emptied>>

Next == \/ \E d \in Doc : Register(d) \/ Replace(d) \/ Review(d) \/ Remove(d)
        \/ \E t \in Task : SetBack(t)

Spec == Init /\ [][Next]_library
=============================================================================
