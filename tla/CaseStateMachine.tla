-------------------------- MODULE CaseStateMachine --------------------------
(***************************************************************************)
(* The case state machine of onboarding/case-state.machine.ts: the         *)
(* statuses of an onboarding case and the moves assertCaseTransition lets  *)
(* through.  It is a guard only: the code that writes the status column    *)
(* is in module Onboarding.                                                *)
(***************************************************************************)

\* enum CaseStatus of the Prisma schema.
CaseStatus == {"invited", "in_progress", "pending_hr", "completed", "cancelled"}

\* Mutant: the table also lets a case skip the review.
SkipReview == { <<"invited", "in_progress">>, <<"in_progress", "pending_hr">>,
                <<"in_progress", "completed">>, <<"pending_hr", "completed">>,
                <<"pending_hr", "in_progress">> }

\* The table TRANSITIONS as the set of its edges.
TRANSITIONS == { <<"invited", "in_progress">>,    <<"invited", "cancelled">>,
                 <<"in_progress", "pending_hr">>, <<"in_progress", "cancelled">>,
                 <<"pending_hr", "completed">>,   <<"pending_hr", "in_progress">>,
                 <<"pending_hr", "cancelled">> }

\* assertCaseTransition(from, to) returns; otherwise it throws a 400.
CanMove(from, to) == <<from, to>> \in TRANSITIONS
=============================================================================
