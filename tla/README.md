# HRIS onboarding: a TLA+ model of the system

The repository is an HR onboarding system: a NestJS API over PostgreSQL (Prisma)
and a document store, two web portals and a phone app. HR hires an employee and
opens an onboarding case; the employee is invited, signs in, works through the
tasks of the case, uploads documents and submits; HR reviews and approves, which
makes the employee active.

The specifications here model that API as *concurrent requests over one
database*, and its web clients as *pages that act on what they loaded last*. No
handler of the API opens a transaction, and Node gives way at every `await`: every
check is made on something read a step or more before the write it admits. No page
takes part in a transaction either: a click is several calls, any of which may be
lost. What goes wrong, and what cannot go wrong, between those steps is the subject
of this project.

## 1. The system

| Component | Source | State | Operations |
|---|---|---|---|
| Case state machine | `onboarding/case-state.machine.ts` | none | `assertCaseTransition` |
| Onboarding service | `onboarding/onboarding.{service,controller}.ts` | cases, tasks, offers | createCase, invite, accept, patchTask, submit, approve, rejectToInProgress; listCases, getCase (reads) |
| Employees service | `employees/employees.service.ts` | employees | create, update; list, get (reads) |
| Documents service | `documents/documents.service.ts`, `document-quota.ts` | `documents_meta` | register, saveUpload, review, remove; downloads (reads) |
| Storage drivers | `documents/{local-disk,s3,gcs}.storage.ts` | the bytes | createUpload, saveLocal, deleteObject, signed PUTs, bucket expiry |
| Audit log | `audit/audit.service.ts` | `audit_log` | append; list (read) |
| Sign-in | `identity/jwt-auth.guard.ts`, `identity-provider.service.ts`, `claims.ts` | users | verify a token, find, link or create the user |
| Roles, dev bypass, CORS | `identity/{roles.guard,dev-bypass}.ts`, `cors-origins.ts`, `main.ts` | none | decisions on a request |
| Notifications | `notifications/` | what was sent | sendInvite |
| Web admin portal | `apps/web-admin/src/{App.tsx,api.ts,oidc.ts}` | form and case in the page; the token in the browser | hire, invite, approve, return, review, delete; sign in and out |
| Web onboarding portal | `apps/web-onboarding/src/{App.tsx,api.ts,oidc.ts}` | the case last loaded; the token in the browser | accept, upload, complete, delete, submit; sign in and out |
| Phone app | `apps/mobile/lib/` | token in memory and on disk, case last loaded | sign in, sign out, the same calls |
| Landing page, shared constants, infrastructure | `apps/web-landing`, `packages/shared`, `infra` | none | static; the lifecycle rule of the bucket deletes old objects |

(Paths are under `src/apps/api/src/` unless they start with `apps`, `packages` or
`infra`.)

**How they interact.** Clients make HTTP calls, several at once and from several
browsers. Every call passes the sign-in guard, which may itself link or insert a
user, then the role guard, then a handler. A handler is a sequence of Prisma calls
and calls to the storage port, and ends with an audit row. Requests share the
tables and the store, nothing else. `approve` of a case writes the employee;
`remove` of a document writes a task of a case; `invite` and the guard write the
same user rows; an edit of an employee changes who may read a case (the manager)
and where an invitation goes (the address). The cloud store acts on its own:
clients PUT to signed URLs that outlive the row, and old objects expire.

**What is hard.**

* *Check then act.* `transition`, `approve`, `register`, `saveUpload`, `remove`,
  `invite` and the guard check on one read and write in a later call.
* *Several systems, no transaction.* A case and its employee, a row and its bytes,
  a change and its audit row: a failure between two calls leaves one without the
  other.
* *A client that makes several calls* (hire; register, put, complete) and may stop
  between them; *a page that acts on an old view*, with buttons that stay enabled
  while their calls run.
* *Tabs of one browser that share one token*, while each signs in, out and starts
  by itself.
* *A provider that is out of reach* while the tokens of another are verified.
* *Unique keys as the only concurrency control* of the user rows.

**What makes each component correct** (the properties checked are in section 4):
a case moves along its state machine, is reviewed only when submitted, and ends
with an active employee; the log tells what happened; an employee's documents stay
within the quota, rows and bytes agree, and a task without documents is pending
again; one person is one user, and that user is the invited employee; a token is
taken if and only if a provider that can be reached vouches for it; a page shows
what there is, shows whose token it uses, and leads on to an approved case whatever
call was lost.

## 2. The modules

| Module | Models | Extends |
|---|---|---|
| `CaseStateMachine` | the table of moves | |
| `CaseLifecycle` | abstract: what the service promises of a case | `CaseStateMachine` |
| `Onboarding` | accept, patchTask, submit, approve, return, the employee edit, and the removal of a document as far as it sets its task back | `CaseStateMachine` |
| `OnboardingProofs` | type, audit log, inductive invariant | `Onboarding` |
| `OnboardingRefinement` | proofs that `Onboarding` implements `CaseLifecycle` and keeps completed cases | `OnboardingProofs` |
| `DocumentLibrary` | abstract: what the service promises of the documents | |
| `Documents` | register, saveUpload, review, remove; both kinds of store | |
| `DocumentsProofs` | type, deletion, orphans, sizes, reviews, task reset | `Documents` |
| `DocumentsRefinement` | proofs that `Documents` keeps the quota and implements `DocumentLibrary` | `DocumentsProofs` |
| `Hiring` | create and edit of employees, createCase, invite, the hire form, the guard's users | |
| `HiringProofs` | type, users, invitations and hires | `Hiring` |
| `Identity` | verifying a token with several providers, claims, dev bypass | |
| `IdentityProofs` | type, order, verdicts, bypass, claims | `Identity` |
| `SignIn` | sign-in of the web portals, over several tabs | |
| `SignInProofs` | type, codes, the account shown | `SignIn` |
| `Portal` | the checklist page and the case page, over the API | `CaseStateMachine` |
| `PortalProofs` | type, files and tasks, rows and bytes, the view, that `Portal` implements `CaseLifecycle` | `Portal` |
| `MCOnboarding`, `MCDocuments`, `MCHiring`, `MCIdentity`, `MCSignIn`, `MCPortal` | the small instances for TLC | |

`Onboarding`, `Documents`, `Hiring` and `Identity` take the API apart, call by call.
`Portal` composes cases, tasks and documents, which share the status of the task of the
identity document, with the clients. It serves a call in as few steps as its properties
can tell apart: a handler of documents in two, a move of the case in one; what else
goes on inside a handler is the subject of the others. Both `Onboarding` and `Portal`
are shown to implement `CaseLifecycle`: the first step by step, where requests do not
overlap, the second always. `Identity` ends with an identity, which is what a sign-in
of `Hiring` starts with; `SignIn` ends with a page that has a token, which is what
`Portal` takes for granted.

### How a handler becomes actions

`Onboarding`, `Documents` and `Hiring` are written alike. A *request* is an element of
`Request`, used once. `pc[r]` names the next Prisma or storage call it will make,
`call[r]` is the body and the user it came with, and one or two more variables hold
what the handler keeps in locals and uses again (`seen`, `updated` in `Onboarding`;
`row` in `Documents`; `seen`, `who` in `Hiring`). One database or storage call, with
the synchronous code up to the next `await`, is one atomic step: that is what
PostgreSQL gives a single statement and Node a stretch of code without `await`. A
nested write (a case with its default tasks) and a native upsert are one statement or
one transaction of Prisma's own, hence one step.

`Arrive` starts a request with any call of `Calls`. A thrown check goes to
`refused` and a constraint of the database (P2002, P2025) to `failed`, both leaving
everything already written in place. `Lose` stops a request between any two steps:
a failed database call, or the process stopping, which is the same as losing every
request that runs. There is no retry in the API, so nothing resumes a lost request.

* `Onboarding`: `Load` is `getCase` (or the read of the task or the employee) with
  all checks up to the first write; `Reread` is the second read in `transition`;
  `ActivateEmployee` and `WriteCase` are the two writes of `approve`; `WriteCase`
  alone is the write of `transition`, an update by id that does not look at the
  status; `WriteTask`, `ResetTask`, `WriteEmployee` and `AppendAudit` the remaining
  ones. Of `remove` of a document it has what concerns a case: the check, the reset of
  the task (which looks at no status of the case, nor of the task) and the audit row;
  the calls in between are in `Documents`.
* `Documents`: `Sum` is the aggregate behind the quota; `Insert`, `Store`,
  `Resize`, `Mark` the writes; `remove` is `Erase` (or `EraseFails`, as the local
  driver swallows errors), `Delete`, `Count`, `ResetTask`, `AppendAudit`.
  `PutObject` and `Expire` belong to the cloud: the driver (`cloud`) is chosen at the
  start, so each run has both. A document is named by the request
  that registered it, as `randomUUID` is fresh.
* `Hiring`: the guard is `FindBySub`, `FindByEmail`, `Link` or `AddUser`; `invite` is
  `ReadCase`, `FindUser`, `Upsert`, `Notify`, `Stamp`, `AppendAudit`; `hire` is the
  form of the admin portal, which makes the call of `create` and then that of
  `createCase`. The second call is a request of its own: `Again` is the guards letting
  it in or turning it away (`denied`: 401 or 403). `Unique` states the unique keys of
  the schema for the write about to be made, and `Collide` is what happens when one
  refuses it.

`Init` is a database with rows in it. In `Onboarding` cases begin as `createCase`
or the seed leaves them (invited or in progress, tasks pending or done), in
`Documents` with documents registered whose bytes may or may not have arrived, in
`Hiring` with employees, users, cases and offers as given by the constants.

### How a page becomes actions

`Portal`: a page is an element of `Tab`. `view[t]` is the state `c` of its component,
and every button is a guard on that view (`AcceptShown`, `UploadShown`, ...), never
on the database. A click starts a *chain*: the calls of the click's function
(`upload`: register, put, patch), each sent when the one before was answered well,
and then a load (`Then`). `run[c]` is the call under way and its answer. `Serve` is
the API, which refuses by the same checks as in `Onboarding` and `Documents`. Its
handlers of documents give way once: `Register` sums and `Insert` writes whatever was
inserted since, `CheckUpload` checks and `SaveUpload` writes whatever was deleted since,
`Remove` deletes and `ResetTask` takes the task back whatever was registered since.
(`Remove` takes file and row in one step; the window between the two is in `Documents`.)
`cloud`, chosen at the start, is the storage driver: in the cloud a
file is put to a presigned URL (`PutObject`, the `putBinary` of
`web-onboarding/src/api.ts`), where neither a row nor the quota is looked at.
`Continue` is the page: it goes on (`Proceed`), shows what it loaded
(`Show`, `setC`) or stops at the first failure (`Stop`, the `catch`). `Lose` is a
call or an answer that does not arrive, `GiveUp` a page that is left while the API
may still serve the call. A page has as many chains at once as `Chain` gives it,
since no button is disabled while calls run.

`SignIn`: `stored` is the token in `localStorage`, shared by the tabs; `sess[t]` the
state and verifier in the `sessionStorage` of a tab; `url[t]` the callback in its
address. `Load`, `Return` and `Again` start the script of a page; `Consume` and
`Exchange` are `consumeAuthCodeIfPresent` up to its first `await`, `ExchangeOk` and
`ExchangeFails` what follows; `BootOk` and `BootFails` the answer to `GET /me`.
`Submit`, `FormOk`, `LoginOk`, `LoginFails` are the form (`loginWithOidc`, `pick`),
`HostedUi` the redirect, `Logout` the sign-out. Between two `await`s is one step.

`Identity`: one request with a token and the hosts it came from, and any
configuration. `Bypass` is the branch of the guard for dev tokens, `Verify` the start
of `verifyAccessToken`, `TryNext` and `Accept` one turn of its loop, `Refuse` its
end. `left` is the part of the list not yet tried; `Before` is the order the two
`filter`s put it in. `Outage` and `Recover` come between any two turns.

### What is abstracted

Names, texts, dates and URLs. Of an audit row: who wrote it (the request), the
action and, in `Onboarding`, the statuses before and after. Of an employee edit:
the status and the manager in `Onboarding`, the address in `Hiring`; the two modules
take the columns the other handlers read. Sizes are small numbers. Roles are a
guard of the action. Tokens are verified before `Hiring` sees them, and carry
always the same address, or never one. Reads that change nothing are not modelled,
except where a page acts on what it read.

* `Portal`: the task of the identity document and one task for all those without a
  file. The clicks that change nothing a checklist shows (invite, review, viewing a
  file), and the page of the manager, whose button sends the same PATCH, are left
  out. A new document gets a name that nobody remembers and under which no bytes are
  stored; which one makes no difference, so one is picked.
* `SignIn`: a token is named by the sign-in it came from, and so are its state and
  its code; a name is used again when every other tab has forgotten it (`Fresh`). A
  token the API refuses and a call that fails are told apart only where the code
  does. The dev button, a duplicated tab and the second run of effects in
  development are left out.
* `Identity`: a claim is a string that is an address, blank, or another one; a token
  has the key it was signed with. All claims that `claims.ts` reads for the role, the
  subject, the address and the audience are there, `cognito:username` among them. The
  display name, a request without a Bearer header and the table of CORS origins are
  left out.

## 3. Bounds

Each constant that bounds a run is named in its `.cfg`:

* `Request`: 2 to 4 requests in a behaviour. A race is of two requests, a third is
  needed for what makes the race matter (submit, then approve against return).
  Symmetric where no call names a request.
* `Calls`: the calls clients may make. Those of concurrent runs are wider in users,
  those of `onboarding_apart` narrower (`ApartCalls`: one caller for each operation, a
  removal by the employee only), so that longer sequences fit. A run that looks for a
  violation has the calls that matter to it (`ReviewCalls`, `RaceCalls`,
  `RegroupedCalls`).
* `CONSTRAINT`: `Apart` stops a behaviour where two requests overlap that must not. It
  names the few pairs of steps that disturb each other, by case, employee, task or
  document; everything else overlaps freely. It is a scenario, not something the code
  enforces: the runs without it show what any overlap leaves, and the theorems take the
  parts of `Apart` they need as their only hypothesis (section 5). `completed_is_final`
  has `OneSubmission`: without it TLC's shortest trace is two submissions of one case,
  and the run is about a return.
* `Faults`, `DiskErrors`: whether requests may be lost and unlinks may fail. They
  are off in runs that look for a violation, to show it needs no failure, and on
  where the violation is about a failure.
* `MaxFile = 2`, `Quota = 4`: two files of the largest size fill the quota exactly,
  and a third of size 1 is one too many. Registered sizes go from 1 to 3, so that
  one is over the limit of a file.
* `PutSizes = {1, 3}`: a body PUT to a signed URL that is smaller and one that is
  larger than declared.

* `MaxOutages = 1`: one provider goes out of reach once, at any moment. Lists have
  up to two key sets and issuers, equal ones included: with them every way of
  pairing them occurs.
* `Chain`, `Doc`, `Quota` of the portals. `portal`: two chains of the employee's page,
  one of HR's, two names of documents and room for one, so that an upload and a deletion
  overlap, two registrations are summed for the same room, and one is refused.
  `portal_progress`: one chain of each page, three names and room for one: a half-done
  upload fills the quota, and the way on is to delete it.
* `MaxFaults`: calls lost, pages left, sign-ins denied, tokens expired. `MaxWhims`:
  clicks that lead away (a return by HR, a deletion of a good document, a submit that
  is too early; a sign-out, a reload while calls run, Back). In `Portal` they are
  counted by `whims`, and clicks made while a call of the page runs by `hasty`;
  `MaxWhims` bounds both together. All bound what may go wrong *before* progress is
  asked for; one fault and one whim suffice to reach every state that a single accident
  leaves, and the safety properties of these modules are proved for any number of them.
* `Token`, `Account`: two accounts with a token each, in two tabs.

Deadlock is not checked for the requests of the API: a behaviour ends when its
requests are used up. It is checked for `Portal` and `SignIn`: a page can always be
opened again.

## 4. Runs

Passing (states are TLC's distinct states):

| Run | Properties | States | Shows |
|---|---|---|---|
| `onboarding_concurrent` | `TypeOK`, `ActivatedBeforeCompleted`, `ApprovedOnlyIfSubmitted`, `ReviewedWorkIsComplete`, `AuditMatchesWrites` | 1.7 M | What survives overlap and losses: no completed case for a candidate nobody activated, none that was never submitted, no incomplete task under review but one that was set back, by an edit or by the removal of its document; the log reports only what happened, once. |
| `onboarding_apart` | `TrailExplainsStatus`, `ImplementsLifecycle`, `CompletedIsFinal` | 2.7 M | But for the pairs that `Apart` names, requests that overlap and get lost are steps of `CaseLifecycle`, a completed case stays so, and the audit rows of a case chain up to its status. |
| `documents_concurrent` | `TypeOK`, `DeletedOnce`, `LastRemovalResets` | 2.3 M | On a disk that fails or over a bucket, a deletion is audited once and is final; of overlapping removals the last resets the task. |
| `documents_apart` | `QuotaRespected`, `NoOrphanObject`, `SizeMatches`, `TrailExplainsReview`, `ImplementsLibrary` | 1.3 M | But for the pairs that `Apart` names, requests that overlap and get lost are steps of `DocumentLibrary`, the quota holds, rows and bytes on disk agree, and the log tells the review of a document. |
| `hiring` | `TypeOK`, `SamePersonSameUser`, `InviteeReachesCase`, `InvitedUserLinked`, `HireEndsWhole` | 0.5 M | A hire, an invitation, edits and first sign-ins from two identity providers, in any interleaving: all sign-ins of a person end with one user, and as long as no address has been edited that is the invited employee's; a hire leaves an employee without a case only when its second call is lost or turned away by the guards. |
| `identity` | `TypeOK`, `VerdictFits`, `OwnProviderFirst`, `NothingStatedIsLost`, `DevTokensAreLocal` | 1.5 M | Every pairing of providers, tokens of each and of none, and an outage at any moment: who is taken and who is refused depends on the token's own provider only, which is asked first; of what the claims state under any of their names, nothing is lost. |
| `sign_in` | `TypeOK`, `ShownIsStored`, `CodeOnce`, `BootSettles`, `AccountsAgree` | 0.05 M | Tabs that sign in, out, expire and reload over one token: a code is sent once, no page stays blank, a page shows whose token it uses, and in the end all tabs do. |
| `portal` | `TypeOK`, `DoneByUpload`, `EmptyRowExplained`, `PageMissesNothing`, `ImplementsLifecycle` | 3.2 M | Overlapping clicks of an employee and HR on old views, over a local disk or a bucket: a task is done only behind its file; a row stays without bytes only after a loss or when two registrations overran the quota together; a page used without haste misses nothing; the case lives as `CaseLifecycle` says. |
| `portal_progress` | `Onboarded` | 0.2 M | Whatever call is lost, given up or refused, the buttons of the pages lead to an approved case and an active employee. |

Violated: each checks one sentence of the repository's tests or documents that the
code does not keep. None needs fairness; all are safety properties.

| Run | Property | What TLC shows |
|---|---|---|
| `completed_is_final` | `CompletedIsFinal` | A submission; then an approval and a return, the return passing its check while the approval is between its own check and its write. The return writes last: the completed case is in progress again. |
| `quota_race` | `QuotaRespected` | Two requests sum before either writes. |
| `role_mirror` | `RoleMirrorsClaims` | A subject signs in as a manager; its provider then makes it an HR administrator; the next sign-in leaves the row a manager's (`jwt-auth.guard.ts:51`), while ARCHITECTURE.md:97 calls the column a mirror of the claims. |

More differences were met while modelling, which need no run to be seen:

* `accept` is legal for a case under review, since the table has that edge for
  `return`: the case goes back to in progress (`onboarding.service.ts:158`).
* An upload that passed its check may write its file between the `deleteObject` and
  the delete of the row of a removal, so the file stays (`documents.service.ts:87`,
  `156`); by `NoOrphans` this is the only way.
* The hire form says it does both in one action and makes two calls: when the second
  is lost, or turned away by the guards (the token expired meanwhile, another tab signed
  out, its provider is out of reach, the user is no longer HR), there is an employee
  without a case, whose number and address the form cannot send again
  (`web-admin/src/App.tsx:609-616`). `HireEndsWhole` says that nothing else leaves one:
  a collision of keys leaves nothing, and no check of `createCase` fails on it.
* After an edit of an address, an invitation to its next owner takes over the user
  of the employee who had it before (`onboarding.service.ts:115-127`);
  `InvitedUserLinked` is stated up to the first edit.
* `submit` writes two reads after its check, so a task may be set back in between
  (`onboarding.service.ts:205-211`), by `patchTask` or by a removal of its document.
* A task may be set back under a case that is in review or completed: neither
  `patchTask` (`onboarding.service.ts:172`) nor the removal of the last document of a
  task (`documents.service.ts:163-168`) looks at the status of the case. One DELETE of
  the identity document is enough, and approval does not look at the tasks again.
  `ReviewedWorkIsComplete` has the exception for the very task that was set back, by
  either.
* A request lost between its write and its audit row leaves a change with no row;
  `AuditMatchesWrites` says that this is the only way.
* `remove` resets the task on a count taken before, so a document registered in
  between has its task reset under it (`documents.service.ts:160-168`).
* `createCase` drafts an offer from a title and drops its id, so the case names no
  offer (`onboarding.service.ts:80-94`).
* A page that starts with a token that fails drops the token stored by then, which
  may be one another tab has just stored (`web-onboarding/src/App.tsx:55`): that tab
  goes on showing its account until its next call. This is why `AccountsAgree` says
  *in the end*, and `ShownIsStored` speaks of pages alone with the token.
* The row of an upload whose bytes never came counts towards the quota, and hides the
  upload button, until it is deleted (`web-onboarding/src/App.tsx:412-424`).
* Two uploads of a page that overlap may be summed for the same room
  (`documents.service.ts:41-51`); then both puts are refused and two rows without bytes
  remain, though nothing was lost. `EmptyRowExplained` has that exception (`over`).
* On a bucket, a file put to a presigned URL after the deletion of its document stays
  there with no row (`web-onboarding/src/api.ts:25-28`), until the bucket expires it;
  and an upload to a local disk that crosses a removal leaves its file as well.
* HR deletes a document, or returns a case, without the employee's page being told: at
  rest it may show a document that is gone. `PageMissesNothing` is one-sided for that.

`PROJECT.json` names, for every property of a passing run, a mutant: a changed
definition, like a dropped check or a swapped order, under which TLC finds the
property violated. The mutants are in the modules, before the definition they
replace, marked as such.

**Fairness.** The API promises no request an answer within a bound, and no client
retries by itself, so `Onboarding`, `Documents`, `Hiring` and `Identity` assume none:
their properties are safety properties. Liveness is asked of the pages:

* `Portal`: `WF(Serve)` and `WF(Continue)` for each chain: the API answers what
  reached it, and a script goes on when its `await` returns (a call that is lost is
  `Lose`, which ends it). `SF(Open)` for each page: a person whose page is quiet loads
  it now and then. `SF` of pressing *a* button of the page that helps: strong, since
  other steps may take a button away again and again; which button is left to chance.
  Faults and whims need no fairness and are bounded, as nobody gets anywhere in a
  network that loses every call, or with an HR that returns every case.
* `SignIn`: `WF(Run)`: scripts run and calls are answered. `SF(Return)` and
  `SF(HostedUi)`: whoever is asked to sign in does so now and then, and finishes.
  `SF(Settled /\ Load)`: a page that has settled is loaded again now and then. The
  form (`Submit`) gets no fairness.

## 5. Proofs

The theorems hold for every value of the constants that satisfies the module's named
assumption (`OnboardingAssumption`, `DocumentsAssumption`, `HiringAssumption`,
`IdentityAssumption`, `SignInAssumption`, `PortalAssumption`), which TLC evaluates on
each run. The assumptions give the constants their types, keep `None` apart from rows
and calls, and say that what is in the database at the start is there by the schema's
keys.

**Onboarding.** `TypeCorrect` says also that the next step of a request belongs to its
call; the other proofs need that. `AuditCorrect` (`AuditMatchesWrites`) rests on
`WroteByStep`: `pc` tells whether a request has written. The three properties of the
case are not inductive: at its write, a request relies on what it checked two steps
before. `Inductive` (in `OnboardingProofs`, as it serves nothing else) adds
`Secured(r)` for every request on its way to its write: `submit` had each task complete
*unless that task was set back since*, by an edit or a removal, `approve` found a
submission and, past its first write, an active employee *unless edited since*. These
stay true under any step of the others because they are stated of the history
(`wrote`), which only grows. From the lemma `InductiveInvariant` follow
`ActivationFirst`, `SubmissionFirst` and `ReviewComplete`. `TrailExplained`: as long as
no row of the trail of a case was lost, a request of the case has read the status that
the trail ends with before it writes, and after its write has that as its `before`
(`TrailHolds`).

**What must not overlap.** Some properties do not hold of any overlap: two runs show
counterexamples. Rather than suppose that requests run one at a time, the theorems
suppose of the behaviour exactly what their argument needs, as `[]` of a predicate on
the requests under way:

| Hypothesis | No two requests ... | Needed for |
|---|---|---|
| `MovesApart` | of a case both between check and write of its status | `CompletedIsFinal`, `ImplementsLifecycle` |
| `SubmitsApart` | are a checked `submit` and an edit or removal about to set back a task of the case | `ImplementsLifecycle` |
| `EditsApart` | are an `approve` between its writes and an edit about to make that employee something else than active | `ImplementsLifecycle` |
| `TrailApart` | of a case both between the read for their audit row and the row | `TrailExplainsStatus` |
| `QuotaApart` | of an employee both between what their quota is judged by and the write | `QuotaRespected`, `ImplementsLibrary` |
| `TasksApart` | are a `register` about to insert for a task and a `remove` about to reset it | `ImplementsLibrary` |
| `ErasesApart` | are an upload and a `remove` of a document, which has erased the bytes and not deleted the row | `NoOrphanObject` |
| `UploadsApart` | are uploads of a document, both between the file and the row | `SizeMatches` |
| `ReviewsApart` | are reviews of a document, both between the row and the log | `TrailExplainsReview` |

Each is a window of a step or two, of requests about one case, employee, task or
document. `AloneApart` (one in each refinement module) shows that requests that run one
at a time meet them all. Losses are never excluded.

**Refinement of `CaseLifecycle`.** `LifecycleImplemented`: `Onboarding` implements it
under the mapping in `Onboarding` (a case is ready if its employee tasks are complete,
an employee is active if the column says so). Three invariants, each with the
hypothesis it needs, say that what a request on its way to its write has checked still
holds: the move (`MovesHold`), the tasks (`TasksHold`), the employee made active
(`ActiveHolds`). So the write by id, which looks at nothing, is a legal move.
`CompletionStays` needs the first alone: from `completed` no move is legal, so a
completed case that changes, as in the run `completed_is_final`, was in a race of two
operations of its own.

**Documents.** `DeletionOnce`: the step that decides is `Delete`, since only one
request finds the row; the invariant says that of the requests that deleted a
document and have not yet audited it there is one, and that a document not yet
registered has neither row nor removal. `NoOrphans`, for a local disk without errors:
a removal about to delete has erased, an upload about to write still has its row.
`RemovalResets`: the invariant `TaskFollows` says that once the last document of a task
is gone the task is pending, or a removal is on its way to `Count` or `ResetTask`, or
was lost there. `SizesMatch` and `ReviewsExplained`: where two stores differ (row and
bytes; row and log), a request is between its two writes there or was lost there
(`SizeInductive`, `ReviewInductive`). Both need `RowsFit`, so that no request touches
a document before it is registered.

**The quota.** `QuotaKept`: if the documents at the start are within the quota, the
documents of an employee always are. What `register` and `saveUpload` have admitted
must still be admissible when they write: `ChecksHold` says that the sum they took, less
what they replace and plus what they bring, is within the quota still. Only a write of
another request of the employee could add to the sum, and `QuotaApart` excludes that
one; removals may come at any time and only make room. The sum is a fold over the
documents of the employee, and no induction over data is at hand; `UsedIsSum` and the
lemmas before it go around it. A set of pairs has an element for each unit of each
document (`Units`), and the fold equals the cardinality of that set (`SumIsCount`): were
there a set of documents for which it does not, there would be one of least
cardinality, by the well-foundedness of `<`, and the fold's own equation, for one
document more, contradicts it. The facts on sums then are facts on cardinalities. They
need finitely many documents, hence `IsFiniteSet(OldDoc)` in the assumption, and
`RowsStayFinite`.

**Refinement of `DocumentLibrary`.** `LibraryImplemented`: every step of a handler is
one whole operation of the library, by someone who may do it, within the quota at that
moment, or changes nothing in it. The abstract `emptied` remembers which tasks a removed
document was for, and is mapped to the tasks of the rows that removals have read and
whose document is gone (`Emptied`). `SetBack` requires that no document of the task is
left: the count that `remove` made must still be zero at its reset (`NoneLeft`), which
is what `TasksApart` is for, and what goes wrong without it is the reset under a new
document that section 4 lists.

**Hiring.** `SignInsAgree`: the invariant says that the keys of the tables hold
(`KeysHold`) and that every user a sign-in found or made has the address of its token
(`TokensFit`), so two sign-ins of a person found the same row. It is here that the
assumption counts that a subject's tokens carry always the same address or never one,
and that users present at the start have the addresses of their persons.
`InviteesReachCases` and `InvitedUsersLinked` speak of behaviours up to the first edit
of an address (`NoEdits`, a state predicate that cannot become true again, so the
invariant is `NoEdits => InviteInductive`). Until then a linked user has the employee's
address (`LinksFit`), an invitation past its lookup holds the right user
(`InviteFits`), and no other invitation can take it. `HiresEndWhole`: no other request
adds or takes the rows a hire is named for (`PresenceKept`), and past the insert of the
employee every way to an answer but the guards' `denied` goes through that of the case.

**Identity.** `TypeCorrect` rests on `Covered`: what is left is what was not tried, so a
token is refused as invalid only after every provider had its turn. `VerdictsFit` adds
`Sound`: a provider that was tried in vain was out of reach or had not signed the
token. `OwnFirst` shows that of the providers left the one whose turn it is comes
before all others. `DevTokensLocal` is arithmetic on the first two numbers of an
address (`PrivateBlocks`). `NothingLost` shows that `FirstOf` finds an element of the
set if there is one; the least index exists because `<` is well-founded on `Nat`, and
the elements of a concatenation are those of its parts. It also says that a token is
refused for want of a subject only if no claim names anyone (`NobodyNamed`).

**SignIn.** `TypeCorrect` says also that a page that starts waits for one call. It needs
`Tidy`: the calls a page waits for are those of its start until it is ready, and those
of the form after. `CodeSentOnce`: the invariant `Expected` says that a sign-in a tab
expects back is expected by no other tab and its code has not been sent; sending it
removes it first. `ShownStays`: the invariant `Held` says of a page alone with the
token that it waits for one call at most, that the token being tried is the stored one,
and that it shows nobody meanwhile.

**Portal.** `TypeCorrect` needs what each call of a chain is about (`Fits`).
`TaskAfterFile` and `NoEmptyRow` rest on `RowInv`: unless two sums overran the quota
together (`over`), there are never more rows than fit, so the file of a row that is still
there is never refused (`RowFits`); and a chain past its put has its file stored or its
document deleted (`Sent`). `RestingPageComplete` needs `PageInv`: while nothing is lost
and no click is made in haste, the employee's only page has one chain at a time. What
its view misses, that chain has added, with a load still ahead and only calls before it
that are answered well, or are refused because HR has deleted the document meanwhile
(`Halfway`, `Covers`). HR's steps only take documents and completed tasks away
(`Shrinks`), so they make a view show too much, never too little.
`CaseLives`: under the mapping in `Portal` (one case, ready if its tasks are done) a
served call that moves the case is one move of `CaseLifecycle` (`MoveMaps`: approve is
`Complete`, whose step leaves the employee active), one that uploads or deletes changes
at most which cases are ready (`WorkMaps`), and whatever else a page does is a stutter.
So a page that acts on an old view or breaks off a chain costs a click, never a rule of
the case.

**Only model-checked.** `BootSettles`, `AccountsAgree` and `Onboarded` are liveness
under fairness, which is out of the provers' reach, as is `ENABLED`. All other
properties of the passing runs are theorems.

## 6. Not modelled

* `list`, downloads, `GET /audit` and the other reads, except for those a page acts
  on (`listCases` and `getCase` in `Portal`, `GET /me` in `SignIn`).
* The table of CORS origins: the browser enforces it, and no state depends on it.
* The phone: its screens make the calls of the checklist page, in the same chains; its
  session (`session.dart`), a token in memory and one in the phone's storage, is not
  modelled.
* Signed URLs, bucket names, mail, logging: input and output.
* The landing page, the shared constants and the seed: data. Infrastructure:
  declarative, except for the expiry of objects.
* Two processes of the API differ in nothing from one, as a request keeps no state
  outside the database.
* A crash of the database or of the store. A crash of the API is a request lost
  (`Lose`); nothing is recovered at its start, as it keeps nothing.

## 7. Plan

Done, in this order: `Onboarding` with its abstract specification, `Documents`,
`Hiring`, then the sign-in in front of them (`Identity`, `SignIn`) and the pages
(`Portal`), each with its proofs.

Left:

1. The session of the phone: a token stored before it is tried, refused calls that sign
out (`session.dart:82`). 2. That `Portal`, where no registrations overrun the quota
together, implements `DocumentLibrary` as it does `CaseLifecycle`, so that the halves
of the model meet there too. 3. A bound on what a race can do to a case: to which
statuses a completed case can go back.
