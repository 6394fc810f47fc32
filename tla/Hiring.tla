------------------------------- MODULE Hiring -------------------------------
(***************************************************************************)
(* How a hire comes into being: HR creates the employee and the case       *)
(* (employees.service.ts, onboarding.service.ts createCase, and the hire   *)
(* form of the admin portal, which makes both calls), invites (invite),    *)
(* and the person signs in (jwt-auth.guard.ts).  invite and the guard both *)
(* look a user row up and then link or create it, in separate calls to     *)
(* Prisma, and only the unique keys of the schema stand between them.      *)
(*                                                                         *)
(* Every Prisma call is one atomic step; a row is named by the request     *)
(* that inserted it.  The guard's local bypass only reads and is left out. *)
(***************************************************************************)
EXTENDS Naturals, FiniteSets

CONSTANTS Number, Email,              \* employee numbers, mail addresses
          Sub, tokenEmail,            \* subjects of the IdP, the address in their tokens or None
          Request,                    \* the requests of a behaviour, each used once
          OldEmployee, oldEmployee,   \* the rows there are at the start
          OldUser, oldUser, OldCase, oldCase, OldOffer, oldOffer,
          Calls,                      \* bound: the calls clients make
          Faults,                     \* TRUE: requests may be lost
          None                        \* null

VARIABLES employees, users, cases,    \* the row of each id, or None
          offers,                     \* the employee of each offer, or None
          mails,                      \* the invitations sent (console-notification.service.ts)
          audit,                      \* the rows of audit_log
          pc, call,                   \* per request: next step, arguments
          seen,                       \* the work email on the case invite read first
          who                         \* the user row invite or the guard found or made

tables == <<employees, users, cases, offers, mails, audit>>
vars == <<employees, users, cases, offers, mails, audit, pc, call, seen, who>>

Employee == OldEmployee \cup Request
User     == OldUser \cup Request
Case     == OldCase \cup Request
Offer    == OldOffer \cup Request

UserRole == {"hr_admin", "manager", "employee", "system_admin"}

\* What invite stores until the person signs in, and the guard for want of an address.
Pending(e) == <<"pending", e>>
Unknown(s) == <<"unknown", s>>

\* Mutant: no address is stored when the token has none.
TokenMail(s) == tokenEmail[s]

\* identity.email ?? `${identity.sub}@unknown.local`
MailOf(s) == IF tokenEmail[s] = None THEN Unknown(s) ELSE tokenEmail[s]

EmployeeRow == [number : Number, email : Email]
UserRow == [sub : Sub \cup {Pending(e) : e \in Employee},
            email : Email \cup {Unknown(s) : s \in Sub},
            employee : Employee \cup {None}, role : UserRole]
CaseRow == [employee : Employee, offer : Offer \cup {None}, invited : BOOLEAN]

\* Bodies of the calls of HR, and verified tokens.
Call == [op : {"createEmployee", "hire"}, number : Number, email : Email]
   \cup [op : {"createCase"}, employee : Employee, offer : Offer \cup {None}, title : BOOLEAN]
   \cup [op : {"invite"}, case : Case]
   \cup [op : {"update"}, employee : Employee, email : Email]
   \cup [op : {"signIn"}, sub : Sub, role : UserRole \cup {None}]

AuditAction == [auditEmployee |-> "EMPLOYEE_CREATED", auditCase |-> "CASE_CREATED",
                auditInvite |-> "CASE_INVITED", auditUpdate |-> "EMPLOYEE_UPDATED"]

AuditRow == [by : Request, action : {AuditAction[a] : a \in DOMAIN AuditAction},
             user : User \cup {None}]

\* Users present at the start are the persons their addresses say: who signed in
\* before did so with that address, and who is an employee has the employee's.
ASSUME HiringAssumption ==
  /\ tokenEmail \in [Sub -> Email \cup {None}]
  /\ oldEmployee \in [OldEmployee -> EmployeeRow]
  /\ oldUser \in [OldUser -> UserRow]
  /\ oldCase \in [OldCase -> [employee : OldEmployee, offer : OldOffer \cup {None}, invited : BOOLEAN]]
  /\ oldOffer \in [OldOffer -> OldEmployee]
  /\ Calls \subseteq Call /\ Faults \in BOOLEAN
  /\ None \notin Call \cup EmployeeRow \cup UserRow \cup CaseRow
  /\ None \notin Email \cup Employee \cup User
  /\ \A e \in Employee : Pending(e) \notin Sub
  /\ (OldEmployee \cup OldUser \cup OldCase \cup OldOffer) \cap Request = {}
  /\ \A d, e \in OldEmployee : oldEmployee[d].email = oldEmployee[e].email => d = e
  /\ \A t, u \in OldUser :
       \/ oldUser[t].sub = oldUser[u].sub
       \/ oldUser[t].email = oldUser[u].email
       \/ oldUser[t].employee = oldUser[u].employee /\ oldUser[t].employee # None
       => t = u
  /\ \A u \in OldUser :
       /\ oldUser[u].sub \in Sub => oldUser[u].email = MailOf(oldUser[u].sub)
       /\ oldUser[u].employee # None =>
            /\ oldUser[u].employee \in OldEmployee
            /\ oldUser[u].email = oldEmployee[oldUser[u].employee].email

-----------------------------------------------------------------------------
(* The rows there are, and the unique keys of the schema.                  *)

Employees == {e \in Employee : employees[e] # None}
Users     == {u \in User : users[u] # None}

\* Mutant: the user of that address gets the role and not the employee.
UpsertRoleOnly(r, e, mail) ==
  \/ \E u \in Users : /\ users[u].email = mail
                      /\ users' = [users EXCEPT ![u] = [@ EXCEPT !.role = "employee"]]
                      /\ who' = [who EXCEPT ![r] = u]
  \/ /\ \A u \in Users : users[u].email # mail
     /\ users' = [users EXCEPT ![r] = [sub |-> Pending(e), email |-> mail,
                                       employee |-> e, role |-> "employee"]]
     /\ who' = [who EXCEPT ![r] = r]

\* The row invite writes for employee e, whose address it read: the user of
\* that address becomes the employee's, or a new one awaits a sign-in.
UpsertUser(r, e, mail) ==
  \/ \E u \in Users : /\ users[u].email = mail
                      /\ users' = [users EXCEPT ![u] = [@ EXCEPT !.employee = e,
                                                                 !.role = "employee"]]
                      /\ who' = [who EXCEPT ![r] = u]
  \/ /\ \A u \in Users : users[u].email # mail
     /\ users' = [users EXCEPT ![r] = [sub |-> Pending(e), email |-> mail,
                                       employee |-> e, role |-> "employee"]]
     /\ who' = [who EXCEPT ![r] = r]

\* Mutant: the schema lacks @unique on the sub and the address of a user.
NoUniqueUser(r) ==
  pc[r] = "addEmployee" =>
    \A e \in Employees : employees[e].number # call[r].number /\ employees[e].email # call[r].email

\* The write the request is about to make breaks no unique key.
Unique(r) ==
  /\ pc[r] = "addEmployee" =>
       \A e \in Employees : /\ employees[e].number # call[r].number
                            /\ employees[e].email # call[r].email
  /\ pc[r] = "write" =>
       \A e \in Employees : employees[e].email = call[r].email => e = call[r].employee
  /\ pc[r] = "upsert" =>
       \A u \in Users : users[u].email # seen[r] =>
         /\ users[u].employee # cases[call[r].case].employee
         /\ (\A t \in Users : users[t].email # seen[r]) =>
              users[u].sub # Pending(cases[call[r].case].employee)
  /\ pc[r] = "link" =>
       \A u \in Users : users[u].sub = call[r].sub => u = who[r]
  /\ pc[r] = "addUser" =>
       \A u \in Users : users[u].sub # call[r].sub /\ users[u].email # MailOf(call[r].sub)

-----------------------------------------------------------------------------
(* The steps of a request.                                                 *)

PC == {"idle", "addEmployee", "auditEmployee", "again", "readEmployee", "readOffer", "addOffer",
       "addCase", "auditCase", "readCase", "findUser", "upsert", "notify", "stamp",
       "auditInvite", "write", "auditUpdate", "bySub", "byEmail", "link", "addUser",
       "done", "refused", "denied", "failed", "lost"}

Running(r) == pc[r] \in PC \ {"idle", "done", "refused", "denied", "failed", "lost"}

First == [createEmployee |-> "addEmployee", hire |-> "addEmployee",
          createCase |-> "readEmployee", update |-> "readEmployee",
          invite |-> "readCase", signIn |-> "bySub"]

Goto(r, from, to) == pc[r] = from /\ pc' = [pc EXCEPT ![r] = to]

Init == /\ employees = [e \in Employee |-> IF e \in OldEmployee THEN oldEmployee[e] ELSE None]
        /\ users = [u \in User |-> IF u \in OldUser THEN oldUser[u] ELSE None]
        /\ cases = [c \in Case |-> IF c \in OldCase THEN oldCase[c] ELSE None]
        /\ offers = [o \in Offer |-> IF o \in OldOffer THEN oldOffer[o] ELSE None]
        /\ mails = {} /\ audit = {}
        /\ pc = [r \in Request |-> "idle"]
        /\ call = [r \in Request |-> None]
        /\ seen = [r \in Request |-> None]
        /\ who = [r \in Request |-> None]

Arrive(r) ==
  \E k \in Calls :
    /\ Goto(r, "idle", First[k.op])
    /\ call' = [call EXCEPT ![r] = k]
    /\ UNCHANGED <<tables, seen, who>>

\* A unique key refuses the write: Prisma throws P2002 and the call ends in an error.
Collide(r) ==
  /\ pc[r] \in {"addEmployee", "write", "upsert", "link", "addUser"}
  /\ ~Unique(r)
  /\ pc' = [pc EXCEPT ![r] = "failed"]
  /\ UNCHANGED <<tables, call, seen, who>>

(* EmployeesService.create and update.                                     *)

AddEmployee(r) ==
  /\ Goto(r, "addEmployee", "auditEmployee")
  /\ Unique(r)
  /\ employees' = [employees EXCEPT ![r] = [number |-> call[r].number, email |-> call[r].email]]
  /\ UNCHANGED <<users, cases, offers, mails, audit, call, seen, who>>

WriteEmployee(r) ==
  /\ Goto(r, "write", "auditUpdate")
  /\ Unique(r)
  /\ employees' = [employees EXCEPT ![call[r].employee].email = call[r].email]
  /\ UNCHANGED <<users, cases, offers, mails, audit, call, seen, who>>

(* OnboardingService.createCase.                                           *)

\* What createCase is asked for; the hire form asks for its own employee.
Asked(r) == IF call[r].op = "hire" THEN [employee |-> r, offer |-> None, title |-> TRUE]
            ELSE [employee |-> call[r].employee, offer |-> call[r].offer, title |-> call[r].title]

AfterEmployee(r) == IF call[r].op = "update" THEN "write"
                    ELSE IF Asked(r).offer # None THEN "readOffer"
                    ELSE IF Asked(r).title THEN "addOffer" ELSE "addCase"

EmployeeOf(r) == IF call[r].op = "hire" THEN r ELSE call[r].employee

\* The employee is there, or the call is refused with 404.
ReadEmployee(r) ==
  /\ Goto(r, "readEmployee",
          IF employees[EmployeeOf(r)] # None THEN AfterEmployee(r) ELSE "refused")
  /\ UNCHANGED <<tables, call, seen, who>>

\* An offer that is given belongs to the employee, or the call is refused.
ReadOffer(r) ==
  /\ Goto(r, "readOffer",
          IF offers[call[r].offer] = call[r].employee THEN "addCase" ELSE "refused")
  /\ UNCHANGED <<tables, call, seen, who>>

AddOffer(r) ==
  /\ Goto(r, "addOffer", "addCase")
  /\ offers' = [offers EXCEPT ![r] = EmployeeOf(r)]
  /\ UNCHANGED <<employees, users, cases, mails, audit, call, seen, who>>

\* The case with its default tasks, one nested write.
AddCase(r) ==
  /\ Goto(r, "addCase", "auditCase")
  /\ cases' = [cases EXCEPT ![r] = [employee |-> Asked(r).employee, offer |-> Asked(r).offer,
                                    invited |-> FALSE]]
  /\ UNCHANGED <<employees, users, offers, mails, audit, call, seen, who>>

(* OnboardingService.invite.                                               *)

Invitee(r) == cases[call[r].case].employee

\* getCase, with the employee as it is now.
ReadCase(r) ==
  /\ pc[r] = "readCase"
  /\ \/ /\ cases[call[r].case] = None
        /\ pc' = [pc EXCEPT ![r] = "refused"]
        /\ UNCHANGED seen
     \/ /\ cases[call[r].case] # None
        /\ pc' = [pc EXCEPT ![r] = "findUser"]
        /\ seen' = [seen EXCEPT ![r] = employees[Invitee(r)].email]
  /\ UNCHANGED <<tables, call, who>>

FindUser(r) ==
  /\ pc[r] = "findUser"
  /\ \/ \E u \in Users : /\ users[u].employee = Invitee(r)
                         /\ who' = [who EXCEPT ![r] = u]
                         /\ pc' = [pc EXCEPT ![r] = "notify"]
     \/ /\ \A u \in Users : users[u].employee # Invitee(r)
        /\ pc' = [pc EXCEPT ![r] = "upsert"]
        /\ UNCHANGED who
  /\ UNCHANGED <<tables, call, seen>>

Upsert(r) ==
  /\ Goto(r, "upsert", "notify")
  /\ Unique(r)
  /\ UpsertUser(r, Invitee(r), seen[r])
  /\ UNCHANGED <<employees, cases, offers, mails, audit, call, seen>>

\* setRoleClaim is a stub that logs, so is sendInvite.
Notify(r) ==
  /\ Goto(r, "notify", "stamp")
  /\ mails' = mails \cup {[to |-> seen[r], case |-> call[r].case]}
  /\ UNCHANGED <<employees, users, cases, offers, audit, call, seen, who>>

Stamp(r) ==
  /\ Goto(r, "stamp", "auditInvite")
  /\ cases' = [cases EXCEPT ![call[r].case].invited = TRUE]
  /\ UNCHANGED <<employees, users, offers, mails, audit, call, seen, who>>

\* Mutant: the hire form makes its first call only.
AppendAuditOnly(r) ==
  /\ pc[r] \in DOMAIN AuditAction
  /\ audit' = audit \cup {[by |-> r, action |-> AuditAction[pc[r]], user |-> who[r]]}
  /\ pc' = [pc EXCEPT ![r] = "done"]
  /\ UNCHANGED <<employees, users, cases, offers, mails, call, seen, who>>

\* AuditService.append, last in each handler; the hire form has a second call to make.
AppendAudit(r) ==
  /\ pc[r] \in DOMAIN AuditAction
  /\ audit' = audit \cup {[by |-> r, action |-> AuditAction[pc[r]], user |-> who[r]]}
  /\ pc' = [pc EXCEPT ![r] = IF pc[r] = "auditEmployee" /\ call[r].op = "hire"
                             THEN "again" ELSE "done"]
  /\ UNCHANGED <<employees, users, cases, offers, mails, call, seen, who>>

\* The second call of the form is a request of its own with the token stored by then,
\* and passes the guards afresh: they let it in, or answer 401 (the token has expired
\* or is gone, its provider is out of reach) or 403 (the user is no longer HR).
Again(r) ==
  /\ \E next \in {"readEmployee", "denied"} : Goto(r, "again", next)
  /\ UNCHANGED <<tables, call, seen, who>>

(* JwtAuthGuard.canActivate, for a token that verified.                    *)

FindBySub(r) ==
  /\ pc[r] = "bySub"
  /\ \/ \E u \in Users : /\ users[u].sub = call[r].sub
                         /\ who' = [who EXCEPT ![r] = u]
                         /\ pc' = [pc EXCEPT ![r] = "done"]
     \/ /\ \A u \in Users : users[u].sub # call[r].sub
        /\ pc' = [pc EXCEPT ![r] = IF tokenEmail[call[r].sub] = None THEN "addUser" ELSE "byEmail"]
        /\ UNCHANGED who
  /\ UNCHANGED <<tables, call, seen>>

FindByEmail(r) ==
  /\ pc[r] = "byEmail"
  /\ \/ \E u \in Users : /\ users[u].email = tokenEmail[call[r].sub]
                         /\ who' = [who EXCEPT ![r] = u]
                         /\ pc' = [pc EXCEPT ![r] = "link"]
     \/ /\ \A u \in Users : users[u].email # tokenEmail[call[r].sub]
        /\ pc' = [pc EXCEPT ![r] = "addUser"]
        /\ UNCHANGED who
  /\ UNCHANGED <<tables, call, seen>>

Link(r) ==
  /\ Goto(r, "link", "done")
  /\ Unique(r)
  /\ users' = [users EXCEPT ![who[r]].sub = call[r].sub]
  /\ UNCHANGED <<employees, cases, offers, mails, audit, call, seen, who>>

AddUser(r) ==
  /\ Goto(r, "addUser", "done")
  /\ Unique(r)
  /\ users' = [users EXCEPT ![r] =
       [sub |-> call[r].sub, email |-> MailOf(call[r].sub), employee |-> None,
        role |-> IF call[r].role = None THEN "employee" ELSE call[r].role]]
  /\ who' = [who EXCEPT ![r] = r]
  /\ UNCHANGED <<employees, cases, offers, mails, audit, call, seen>>

\* The process stops, a call to Prisma fails, or the form is closed between its calls.
Lose(r) ==
  /\ Faults /\ Running(r)
  /\ pc' = [pc EXCEPT ![r] = "lost"]
  /\ UNCHANGED <<tables, call, seen, who>>

Next ==
  \E r \in Request :
    \/ Arrive(r) \/ Collide(r) \/ AddEmployee(r) \/ WriteEmployee(r)
    \/ ReadEmployee(r) \/ ReadOffer(r) \/ AddOffer(r) \/ AddCase(r)
    \/ ReadCase(r) \/ FindUser(r) \/ Upsert(r) \/ Notify(r) \/ Stamp(r)
    \/ AppendAudit(r) \/ Again(r) \/ FindBySub(r) \/ FindByEmail(r) \/ Link(r) \/ AddUser(r)
    \/ Lose(r)

Spec == Init /\ [][Next]_vars

\* A request that has yet to insert a row has none under its name.
Fresh(r) ==
  /\ pc[r] \in {"idle", "addEmployee"} => employees[r] = None
  /\ pc[r] \in {"idle", "addEmployee", "auditEmployee", "again", "readEmployee", "readOffer",
               "addOffer", "addCase"} => cases[r] = None
  /\ pc[r] \in {"idle", "readCase", "findUser", "upsert", "bySub", "byEmail", "addUser"}
       => users[r] = None

\* The next step of a request fits its call, and what it holds is there.
StepFits(r) ==
  /\ Fresh(r)
  /\ pc[r] = "idle" <=> call[r] = None
  /\ pc[r] = "idle" => who[r] = None
  /\ pc[r] \in {"addEmployee", "auditEmployee"} => call[r].op \in {"createEmployee", "hire"}
  /\ pc[r] = "readEmployee" => call[r].op \in {"hire", "createCase", "update"}
  /\ pc[r] = "again" => call[r].op = "hire"
  /\ pc[r] \in {"again", "readEmployee"} /\ call[r].op = "hire" => employees[r] # None
  /\ pc[r] = "readOffer" => call[r].op = "createCase" /\ call[r].offer # None
  /\ pc[r] \in {"readOffer", "addOffer", "addCase"}
       => call[r].op \in {"hire", "createCase"} /\ employees[EmployeeOf(r)] # None
  /\ pc[r] = "auditCase" => call[r].op \in {"hire", "createCase"}
  /\ pc[r] \in {"write", "auditUpdate"} => call[r].op = "update"
  /\ pc[r] = "write" => employees[call[r].employee] # None
  /\ pc[r] = "auditEmployee" => employees[r] # None
  /\ pc[r] \in {"readCase", "findUser", "upsert", "notify", "stamp", "auditInvite"}
       => call[r].op = "invite"
  /\ pc[r] \in {"findUser", "upsert", "notify", "stamp", "auditInvite"}
       => cases[call[r].case] # None /\ seen[r] # None
  /\ pc[r] \in {"bySub", "byEmail", "link", "addUser"} => call[r].op = "signIn"
  /\ pc[r] = "byEmail" => tokenEmail[call[r].sub] # None
  /\ pc[r] \in {"link", "notify", "stamp", "auditInvite"} => who[r] # None
  /\ pc[r] = "done" /\ call[r].op = "signIn" => who[r] # None
  /\ who[r] # None => users[who[r]] # None

\* Every variable keeps its type; a case has its employee.
TypeOK ==
  /\ employees \in [Employee -> EmployeeRow \cup {None}]
  /\ users \in [User -> UserRow \cup {None}]
  /\ cases \in [Case -> CaseRow \cup {None}]
  /\ offers \in [Offer -> Employee \cup {None}]
  /\ mails \subseteq [to : Email, case : Case]
  /\ audit \subseteq AuditRow
  /\ pc \in [Request -> PC]
  /\ call \in [Request -> Calls \cup {None}]
  /\ seen \in [Request -> Email \cup {None}]
  /\ who \in [Request -> User \cup {None}]
  /\ \A r \in Request : StepFits(r)
  /\ \A c \in Case : cases[c] # None => employees[cases[c].employee] # None

-----------------------------------------------------------------------------
(* Properties.                                                             *)

SignedIn(r) == pc[r] = "done" /\ call[r].op = "signIn"

\* However the guard, invite and edits interleave, all sign-ins of a person, with
\* whatever identity provider, end with the same user: what one request links or
\* creates, another finds by its subject or by its address.
SamePersonSameUser ==
  \A q, r \in Request : SignedIn(q) /\ SignedIn(r) /\ MailOf(call[q].sub) = MailOf(call[r].sub)
                        => who[q] = who[r]

\* A hire that ended in another way than by a loss, or by the guards turning its second
\* call away, has left an employee with a case or neither: a collision of keys leaves
\* nothing, and no refusal of createCase is met by the employee just made.  The form
\* promises more, that both are made in one action.
HireEndsWhole ==
  \A r \in Request : pc[r] \in {"done", "refused", "failed"} /\ call[r].op = "hire"
    => (employees[r] # None <=> cases[r] # None)

\* No edit of an employee's address has come in.
NoEdits == \A r \in Request : call[r] # None => call[r].op # "update"

\* Whoever signs in with the address an invitation went to is the user of the
\* invited employee, whether the sign-in or the invitation was first or both
\* ran at once, as long as no address has been edited.
InviteeReachesCase ==
  NoEdits =>
    \A m \in mails, r \in Request :
      SignedIn(r) /\ tokenEmail[call[r].sub] = m.to
        => users[who[r]].employee = cases[m.case].employee

\* AS_BUILT.md, "HR invites -> user linked": the user an audit row of an
\* invitation names is the employee's, and the case is stamped.
UserLinked ==
  \A a \in audit : a.action = "CASE_INVITED" =>
    LET c == call[a.by].case IN
    cases[c].invited /\ users[a.user].employee = cases[c].employee

\* No later invitation or sign-in takes the user of an invited employee away,
\* as long as no address has been edited.
InvitedUserLinked == NoEdits => UserLinked

-----------------------------------------------------------------------------
(* What a document says and the code does not keep.                        *)

\* ARCHITECTURE.md calls users.role the "DB mirror of claims": a sign-in that ends with
\* a role in its token leaves the user with that role.
RoleMirrorsClaims ==
  [][\A r \in Request :
       /\ pc[r] # "done" /\ pc'[r] = "done"
       /\ call[r].op = "signIn" /\ call[r].role # None
       => users'[who'[r]].role = call[r].role]_vars

-----------------------------------------------------------------------------
(* The inductive invariants behind the properties.                         *)

\* The keys of the tables: no two employees share an address, and no two users
\* a subject, an address or an employee.
KeysHold ==
  /\ \A d, e \in Employees : employees[d].email = employees[e].email => d = e
  /\ \A t, u \in Users :
       \/ users[t].sub = users[u].sub
       \/ users[t].email = users[u].email
       \/ users[t].employee = users[u].employee /\ users[t].employee # None
       => t = u

\* A user who signed in, or was found by the guard, has the address of the token.
TokensFit ==
  /\ \A u \in Users : users[u].sub \in Sub => users[u].email = MailOf(users[u].sub)
  /\ \A r \in Request : who[r] # None /\ call[r].op = "signIn"
       => users[who[r]].email = MailOf(call[r].sub)

\* The inductive invariant behind SamePersonSameUser: two sign-ins of a person
\* found rows with one address, and an address has one row.
SignInInductive == TypeOK /\ KeysHold /\ TokensFit

\* A user of an employee has the employee's address, so no invitation of
\* another employee takes the user away.
LinksFit ==
  \A u \in Users : users[u].employee # None =>
    /\ users[u].employee \in Employees
    /\ users[u].email = employees[users[u].employee].email

\* Invite past its lookup holds the user of its employee.
InviteFits(r) ==
  /\ pc[r] \in {"findUser", "upsert", "notify", "stamp", "auditInvite"}
       => seen[r] = employees[Invitee(r)].email
  /\ pc[r] \in {"notify", "stamp", "auditInvite"} => users[who[r]].employee = Invitee(r)
  /\ pc[r] = "auditInvite" => cases[call[r].case].invited

\* An invitation went to the address of an employee who has a user.
MailFits(m) ==
  /\ cases[m.case] # None
  /\ m.to = employees[cases[m.case].employee].email
  /\ \E u \in Users : users[u].employee = cases[m.case].employee

\* An audit row of an invitation names the user of a stamped case.
TrailFits(a) ==
  a.action = "CASE_INVITED" =>
    LET c == call[a.by].case IN
    /\ call[a.by] # None /\ call[a.by].op = "invite"
    /\ cases[c] # None /\ cases[c].invited
    /\ a.user \in Users /\ users[a.user].employee = cases[c].employee

\* The inductive invariant behind the invitations, as long as nothing is edited.
InviteInductive ==
  /\ SignInInductive
  /\ LinksFit
  /\ \A r \in Request : InviteFits(r)
  /\ \A m \in mails : MailFits(m)
  /\ \A a \in audit : TrailFits(a)

=============================================================================
