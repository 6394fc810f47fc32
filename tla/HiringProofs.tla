---------------------------- MODULE HiringProofs ----------------------------
(***************************************************************************)
(* Proofs about module Hiring, for any sets of employees, users, cases,    *)
(* subjects and requests, and any interleaving and losses of requests.     *)
(***************************************************************************)
EXTENDS Hiring, TLAPS

-----------------------------------------------------------------------------
(* Type correctness.                                                       *)

\* Which fields a call has, by its operation.
LEMMA CallFields ==
  ASSUME NEW k \in Calls
  PROVE  /\ k # None
         /\ k.op \in {"createEmployee", "hire", "createCase", "invite", "update", "signIn"}
         /\ k.op \in {"createEmployee", "hire"} => k.number \in Number /\ k.email \in Email
         /\ k.op = "createCase" => /\ k.employee \in Employee
                                   /\ k.offer \in Offer \cup {None} /\ k.title \in BOOLEAN
         /\ k.op = "invite" => k.case \in Case
         /\ k.op = "update" => k.employee \in Employee /\ k.email \in Email
         /\ k.op = "signIn" => k.sub \in Sub /\ k.role \in UserRole \cup {None}
<1>1. k \in Call /\ k # None
  BY HiringAssumption
<1>2. CASE k \in [op : {"createEmployee", "hire"}, number : Number, email : Email]
  BY <1>1, <1>2
<1>3. CASE k \in [op : {"createCase"}, employee : Employee, offer : Offer \cup {None},
                  title : BOOLEAN]
  BY <1>1, <1>3
<1>4. CASE k \in [op : {"invite"}, case : Case]
  BY <1>1, <1>4
<1>5. CASE k \in [op : {"update"}, employee : Employee, email : Email]
  BY <1>1, <1>5
<1>6. CASE k \in [op : {"signIn"}, sub : Sub, role : UserRole \cup {None}]
  BY <1>1, <1>6
<1>7. QED
  BY <1>1, <1>2, <1>3, <1>4, <1>5, <1>6 DEF Call

LEMMA FirstTable ==
  /\ First["createEmployee"] = "addEmployee" /\ First["hire"] = "addEmployee"
  /\ First["createCase"] = "readEmployee" /\ First["update"] = "readEmployee"
  /\ First["invite"] = "readCase" /\ First["signIn"] = "bySub"
BY DEF First

LEMMA MailType == \A s \in Sub : MailOf(s) \in Email \cup {Unknown(t) : t \in Sub}
BY HiringAssumption DEF MailOf

LEMMA InitType == Init => TypeOK
<1> SUFFICES ASSUME Init PROVE TypeOK
  OBVIOUS
<1> USE HiringAssumption DEF Init
<1>1. /\ employees \in [Employee -> EmployeeRow \cup {None}]
      /\ users \in [User -> UserRow \cup {None}]
  BY DEF Employee, User
<1>2. cases \in [Case -> CaseRow \cup {None}]
  <2>1. \A c \in OldCase : oldCase[c] \in CaseRow
    BY DEF CaseRow, Employee, Offer
  <2>2. QED
    BY <2>1 DEF Case
<1>3. /\ offers \in [Offer -> Employee \cup {None}]
      /\ mails \subseteq [to : Email, case : Case] /\ audit \subseteq AuditRow
      /\ pc \in [Request -> PC] /\ call \in [Request -> Calls \cup {None}]
      /\ seen \in [Request -> Email \cup {None}] /\ who \in [Request -> User \cup {None}]
  BY DEF Offer, Employee, PC
<1>4. \A r \in Request : StepFits(r)
  BY DEF StepFits, Fresh, Employee, Case, User
<1>5. \A c \in Case : cases[c] # None => employees[cases[c].employee] # None
  <2>1. SUFFICES ASSUME NEW c \in Case, cases[c] # None
                 PROVE  employees[cases[c].employee] # None
    OBVIOUS
  <2>2. c \in OldCase /\ cases[c] = oldCase[c] /\ cases[c].employee \in OldEmployee
    BY <2>1 DEF Case
  <2>3. QED
    BY <2>2 DEF Employee
<1>6. QED
  BY <1>1, <1>2, <1>3, <1>4, <1>5 DEF TypeOK

\* A step of one request, which takes no row away: what the other requests hold
\* still fits them.
OnlyStep(r) ==
  /\ \A q \in Request \ {r} : /\ pc'[q] = pc[q] /\ call'[q] = call[q]
                              /\ seen'[q] = seen[q] /\ who'[q] = who[q]
  /\ \A q \in Request \ {r} : /\ employees[q] = None => employees'[q] = None
                              /\ cases[q] = None => cases'[q] = None
                              /\ users[q] = None => users'[q] = None
  /\ \A e \in Employee : employees[e] # None => employees'[e] # None
  /\ \A u \in User : users[u] # None => users'[u] # None
  /\ \A c \in Case : cases[c] # None => /\ cases'[c] # None
                                        /\ cases'[c].employee = cases[c].employee

LEMMA OthersFit ==
  ASSUME TypeOK, NEW r \in Request, OnlyStep(r)
  PROVE  \A q \in Request \ {r} : StepFits(q)'
<1> TAKE q \in Request \ {r}
<1>1. StepFits(q) /\ pc'[q] = pc[q] /\ call'[q] = call[q] /\ seen'[q] = seen[q] /\ who'[q] = who[q]
  BY DEF TypeOK, OnlyStep
<1>2. pc[q] # "idle" => call[q] \in Calls
  BY <1>1 DEF TypeOK, StepFits
<1>3. pc[q] \in {"readOffer", "addOffer", "addCase"} => EmployeeOf(q) \in Employee
  BY <1>1, <1>2, CallFields DEF StepFits, EmployeeOf, Employee
<1>4. pc[q] = "write" => call[q].employee \in Employee
  BY <1>1, <1>2, CallFields DEF StepFits
<1>5. pc[q] \in {"findUser", "upsert", "notify", "stamp", "auditInvite"} => call[q].case \in Case
  BY <1>1, <1>2, CallFields DEF StepFits
<1>6. who[q] # None => who[q] \in User
  BY DEF TypeOK
<1>7. q \in Employee /\ EmployeeOf(q)' = EmployeeOf(q)
  BY <1>1 DEF Employee, EmployeeOf
<1>8. QED
  BY <1>1, <1>3, <1>4, <1>5, <1>6, <1>7 DEF StepFits, Fresh, OnlyStep

\* Steps that write no table but the log and the invitations.
LEMMA QuietOnly ==
  ASSUME TypeOK, NEW r \in Request, UNCHANGED <<employees, users, cases>>,
         \A q \in Request \ {r} : /\ pc'[q] = pc[q] /\ call'[q] = call[q]
                                  /\ seen'[q] = seen[q] /\ who'[q] = who[q],
         /\ offers' \in [Offer -> Employee \cup {None}]
         /\ mails' \subseteq [to : Email, case : Case] /\ audit' \subseteq AuditRow
         /\ pc' \in [Request -> PC] /\ call' \in [Request -> Calls \cup {None}]
         /\ seen' \in [Request -> Email \cup {None}] /\ who' \in [Request -> User \cup {None}],
         StepFits(r)'
  PROVE  TypeOK'
<1>1. OnlyStep(r)
  BY DEF OnlyStep
<1>2. \A q \in Request : StepFits(q)'
  BY <1>1, OthersFit
<1>3. QED
  BY <1>2 DEF TypeOK

-----------------------------------------------------------------------------
(* What the three steps that write a user row do.                          *)

\* invite gives the user of the address it read, or a new one, to its employee.
LEMMA UpsertEffect ==
  ASSUME TypeOK, NEW r \in Request, Upsert(r)
  PROVE  \E u \in User, x \in UserRow :
           /\ users' = [users EXCEPT ![u] = x] /\ who' = [who EXCEPT ![r] = u]
           /\ x.email = seen[r] /\ x.employee = Invitee(r)
           /\ users[u] # None => users[u].email = seen[r] /\ x.sub = users[u].sub
           /\ users[u] = None => /\ u = r /\ x.sub = Pending(Invitee(r))
                                 /\ \A t \in Users : users[t].email # seen[r]
<1> USE HiringAssumption
<1>1. /\ pc[r] = "upsert" /\ StepFits(r) /\ r \in User
      /\ call[r] \in Calls /\ call[r].op = "invite" /\ call[r].case \in Case
  BY CallFields DEF Upsert, Goto, TypeOK, StepFits, User
<1>2. Invitee(r) \in Employee /\ seen[r] \in Email /\ users[r] = None
  BY <1>1 DEF Invitee, StepFits, Fresh, TypeOK, CaseRow
<1>3. UpsertUser(r, Invitee(r), seen[r])
  BY DEF Upsert
<1>4. CASE \E u \in Users : /\ users[u].email = seen[r]
                            /\ users' = [users EXCEPT ![u] = [@ EXCEPT !.employee = Invitee(r),
                                                                       !.role = "employee"]]
                            /\ who' = [who EXCEPT ![r] = u]
  <2>1. PICK u \in Users :
               /\ users[u].email = seen[r]
               /\ users' = [users EXCEPT ![u] = [users[u] EXCEPT !.employee = Invitee(r),
                                                                 !.role = "employee"]]
               /\ who' = [who EXCEPT ![r] = u]
    BY <1>4 DEF Users, TypeOK
  <2>2. users[u] \in UserRow /\ u \in User /\ users[u] # None
    BY DEF Users, TypeOK
  <2>3. [users[u] EXCEPT !.employee = Invitee(r), !.role = "employee"] \in UserRow
    BY <1>2, <2>2 DEF UserRow, UserRole
  <2>4. QED
    BY <2>1, <2>2, <2>3 DEF UserRow
<1>5. CASE /\ \A u \in Users : users[u].email # seen[r]
           /\ users' = [users EXCEPT ![r] = [sub |-> Pending(Invitee(r)), email |-> seen[r],
                                             employee |-> Invitee(r), role |-> "employee"]]
           /\ who' = [who EXCEPT ![r] = r]
  <2>1. [sub |-> Pending(Invitee(r)), email |-> seen[r],
         employee |-> Invitee(r), role |-> "employee"] \in UserRow
    BY <1>2 DEF UserRow, UserRole
  <2>2. QED
    BY <1>1, <1>2, <1>5, <2>1
<1>6. QED
  BY <1>3, <1>4, <1>5 DEF UpsertUser

\* The guard puts the token's subject in the row it found by address.
LEMMA LinkEffect ==
  ASSUME TypeOK, NEW r \in Request, Link(r)
  PROVE  \E x \in UserRow :
           /\ who[r] \in User /\ users[who[r]] # None /\ call[r].sub \in Sub
           /\ users' = [users EXCEPT ![who[r]] = x]
           /\ x.sub = call[r].sub /\ x.email = users[who[r]].email
           /\ x.employee = users[who[r]].employee
<1>1. call[r] \in Calls /\ call[r].op = "signIn" /\ call[r].sub \in Sub
  BY CallFields DEF Link, Goto, TypeOK, StepFits
<1>2. who[r] \in User /\ users[who[r]] # None /\ users[who[r]] \in UserRow
  BY DEF Link, Goto, TypeOK, StepFits
<1>3. [users[who[r]] EXCEPT !.sub = call[r].sub] \in UserRow
  BY <1>1, <1>2 DEF UserRow
<1>4. users' = [users EXCEPT ![who[r]] = [users[who[r]] EXCEPT !.sub = call[r].sub]]
  BY <1>2 DEF Link, TypeOK
<1>5. QED
  BY <1>1, <1>2, <1>3, <1>4 DEF UserRow

\* The guard makes a row for a person it did not find.
LEMMA AddUserEffect ==
  ASSUME TypeOK, NEW r \in Request, AddUser(r)
  PROVE  \E x \in UserRow :
           /\ r \in User /\ users[r] = None /\ call[r].sub \in Sub
           /\ users' = [users EXCEPT ![r] = x] /\ who' = [who EXCEPT ![r] = r]
           /\ x.sub = call[r].sub /\ x.email = MailOf(call[r].sub) /\ x.employee = None
<1>1. /\ call[r] \in Calls /\ call[r].op = "signIn" /\ call[r].sub \in Sub
      /\ call[r].role \in UserRole \cup {None}
  BY CallFields DEF AddUser, Goto, TypeOK, StepFits
<1>2. r \in User /\ users[r] = None
  BY DEF AddUser, Goto, TypeOK, StepFits, Fresh, User
<1>3. [sub |-> call[r].sub, email |-> MailOf(call[r].sub), employee |-> None,
       role |-> IF call[r].role = None THEN "employee" ELSE call[r].role] \in UserRow
  BY <1>1, MailType DEF UserRow, UserRole
<1>4. QED
  BY <1>1, <1>2, <1>3 DEF AddUser

LEMMA StepType == TypeOK /\ [Next]_vars => TypeOK'
<1> SUFFICES ASSUME TypeOK, [Next]_vars PROVE TypeOK'
  OBVIOUS
<1> USE HiringAssumption
<1>0. ASSUME NEW r \in Request
      PROVE  /\ StepFits(r) /\ r \in Employee /\ r \in User /\ r \in Case /\ r \in Offer
             /\ pc[r] # "idle" => call[r] \in Calls /\ call[r] # None
  BY DEF TypeOK, StepFits, Employee, User, Case, Offer
<1>1. ASSUME NEW r \in Request, Arrive(r) PROVE TypeOK'
  <2>1. PICK k \in Calls : Goto(r, "idle", First[k.op]) /\ call' = [call EXCEPT ![r] = k]
    BY <1>1 DEF Arrive
  <2>2. UNCHANGED <<tables, seen, who>>
    BY <1>1 DEF Arrive
  <2>3. /\ pc'[r] \in {"addEmployee", "readEmployee", "readCase", "bySub"}
        /\ pc'[r] = "addEmployee" => k.op \in {"createEmployee", "hire"}
        /\ pc'[r] = "readEmployee" => k.op \in {"createCase", "update"}
        /\ pc'[r] = "readCase" => k.op = "invite"
        /\ pc'[r] = "bySub" => k.op = "signIn"
    BY <2>1, CallFields, FirstTable DEF Goto, TypeOK
  <2>4. /\ pc[r] = "idle" /\ pc' \in [Request -> PC] /\ call'[r] = k /\ k # None
        /\ call' \in [Request -> Calls \cup {None}]
        /\ \A q \in Request \ {r} : pc'[q] = pc[q] /\ call'[q] = call[q]
    BY <2>1, <2>3, CallFields DEF Goto, TypeOK, PC
  <2>5. StepFits(r)'
    BY <1>0, <2>2, <2>3, <2>4 DEF StepFits, Fresh, tables
  <2>6. QED
    BY <2>2, <2>4, <2>5, QuietOnly DEF TypeOK, tables
<1>2. ASSUME NEW r \in Request, Collide(r) \/ Lose(r) PROVE TypeOK'
  <2>1. /\ pc[r] # "idle" /\ pc'[r] \in {"failed", "lost"} /\ pc' \in [Request -> PC]
        /\ \A q \in Request \ {r} : pc'[q] = pc[q]
    BY <1>2 DEF Collide, Lose, Running, TypeOK, PC
  <2>2. UNCHANGED <<tables, call, seen, who>>
    BY <1>2 DEF Collide, Lose
  <2>3. StepFits(r)'
    BY <1>0, <2>1, <2>2 DEF StepFits, Fresh, tables
  <2>4. QED
    BY <2>1, <2>2, <2>3, QuietOnly DEF TypeOK, tables
<1>3. ASSUME NEW r \in Request, ReadEmployee(r) \/ ReadOffer(r) \/ AddOffer(r) PROVE TypeOK'
  <2>1. /\ pc[r] # "idle"
        /\ pc' = [pc EXCEPT ![r] = pc'[r]]
        /\ UNCHANGED <<employees, users, cases, mails, audit, call, seen, who>>
    BY <1>3 DEF ReadEmployee, ReadOffer, AddOffer, Goto, tables, TypeOK
  <2>2. /\ pc'[r] \in {"write", "readOffer", "addOffer", "addCase", "refused"}
        /\ pc'[r] = "write" => call[r].op = "update" /\ employees[call[r].employee] # None
        /\ pc'[r] = "readOffer" => call[r].op = "createCase" /\ call[r].offer # None
        /\ pc'[r] \in {"readOffer", "addOffer", "addCase"}
             => call[r].op \in {"hire", "createCase"} /\ employees[EmployeeOf(r)] # None
        /\ pc[r] \in {"readEmployee", "readOffer", "addOffer"}
    <3>1. CASE ReadEmployee(r)
      BY <1>0, <3>1, CallFields DEF ReadEmployee, Goto, TypeOK, AfterEmployee, Asked, EmployeeOf, StepFits
    <3>2. CASE ReadOffer(r) \/ AddOffer(r)
      BY <1>0, <3>2 DEF ReadOffer, AddOffer, Goto, TypeOK, StepFits
    <3>3. QED
      BY <1>3, <3>1, <3>2
  <2>3. offers' \in [Offer -> Employee \cup {None}]
    <3>1. CASE AddOffer(r)
      <4>1. EmployeeOf(r) \in Employee
        BY <1>0, <3>1, CallFields DEF AddOffer, Goto, StepFits, EmployeeOf
      <4>2. QED
        BY <3>1, <4>1 DEF AddOffer, TypeOK
    <3>2. CASE ReadEmployee(r) \/ ReadOffer(r)
      BY <3>2 DEF ReadEmployee, ReadOffer, tables, TypeOK
    <3>3. QED
      BY <1>3, <3>1, <3>2
  <2>4. StepFits(r)'
    BY <1>0, <2>1, <2>2 DEF StepFits, Fresh, EmployeeOf
  <2>5. pc' \in [Request -> PC] /\ \A q \in Request \ {r} : pc'[q] = pc[q]
    BY <2>1, <2>2 DEF TypeOK, PC
  <2>6. QED
    BY <2>1, <2>3, <2>4, <2>5, QuietOnly DEF TypeOK
<1>4. ASSUME NEW r \in Request, AddEmployee(r) \/ WriteEmployee(r) PROVE TypeOK'
  <2>1. /\ pc[r] \in {"addEmployee", "write"} /\ pc'[r] \in {"auditEmployee", "auditUpdate"}
        /\ pc' \in [Request -> PC] /\ \A q \in Request \ {r} : pc'[q] = pc[q]
        /\ UNCHANGED <<users, cases, offers, mails, audit, call, seen, who>>
    BY <1>4 DEF AddEmployee, WriteEmployee, Goto, TypeOK, PC
  <2>2. /\ employees' \in [Employee -> EmployeeRow \cup {None}]
        /\ \A e \in Employee : employees[e] # None => employees'[e] # None
        /\ \A q \in Request \ {r} : employees[q] = None => employees'[q] = None
        /\ StepFits(r)'
    <3>1. CASE AddEmployee(r)
      <4>1. [number |-> call[r].number, email |-> call[r].email] \in EmployeeRow
        BY <1>0, <3>1, CallFields DEF AddEmployee, Goto, StepFits, EmployeeRow
      <4>2. employees' = [employees EXCEPT ![r] =
                            [number |-> call[r].number, email |-> call[r].email]]
        BY <3>1 DEF AddEmployee
      <4>3. /\ employees' \in [Employee -> EmployeeRow \cup {None}] /\ employees'[r] # None
            /\ \A e \in Employee \ {r} : employees'[e] = employees[e]
        BY <1>0, <4>1, <4>2 DEF TypeOK
      <4>4. StepFits(r)'
        BY <1>0, <2>1, <3>1, <4>3 DEF StepFits, Fresh, AddEmployee, Goto, TypeOK
      <4>5. QED
        BY <4>3, <4>4 DEF Employee
    <3>2. CASE WriteEmployee(r)
      <4>1. /\ call[r].op = "update" /\ call[r].employee \in Employee /\ call[r].email \in Email
            /\ employees[call[r].employee] \in EmployeeRow
        BY <1>0, <3>2, CallFields DEF WriteEmployee, Goto, StepFits, TypeOK
      <4>2. [employees[call[r].employee] EXCEPT !.email = call[r].email] \in EmployeeRow
        BY <4>1 DEF EmployeeRow
      <4>3. /\ employees' \in [Employee -> EmployeeRow \cup {None}]
            /\ \A e \in Employee : employees'[e] = None <=> employees[e] = None
        BY <3>2, <4>1, <4>2 DEF WriteEmployee, TypeOK
      <4>4. StepFits(r)'
        BY <1>0, <2>1, <3>2, <4>1 DEF StepFits, Fresh, WriteEmployee, Goto, TypeOK
      <4>5. QED
        BY <4>3, <4>4 DEF Employee
    <3>3. QED
      BY <1>4, <3>1, <3>2
  <2>3. OnlyStep(r)
    BY <2>1, <2>2 DEF OnlyStep
  <2>4. \A q \in Request : StepFits(q)'
    BY <2>2, <2>3, OthersFit
  <2>5. \A c \in Case : cases'[c] # None => employees'[cases'[c].employee] # None
    <3>1. \A c \in Case : cases[c] # None => cases[c].employee \in Employee
      BY DEF TypeOK, CaseRow
    <3>2. QED
      BY <2>1, <2>2, <3>1 DEF TypeOK
  <2>6. QED
    BY <2>1, <2>2, <2>4, <2>5 DEF TypeOK
<1>5. ASSUME NEW r \in Request, AddCase(r) PROVE TypeOK'
  <2>1. /\ pc[r] = "addCase" /\ pc'[r] = "auditCase" /\ pc' \in [Request -> PC]
        /\ \A q \in Request \ {r} : pc'[q] = pc[q]
        /\ UNCHANGED <<employees, users, offers, mails, audit, call, seen, who>>
    BY <1>5 DEF AddCase, Goto, TypeOK, PC
  <2>2. /\ Asked(r).employee = EmployeeOf(r) /\ EmployeeOf(r) \in Employee
        /\ Asked(r).offer \in Offer \cup {None} /\ employees[EmployeeOf(r)] # None
    BY <1>0, <2>1, CallFields DEF Asked, EmployeeOf, StepFits
  <2>3. [employee |-> Asked(r).employee, offer |-> Asked(r).offer, invited |-> FALSE] \in CaseRow
    BY <2>2 DEF CaseRow
  <2>4. /\ cases' \in [Case -> CaseRow \cup {None}] /\ cases[r] = None
        /\ cases'[r] # None /\ cases'[r].employee = EmployeeOf(r)
        /\ \A c \in Case \ {r} : cases'[c] = cases[c]
    <3>1. cases[r] = None
      BY <2>1 DEF TypeOK, StepFits, Fresh
    <3>2. PICK row \in CaseRow : row.employee = EmployeeOf(r) /\ cases' = [cases EXCEPT ![r] = row]
      BY <1>5, <2>2, <2>3 DEF AddCase
    <3>3. r \in Case /\ cases \in [Case -> CaseRow \cup {None}] /\ None \notin CaseRow
      BY <1>0 DEF TypeOK, Case, HiringAssumption
    <3>4. QED
      BY <3>1, <3>2, <3>3
  <2>5. r \in Employee /\ EmployeeOf(r)' = EmployeeOf(r) /\ pc[r] = "addCase" /\ pc'[r] = "auditCase"
    BY <1>5, <2>1 DEF AddCase, Goto, EmployeeOf, Employee, TypeOK
  <2>6. StepFits(r)'
    BY <1>0, <2>1, <2>4, <2>5 DEF StepFits, Fresh
  <2>7. OnlyStep(r)
    BY <2>1, <2>4 DEF OnlyStep, Case
  <2>8. \A q \in Request : StepFits(q)'
    BY <2>6, <2>7, OthersFit
  <2>9. QED
    BY <2>1, <2>2, <2>4, <2>8 DEF TypeOK
<1>6. ASSUME NEW r \in Request, ReadCase(r) \/ FindUser(r) \/ FindBySub(r) \/ FindByEmail(r)
      PROVE  TypeOK'
  <2>1. /\ UNCHANGED <<tables, call>>
        /\ pc[r] \in {"readCase", "findUser", "bySub", "byEmail"}
        /\ pc' \in [Request -> PC] /\ \A q \in Request \ {r} : pc'[q] = pc[q]
    <3>1. /\ UNCHANGED <<tables, call>>
          /\ pc[r] \in {"readCase", "findUser", "bySub", "byEmail"}
      BY <1>6 DEF ReadCase, FindUser, FindBySub, FindByEmail
    <3>2. PICK p \in PC : pc' = [pc EXCEPT ![r] = p]
      BY <1>6 DEF ReadCase, FindUser, FindBySub, FindByEmail, PC
    <3>3. QED
      BY <3>1, <3>2 DEF TypeOK
  <2>2. /\ seen' \in [Request -> Email \cup {None}] /\ who' \in [Request -> User \cup {None}]
        /\ \A q \in Request \ {r} : seen'[q] = seen[q] /\ who'[q] = who[q]
        /\ StepFits(r)'
    <3>1. CASE ReadCase(r)
      <4>1. call[r] \in Calls /\ call[r].op = "invite" /\ call[r].case \in Case
        BY <1>0, <3>1, CallFields DEF ReadCase, StepFits
      <4>2. cases[call[r].case] # None => employees[Invitee(r)].email \in Email
        BY <4>1 DEF Invitee, TypeOK, CaseRow, EmployeeRow
      <4>3. CASE cases[call[r].case] = None
        <5>1. pc'[r] = "refused" /\ UNCHANGED <<seen, who>>
          BY <3>1, <4>3 DEF ReadCase, TypeOK
        <5>2. QED
          BY <1>0, <2>1, <3>1, <5>1 DEF TypeOK, StepFits, Fresh, ReadCase, tables
      <4>4. CASE cases[call[r].case] # None
        <5>1. /\ pc'[r] = "findUser" /\ UNCHANGED who
              /\ seen' = [seen EXCEPT ![r] = employees[Invitee(r)].email]
          BY <3>1, <4>4 DEF ReadCase, TypeOK
        <5>2. /\ seen' \in [Request -> Email \cup {None}] /\ seen'[r] # None
              /\ \A q \in Request \ {r} : seen'[q] = seen[q]
          BY <4>2, <4>4, <5>1 DEF TypeOK
        <5>3. StepFits(r)'
          BY <1>0, <2>1, <3>1, <4>1, <4>4, <5>1, <5>2 DEF StepFits, Fresh, ReadCase, tables
        <5>4. QED
          BY <5>1, <5>2, <5>3 DEF TypeOK
      <4>5. QED
        BY <4>3, <4>4
    <3>2. CASE FindUser(r) \/ FindBySub(r) \/ FindByEmail(r)
      <4>1. UNCHANGED seen
        BY <3>2 DEF FindUser, FindBySub, FindByEmail
      <4>2. CASE UNCHANGED who
        <5>1. CASE FindUser(r)
          <6>1. pc'[r] \in {"upsert", "notify"} /\ pc[r] = "findUser"
            BY <5>1 DEF FindUser, TypeOK
          <6>2. pc'[r] = "notify" => who[r] # None
            BY <4>2, <5>1, HiringAssumption DEF FindUser, TypeOK, Users
          <6>3. QED
            BY <1>0, <2>1, <4>1, <4>2, <6>1, <6>2 DEF TypeOK, StepFits, Fresh, tables
        <5>2. CASE FindBySub(r)
          <6>1. /\ pc'[r] \in {"done", "addUser", "byEmail"} /\ pc[r] = "bySub"
                /\ pc'[r] = "byEmail" => tokenEmail[call[r].sub] # None
                /\ pc'[r] = "done" => who[r] # None
            BY <4>2, <5>2, HiringAssumption DEF FindBySub, TypeOK, Users
          <6>2. QED
            BY <1>0, <2>1, <4>1, <4>2, <6>1 DEF TypeOK, StepFits, Fresh, tables
        <5>3. CASE FindByEmail(r)
          <6>1. pc'[r] \in {"link", "addUser"} /\ pc[r] = "byEmail"
            BY <5>3 DEF FindByEmail, TypeOK
          <6>2. pc'[r] = "link" => who[r] # None
            BY <4>2, <5>3, HiringAssumption DEF FindByEmail, TypeOK, Users
          <6>3. QED
            BY <1>0, <2>1, <4>1, <4>2, <6>1, <6>2 DEF TypeOK, StepFits, Fresh, tables
        <5>4. QED
          BY <3>2, <5>1, <5>2, <5>3
      <4>3. CASE ~UNCHANGED who
        <5>1. PICK u \in Users : who' = [who EXCEPT ![r] = u]
          BY <3>2, <4>3 DEF FindUser, FindBySub, FindByEmail
        <5>2. /\ pc'[r] \in {"notify", "done", "link"}
              /\ pc'[r] = "notify" => pc[r] = "findUser"
              /\ pc'[r] = "link" => pc[r] = "byEmail"
          BY <3>2, <4>3 DEF FindUser, FindBySub, FindByEmail, TypeOK
        <5>3. u \in User /\ u # None /\ users[u] # None
          BY <5>1 DEF Users
        <5>4. /\ who' \in [Request -> User \cup {None}] /\ who'[r] = u
              /\ \A q \in Request \ {r} : who'[q] = who[q]
          BY <5>1, <5>3 DEF TypeOK
        <5>5. StepFits(r)'
          BY <1>0, <2>1, <4>1, <5>2, <5>3, <5>4 DEF StepFits, Fresh, tables
        <5>6. QED
          BY <4>1, <5>4, <5>5 DEF TypeOK
      <4>4. QED
        BY <4>2, <4>3
    <3>3. QED
      BY <1>6, <3>1, <3>2
  <2>3. QED
    BY <2>1, <2>2, QuietOnly DEF TypeOK, tables
<1>7. ASSUME NEW r \in Request, Upsert(r) \/ AddUser(r) PROVE TypeOK'
  <2>1. PICK u \in User, x \in UserRow :
             /\ users' = [users EXCEPT ![u] = x] /\ who' = [who EXCEPT ![r] = u]
             /\ users[u] = None => u = r
    BY <1>7, UpsertEffect, AddUserEffect
  <2>2. /\ UNCHANGED <<employees, cases, offers, mails, audit, call, seen>>
        /\ pc[r] \in {"upsert", "addUser"} /\ pc'[r] \in {"notify", "done"}
        /\ pc'[r] = "notify" => pc[r] = "upsert"
        /\ pc' \in [Request -> PC] /\ \A q \in Request \ {r} : pc'[q] = pc[q]
    BY <1>7 DEF Upsert, AddUser, Goto, TypeOK, PC
  <2>3. /\ users' \in [User -> UserRow \cup {None}] /\ users'[u] # None /\ u # None
        /\ \A t \in User : users[t] # None => users'[t] # None
        /\ \A q \in Request \ {r} : users[q] = None => users'[q] = None
        /\ who' \in [Request -> User \cup {None}] /\ who'[r] = u
        /\ \A q \in Request \ {r} : who'[q] = who[q]
    BY <2>1 DEF TypeOK, User
  <2>4. StepFits(r)'
    BY <1>0, <2>2, <2>3 DEF StepFits, Fresh
  <2>5. OnlyStep(r)
    BY <2>2, <2>3 DEF OnlyStep
  <2>6. \A q \in Request : StepFits(q)'
    BY <2>4, <2>5, OthersFit
  <2>7. QED
    BY <2>2, <2>3, <2>6 DEF TypeOK
<1>8. ASSUME NEW r \in Request, Link(r) PROVE TypeOK'
  <2>1. PICK x \in UserRow : /\ who[r] \in User /\ users[who[r]] # None
                             /\ users' = [users EXCEPT ![who[r]] = x]
    BY <1>8, LinkEffect
  <2>2. /\ UNCHANGED <<employees, cases, offers, mails, audit, call, seen, who>>
        /\ pc[r] = "link" /\ pc'[r] = "done"
        /\ pc' \in [Request -> PC] /\ \A q \in Request \ {r} : pc'[q] = pc[q]
    BY <1>8 DEF Link, Goto, TypeOK, PC
  <2>3. /\ users' \in [User -> UserRow \cup {None}]
        /\ \A t \in User : users[t] # None <=> users'[t] # None
    BY <2>1 DEF TypeOK
  <2>4. StepFits(r)'
    BY <1>0, <2>1, <2>2, <2>3 DEF StepFits, Fresh
  <2>5. OnlyStep(r)
    BY <2>2, <2>3 DEF OnlyStep, User
  <2>6. \A q \in Request : StepFits(q)'
    BY <2>4, <2>5, OthersFit
  <2>7. QED
    BY <2>2, <2>3, <2>6 DEF TypeOK
<1>9. ASSUME NEW r \in Request, Notify(r) PROVE TypeOK'
  <2>1. /\ pc[r] = "notify" /\ pc'[r] = "stamp" /\ pc' \in [Request -> PC]
        /\ \A q \in Request \ {r} : pc'[q] = pc[q]
        /\ UNCHANGED <<employees, users, cases, offers, audit, call, seen, who>>
    BY <1>9 DEF Notify, Goto, TypeOK, PC
  <2>2. seen[r] \in Email /\ call[r].case \in Case
    BY <1>0, <2>1, CallFields DEF StepFits, TypeOK
  <2>3. mails' \subseteq [to : Email, case : Case]
    BY <1>9, <2>2 DEF Notify, TypeOK
  <2>4. StepFits(r)'
    BY <1>0, <2>1 DEF StepFits, Fresh
  <2>5. QED
    BY <2>1, <2>3, <2>4, QuietOnly DEF TypeOK
<1>10. ASSUME NEW r \in Request, Stamp(r) PROVE TypeOK'
  <2>1. /\ pc[r] = "stamp" /\ pc'[r] = "auditInvite" /\ pc' \in [Request -> PC]
        /\ \A q \in Request \ {r} : pc'[q] = pc[q]
        /\ UNCHANGED <<employees, users, offers, mails, audit, call, seen, who>>
    BY <1>10 DEF Stamp, Goto, TypeOK, PC
  <2>2. call[r].case \in Case /\ cases[call[r].case] \in CaseRow
    BY <1>0, <2>1, CallFields DEF StepFits, TypeOK
  <2>3. [cases[call[r].case] EXCEPT !.invited = TRUE] \in CaseRow
    BY <2>2 DEF CaseRow
  <2>4. /\ cases' \in [Case -> CaseRow \cup {None}]
        /\ \A c \in Case : /\ cases'[c] # None <=> cases[c] # None
                           /\ cases[c] # None => cases'[c].employee = cases[c].employee
    BY <1>10, <2>2, <2>3 DEF Stamp, TypeOK, CaseRow
  <2>5. StepFits(r)'
    BY <1>0, <2>1, <2>2, <2>4 DEF StepFits, Fresh
  <2>6. OnlyStep(r)
    BY <2>1, <2>4 DEF OnlyStep, Case
  <2>7. \A q \in Request : StepFits(q)'
    BY <2>5, <2>6, OthersFit
  <2>8. QED
    BY <2>1, <2>4, <2>7 DEF TypeOK
<1>11. ASSUME NEW r \in Request, AppendAudit(r) PROVE TypeOK'
  <2>1. /\ pc[r] \in DOMAIN AuditAction
        /\ pc[r] \in {"auditEmployee", "auditCase", "auditInvite", "auditUpdate"}
        /\ pc'[r] \in {"again", "done"} /\ pc' \in [Request -> PC]
        /\ pc'[r] = "again" => pc[r] = "auditEmployee" /\ call[r].op = "hire"
        /\ \A q \in Request \ {r} : pc'[q] = pc[q]
        /\ UNCHANGED <<employees, users, cases, offers, mails, call, seen, who>>
    BY <1>11 DEF AppendAudit, AuditAction, TypeOK, PC
  <2>2. audit' = audit \cup {[by |-> r, action |-> AuditAction[pc[r]], user |-> who[r]]}
    BY <1>11 DEF AppendAudit
  <2>3. audit' \subseteq AuditRow
    BY <2>1, <2>2 DEF AuditRow, TypeOK
  <2>4. StepFits(r)'
    BY <1>0, <2>1 DEF StepFits, Fresh
  <2>5. QED
    BY <2>1, <2>3, <2>4, QuietOnly DEF TypeOK
<1>12. ASSUME NEW r \in Request, Again(r) PROVE TypeOK'
  <2>1. /\ pc[r] = "again" /\ pc'[r] \in {"readEmployee", "denied"}
        /\ pc' \in [Request -> PC] /\ \A q \in Request \ {r} : pc'[q] = pc[q]
        /\ UNCHANGED <<employees, users, cases, offers, mails, audit, call, seen, who>>
    BY <1>12 DEF Again, Goto, TypeOK, PC, tables
  <2>2. StepFits(r)'
    BY <1>0, <2>1 DEF StepFits, Fresh
  <2>3. QED
    BY <2>1, <2>2, QuietOnly DEF TypeOK
<1>13. CASE UNCHANGED vars
  BY <1>13 DEF vars, TypeOK, StepFits, Fresh, EmployeeOf
<1>14. QED
  BY <1>1, <1>2, <1>3, <1>4, <1>5, <1>6, <1>7, <1>8, <1>9, <1>10, <1>11, <1>12, <1>13 DEF Next

\* Every variable keeps its type, in every reachable state.
THEOREM TypeCorrect == Spec => []TypeOK
BY InitType, StepType, PTL DEF Spec

-----------------------------------------------------------------------------
(* Sign-ins of one person end with one user.                               *)

LEMMA InitSignIn == Init => KeysHold /\ TokensFit
<1> SUFFICES ASSUME Init PROVE KeysHold /\ TokensFit
  OBVIOUS
<1> USE HiringAssumption
<1>1. /\ \A e \in Employees : e \in OldEmployee /\ employees[e] = oldEmployee[e]
      /\ \A u \in Users : u \in OldUser /\ users[u] = oldUser[u]
  BY DEF Init, Employees, Users, Employee, User
<1>2. KeysHold
  BY <1>1 DEF KeysHold
<1>3. TokensFit
  BY <1>1 DEF TokensFit, Init
<1>4. QED
  BY <1>2, <1>3

\* The steps that leave the user rows alone.
NoUserStep(r) ==
  \/ Arrive(r) \/ Collide(r) \/ AddEmployee(r) \/ WriteEmployee(r)
  \/ ReadEmployee(r) \/ ReadOffer(r) \/ AddOffer(r) \/ AddCase(r)
  \/ ReadCase(r) \/ FindUser(r) \/ Notify(r) \/ Stamp(r)
  \/ AppendAudit(r) \/ Again(r) \/ FindBySub(r) \/ FindByEmail(r) \/ Lose(r)

LEMMA UsersKept == ASSUME NEW r \in Request, NoUserStep(r) PROVE UNCHANGED users
BY DEF NoUserStep, Arrive, Collide, AddEmployee, WriteEmployee, ReadEmployee, ReadOffer, AddOffer,
       AddCase, ReadCase, FindUser, Notify, Stamp, AppendAudit, Again, FindBySub, FindByEmail, Lose,
       tables

\* A call, once issued, does not change.
LEMMA CallsKept ==
  ASSUME TypeOK, [Next]_vars
  PROVE  \A q \in Request : call[q] # None => call'[q] = call[q]
<1>1. ASSUME NEW r \in Request, Arrive(r)
      PROVE  \A q \in Request : call[q] # None => call'[q] = call[q]
  BY <1>1 DEF Arrive, Goto, TypeOK, StepFits
<1>2. ASSUME NEW r \in Request, ~Arrive(r), NoUserStep(r) \/ Upsert(r) \/ Link(r) \/ AddUser(r)
      PROVE  UNCHANGED call
  BY <1>2 DEF NoUserStep, Collide, AddEmployee, WriteEmployee, ReadEmployee, ReadOffer, AddOffer,
       AddCase, ReadCase, FindUser, Notify, Stamp, AppendAudit, Again, FindBySub, FindByEmail, Lose,
       Upsert, Link, AddUser
<1>3. CASE UNCHANGED vars
  BY <1>3 DEF vars
<1>4. QED
  BY <1>1, <1>2, <1>3 DEF Next, NoUserStep

\* Two user rows share no unique key.
Apart(x, y) == /\ x.sub # y.sub
               /\ x.email # y.email
               /\ y.employee # None => x.employee # y.employee

\* Row x is written for user u, and shares no key with another user.
WritesKeyed(u, x) ==
  /\ users' = [users EXCEPT ![u] = x]
  /\ \A t \in Users \ {u} : Apart(users[t], x)

LEMMA KeysStep == SignInInductive /\ [Next]_vars => KeysHold'
<1> SUFFICES ASSUME SignInInductive, [Next]_vars PROVE KeysHold'
  OBVIOUS
<1>0. TypeOK /\ KeysHold /\ None \notin EmployeeRow /\ None \notin UserRow
  BY HiringAssumption DEF SignInInductive
<1>1. ASSUME UNCHANGED <<employees, users>> PROVE KeysHold'
  BY <1>0, <1>1 DEF KeysHold, Employees, Users
<1>2. ASSUME UNCHANGED users,
             \A d, e \in Employees' : employees'[d].email = employees'[e].email => d = e
      PROVE  KeysHold'
  BY <1>0, <1>2 DEF KeysHold, Users
<1>3. ASSUME NEW r \in Request, AddEmployee(r) PROVE KeysHold'
  <2>1. /\ UNCHANGED users /\ \A e \in Employees : employees[e].email # call[r].email
        /\ employees' = [employees EXCEPT ![r] = [number |-> call[r].number,
                                                  email |-> call[r].email]]
    BY <1>3 DEF AddEmployee, Goto, Unique
  <2>2. \A d \in Employees' : /\ d # r => d \in Employees /\ employees'[d] = employees[d]
                              /\ d = r => employees'[d].email = call[r].email
    BY <1>0, <2>1 DEF Employees, TypeOK, Employee
  <2>3. QED
    BY <1>0, <1>2, <2>1, <2>2 DEF KeysHold
<1>4. ASSUME NEW r \in Request, WriteEmployee(r) PROVE KeysHold'
  <2>1. /\ UNCHANGED users
        /\ \A e \in Employees : employees[e].email = call[r].email => e = call[r].employee
        /\ employees' = [employees EXCEPT ![call[r].employee].email = call[r].email]
    BY <1>4 DEF WriteEmployee, Goto, Unique
  <2>2. /\ call[r].employee \in Employee /\ employees[call[r].employee] # None
        /\ employees[call[r].employee] \in EmployeeRow
    BY <1>0, <1>4, CallFields DEF WriteEmployee, Goto, TypeOK, StepFits
  <2>3. \A d \in Employees' :
          /\ d \in Employees
          /\ d # call[r].employee => employees'[d] = employees[d]
          /\ d = call[r].employee => employees'[d].email = call[r].email
    BY <1>0, <2>1, <2>2 DEF Employees, TypeOK, EmployeeRow
  <2>4. QED
    BY <1>0, <1>2, <2>1, <2>3 DEF KeysHold
<1>5. ASSUME UNCHANGED employees, NEW u \in User, NEW x \in UserRow, WritesKeyed(u, x)
      PROVE  KeysHold'
  <2>1. \A t \in Users' : /\ t # u => t \in Users /\ users'[t] = users[t]
                          /\ t = u => users'[t] = x
    BY <1>0, <1>5 DEF WritesKeyed, Users, TypeOK
  <2>2. \A d, e \in Employees' : employees'[d].email = employees'[e].email => d = e
    BY <1>0, <1>5 DEF KeysHold, Employees
  <2>3. \A t \in Users \ {u} : Apart(users[t], x)
    BY <1>5 DEF WritesKeyed
  <2>4. ASSUME NEW t \in Users', NEW v \in Users',
               \/ users'[t].sub = users'[v].sub \/ users'[t].email = users'[v].email
               \/ users'[t].employee = users'[v].employee /\ users'[t].employee # None
        PROVE  t = v
    <3>1. CASE t # u /\ v # u
      <4>1. /\ t \in Users /\ v \in Users
            /\ users'[t] = users[t] /\ users'[v] = users[v]
        BY <2>1, <3>1
      <4>2. \/ users[t].sub = users[v].sub \/ users[t].email = users[v].email
            \/ users[t].employee = users[v].employee /\ users[t].employee # None
        BY <2>4, <4>1
      <4>3. QED
        BY <1>0, <4>1, <4>2 DEF KeysHold
    <3>2. \A a \in Users' : a # u => Apart(users'[a], x)
      BY <2>1, <2>3
    <3>3. CASE t = u /\ v # u
      <4>1. users'[t] = x /\ Apart(users'[v], x)
        BY <2>1, <3>2, <3>3
      <4>2. QED
        BY <2>4, <4>1 DEF Apart
    <3>4. CASE t # u /\ v = u
      <4>1. users'[v] = x /\ Apart(users'[t], x)
        BY <2>1, <3>2, <3>4
      <4>2. QED
        BY <2>4, <4>1 DEF Apart
    <3>5. QED
      BY <3>1, <3>3, <3>4
  <2>5. QED
    BY <2>2, <2>4 DEF KeysHold
<1>6. ASSUME NEW r \in Request, Upsert(r) PROVE KeysHold'
  <2>1. PICK u \in User, x \in UserRow :
           /\ users' = [users EXCEPT ![u] = x]
           /\ x.email = seen[r] /\ x.employee = Invitee(r)
           /\ users[u] # None => users[u].email = seen[r] /\ x.sub = users[u].sub
           /\ users[u] = None => /\ x.sub = Pending(Invitee(r))
                                 /\ \A t \in Users : users[t].email # seen[r]
    BY <1>0, <1>6, UpsertEffect
  <2>2. \A t \in Users : users[t].email # seen[r] =>
         /\ users[t].employee # Invitee(r)
         /\ (\A s \in Users : users[s].email # seen[r]) => users[t].sub # Pending(Invitee(r))
    BY <1>6 DEF Upsert, Unique, Goto, Invitee
  <2>3. UNCHANGED employees
    BY <1>6 DEF Upsert
  <2>4. \A t \in Users \ {u} : users[t].email # seen[r]
    BY <1>0, <2>1 DEF KeysHold, Users
  <2>5. \A t \in Users \ {u} : users[t].employee # Invitee(r)
    BY <2>2, <2>4
  <2>6. \A t \in Users \ {u} : users[t].sub # x.sub
    <3>1. CASE users[u] # None
      BY <1>0, <2>1, <3>1 DEF KeysHold, Users
    <3>2. CASE users[u] = None
      BY <2>1, <2>2, <3>2
    <3>3. QED
      BY <3>1, <3>2
  <2>7. WritesKeyed(u, x)
    BY <2>1, <2>4, <2>5, <2>6 DEF WritesKeyed, Apart
  <2>8. QED
    BY <1>5, <2>3, <2>7
<1>7. ASSUME NEW r \in Request, Link(r) PROVE KeysHold'
  <2>1. PICK x \in UserRow :
           /\ who[r] \in User /\ users[who[r]] # None
           /\ users' = [users EXCEPT ![who[r]] = x]
           /\ x.sub = call[r].sub /\ x.email = users[who[r]].email
           /\ x.employee = users[who[r]].employee
    BY <1>0, <1>7, LinkEffect
  <2>2. \A t \in Users : users[t].sub = call[r].sub => t = who[r]
    BY <1>7 DEF Link, Unique, Goto
  <2>3. UNCHANGED employees
    BY <1>7 DEF Link
  <2>4. who[r] \in User /\ WritesKeyed(who[r], x)
    BY <1>0, <2>1, <2>2 DEF WritesKeyed, Apart, KeysHold, Users
  <2>5. QED
    BY <1>5, <2>3, <2>4
<1>8. ASSUME NEW r \in Request, AddUser(r) PROVE KeysHold'
  <2>1. PICK x \in UserRow :
           /\ r \in User /\ users' = [users EXCEPT ![r] = x]
           /\ x.sub = call[r].sub /\ x.email = MailOf(call[r].sub) /\ x.employee = None
    BY <1>0, <1>8, AddUserEffect
  <2>2. \A t \in Users : users[t].sub # call[r].sub /\ users[t].email # MailOf(call[r].sub)
    BY <1>8 DEF AddUser, Unique, Goto
  <2>3. UNCHANGED employees
    BY <1>8 DEF AddUser
  <2>4. r \in User /\ WritesKeyed(r, x)
    BY <2>1, <2>2 DEF WritesKeyed, Apart
  <2>5. QED
    BY <1>5, <2>3, <2>4
<1>9. ASSUME NEW r \in Request, NoUserStep(r), ~AddEmployee(r), ~WriteEmployee(r)
      PROVE  UNCHANGED employees
  BY <1>9 DEF NoUserStep, Arrive, Collide, ReadEmployee, ReadOffer, AddOffer,
       AddCase, ReadCase, FindUser, Notify, Stamp, AppendAudit, Again, FindBySub, FindByEmail, Lose,
       tables
<1>10. CASE UNCHANGED vars
  BY <1>1, <1>10 DEF vars
<1>11. QED
  BY <1>1, <1>3, <1>4, <1>6, <1>7, <1>8, <1>9, <1>10, UsersKept DEF Next, NoUserStep

\* A user keeps the address it was made with.
LEMMA AddressesKept ==
  ASSUME TypeOK, [Next]_vars
  PROVE  \A t \in Users : t \in Users' /\ users'[t].email = users[t].email
<1>1. ASSUME NEW u \in User, NEW x \in UserRow, users' = [users EXCEPT ![u] = x],
             users[u] # None => x.email = users[u].email
      PROVE  \A t \in Users : t \in Users' /\ users'[t].email = users[t].email
  BY <1>1, HiringAssumption DEF Users, TypeOK
<1>2. ASSUME NEW r \in Request, Upsert(r) \/ Link(r) \/ AddUser(r)
      PROVE  \E u \in User, x \in UserRow : /\ users' = [users EXCEPT ![u] = x]
                                            /\ users[u] # None => x.email = users[u].email
  BY <1>2, UpsertEffect, LinkEffect, AddUserEffect
<1>3. ASSUME UNCHANGED users
      PROVE  \A t \in Users : t \in Users' /\ users'[t].email = users[t].email
  BY <1>3 DEF Users
<1>4. CASE UNCHANGED vars
  BY <1>3, <1>4 DEF vars
<1>5. QED
  BY <1>1, <1>2, <1>3, <1>4, UsersKept DEF Next, NoUserStep

LEMMA TokensStep == SignInInductive /\ [Next]_vars => TokensFit'
<1> SUFFICES ASSUME SignInInductive, [Next]_vars PROVE TokensFit'
  OBVIOUS
<1> USE HiringAssumption
<1>0. /\ TypeOK
      /\ \A q \in Request : /\ call[q] # None => call'[q] = call[q]
                            /\ who[q] # None => who[q] \in Users /\ call[q] # None
      /\ \A t \in Users : t \in Users' /\ users'[t].email = users[t].email
  BY CallsKept, AddressesKept DEF SignInInductive, TypeOK, StepFits, Users
<1> DEFINE Fit(us) == \A t \in User : us[t] # None /\ us[t].sub \in Sub
                                      => us[t].email = MailOf(us[t].sub)
<1>f. Fit(users)
  BY DEF SignInInductive, TokensFit, Users
<1>1. Fit(users')
  <2>1. CASE UNCHANGED users
    BY <1>f, <2>1
  <2>2. ASSUME NEW u \in User, NEW x \in UserRow, users' = [users EXCEPT ![u] = x],
               x.sub \in Sub => x.email = MailOf(x.sub)
        PROVE  Fit(users')
    BY <1>0, <1>f, <2>2 DEF TypeOK
  <2>3. ASSUME NEW r \in Request, Upsert(r) PROVE Fit(users')
    <3>1. PICK u \in User, x \in UserRow :
             /\ users' = [users EXCEPT ![u] = x]
             /\ x.email = seen[r] /\ x.employee = Invitee(r)
             /\ users[u] # None => users[u].email = seen[r] /\ x.sub = users[u].sub
             /\ users[u] = None => x.sub = Pending(Invitee(r))
      BY <1>0, <2>3, UpsertEffect
    <3>2. x.sub \in Sub => x.email = MailOf(x.sub)
      <4>1. CASE users[u] # None
        BY <1>f, <3>1, <4>1
      <4>2. CASE users[u] = None
        <5>1. Invitee(r) \in Employee
          BY <1>0, <2>3, CallFields DEF Upsert, Goto, TypeOK, StepFits, Invitee, CaseRow
        <5>2. QED
          BY <3>1, <4>2, <5>1
      <4>3. QED
        BY <4>1, <4>2
    <3>3. QED
      BY <2>2, <3>1, <3>2
  <2>4. ASSUME NEW r \in Request, Link(r) PROVE Fit(users')
    <3>1. PICK x \in UserRow :
             /\ who[r] \in User /\ users[who[r]] # None
             /\ users' = [users EXCEPT ![who[r]] = x]
             /\ x.sub = call[r].sub /\ x.email = users[who[r]].email
      BY <1>0, <2>4, LinkEffect
    <3>2. who[r] # None /\ call[r].op = "signIn"
      BY <1>0, <2>4 DEF Link, Goto, TypeOK, StepFits
    <3>3. x.email = MailOf(x.sub)
      BY <3>1, <3>2 DEF SignInInductive, TokensFit
    <3>4. QED
      BY <2>2, <3>1, <3>3
  <2>5. ASSUME NEW r \in Request, AddUser(r) PROVE Fit(users')
    BY <1>0, <2>2, <2>5, AddUserEffect
  <2>6. CASE UNCHANGED vars
    BY <2>1, <2>6 DEF vars
  <2>7. QED
    BY <2>1, <2>3, <2>4, <2>5, <2>6, UsersKept DEF Next, NoUserStep
<1>2. \A q \in Request : who[q] # None /\ call'[q].op = "signIn"
        => users'[who[q]].email = MailOf(call'[q].sub)
  BY <1>0 DEF SignInInductive, TokensFit
<1>3. ASSUME NEW r \in Request, who'[r] # who[r], who'[r] # None, call'[r].op = "signIn"
      PROVE  users'[who'[r]].email = MailOf(call'[r].sub)
  <2>1. FindBySub(r) \/ FindByEmail(r) \/ AddUser(r) \/ FindUser(r) \/ Upsert(r)
    <3>1. ASSUME NEW q \in Request, q # r,
                 FindBySub(q) \/ FindByEmail(q) \/ AddUser(q) \/ FindUser(q) \/ Upsert(q)
          PROVE  who'[r] = who[r]
      <4>1. \E u \in User : who' = [who EXCEPT ![q] = u] \/ who' = who
        <5>1. CASE Upsert(q)
          BY <1>0, <3>1, <5>1, UpsertEffect
        <5>2. CASE FindBySub(q) \/ FindByEmail(q) \/ AddUser(q) \/ FindUser(q)
          BY <5>2 DEF FindBySub, FindByEmail, AddUser, FindUser, Users, User
        <5>3. QED
          BY <3>1, <5>1, <5>2
      <4>2. QED
        BY <1>0, <3>1, <4>1 DEF TypeOK
    <3>2. ASSUME NEW q \in Request,
                 \/ Arrive(q) \/ Collide(q) \/ AddEmployee(q) \/ WriteEmployee(q)
                 \/ ReadEmployee(q) \/ ReadOffer(q) \/ AddOffer(q) \/ AddCase(q)
                 \/ ReadCase(q) \/ Notify(q) \/ Stamp(q) \/ AppendAudit(q) \/ Again(q)
                 \/ Link(q) \/ Lose(q)
          PROVE  who' = who
      BY <3>2 DEF Arrive, Collide, AddEmployee, WriteEmployee, ReadEmployee, ReadOffer, AddOffer,
             AddCase, ReadCase, Notify, Stamp, AppendAudit, Again, Link, Lose
    <3>3. CASE UNCHANGED vars
      BY <1>3, <3>3 DEF vars
    <3>4. QED
      BY <1>3, <3>1, <3>2, <3>3 DEF Next
  <2>2. /\ call' = call /\ call[r] \in Calls
        /\ FindBySub(r) \/ FindByEmail(r) \/ AddUser(r)
    <3>1. call' = call
      BY <2>1 DEF FindBySub, FindByEmail, AddUser, FindUser, Upsert
    <3>2. ~FindUser(r) /\ ~Upsert(r)
      BY <1>0, <1>3, <3>1 DEF FindUser, Upsert, Goto, TypeOK, StepFits
    <3>3. call[r] \in Calls
      BY <1>0, <2>1 DEF FindBySub, FindByEmail, AddUser, FindUser, Upsert, Goto, TypeOK, StepFits
    <3>4. QED
      BY <2>1, <3>1, <3>2, <3>3
  <2>3. call[r].sub \in Sub
    BY <1>3, <2>2, CallFields
  <2>4. CASE FindBySub(r)
    <3>1. PICK u \in Users : users[u].sub = call[r].sub /\ who' = [who EXCEPT ![r] = u]
      BY <1>3, <2>4 DEF FindBySub
    <3>2. users' = users /\ who'[r] = u
      BY <1>0, <2>4, <3>1 DEF FindBySub, tables, TypeOK
    <3>3. QED
      BY <2>2, <2>3, <3>1, <3>2 DEF SignInInductive, TokensFit
  <2>5. CASE FindByEmail(r)
    <3>1. PICK u \in Users : users[u].email = tokenEmail[call[r].sub] /\ who' = [who EXCEPT ![r] = u]
      BY <1>3, <2>5 DEF FindByEmail
    <3>2. users' = users /\ who'[r] = u /\ tokenEmail[call[r].sub] # None
      BY <1>0, <2>5, <3>1 DEF FindByEmail, tables, TypeOK, StepFits
    <3>3. QED
      BY <2>2, <3>1, <3>2 DEF MailOf
  <2>6. CASE AddUser(r)
    <3>1. PICK x \in UserRow : /\ r \in User /\ users' = [users EXCEPT ![r] = x]
                               /\ who' = [who EXCEPT ![r] = r] /\ x.email = MailOf(call[r].sub)
      BY <1>0, <2>6, AddUserEffect
    <3>2. users'[r] = x /\ who'[r] = r
      BY <1>0, <3>1 DEF TypeOK
    <3>3. QED
      BY <2>2, <3>1, <3>2
  <2>7. QED
    BY <2>2, <2>4, <2>5, <2>6
<1>4. QED
  BY <1>1, <1>2, <1>3 DEF TokensFit, Users

\* The keys and the addresses of the tables fit the tokens, whatever the
\* interleaving of invitations, edits and sign-ins.
THEOREM SignInCorrect == Spec => []SignInInductive
<1>1. Init => SignInInductive
  BY InitType, InitSignIn DEF SignInInductive
<1>2. SignInInductive /\ [Next]_vars => SignInInductive'
  BY StepType, KeysStep, TokensStep DEF SignInInductive
<1>3. QED
  BY <1>1, <1>2, PTL DEF Spec

LEMMA OneUser == SignInInductive => SamePersonSameUser
<1> SUFFICES ASSUME SignInInductive, NEW q \in Request, NEW r \in Request,
                    SignedIn(q), SignedIn(r),
                    MailOf(call[q].sub) = MailOf(call[r].sub)
             PROVE  who[q] = who[r]
  BY DEF SamePersonSameUser
<1>1. who[q] \in Users /\ who[r] \in Users
  BY HiringAssumption DEF SignInInductive, TypeOK, StepFits, SignedIn, Users
<1>2. users[who[q]].email = users[who[r]].email
  BY <1>1, HiringAssumption DEF SignInInductive, TokensFit, SignedIn, Users
<1>3. QED
  BY <1>1, <1>2 DEF SignInInductive, KeysHold

\* However the guard, invite and edits interleave, all sign-ins of a person, with
\* whatever identity provider, end with the same user.
THEOREM SignInsAgree == Spec => []SamePersonSameUser
BY SignInCorrect, OneUser, PTL

-----------------------------------------------------------------------------
(* Whoever was invited finds the case.                                     *)

\* A step of one request leaves what the others hold.
LEMMA OthersKept ==
  ASSUME TypeOK, NEW r \in Request, NoUserStep(r) \/ Upsert(r) \/ Link(r) \/ AddUser(r)
  PROVE  \A q \in Request \ {r} :
           pc'[q] = pc[q] /\ call'[q] = call[q] /\ seen'[q] = seen[q] /\ who'[q] = who[q]
<1>1. ASSUME NoUserStep(r) \/ Link(r)
      PROVE  \A q \in Request \ {r} :
               pc'[q] = pc[q] /\ call'[q] = call[q] /\ seen'[q] = seen[q] /\ who'[q] = who[q]
  <2>1. CASE ReadCase(r) \/ FindUser(r) \/ FindBySub(r) \/ FindByEmail(r)
    BY <2>1 DEF ReadCase, FindUser, FindBySub, FindByEmail, TypeOK
  <2>2. CASE Arrive(r) \/ Collide(r) \/ AddEmployee(r) \/ WriteEmployee(r) \/ ReadEmployee(r)
             \/ ReadOffer(r) \/ AddOffer(r) \/ AddCase(r) \/ Notify(r) \/ Stamp(r)
             \/ AppendAudit(r) \/ Again(r) \/ Lose(r) \/ Link(r)
    <3>1. UNCHANGED <<seen, who>>
      BY <2>2 DEF Arrive, Collide, AddEmployee, WriteEmployee, ReadEmployee, ReadOffer, AddOffer,
             AddCase, Notify, Stamp, AppendAudit, Again, Lose, Link
    <3>2. pc' = [pc EXCEPT ![r] = pc'[r]]
      BY <2>2 DEF Arrive, Collide, AddEmployee, WriteEmployee, ReadEmployee, ReadOffer, AddOffer,
             AddCase, Notify, Stamp, AppendAudit, Again, Lose, Link, Goto, TypeOK
    <3>3. call' = [call EXCEPT ![r] = call'[r]]
      BY <2>2 DEF Arrive, Collide, AddEmployee, WriteEmployee, ReadEmployee, ReadOffer, AddOffer,
             AddCase, Notify, Stamp, AppendAudit, Again, Lose, Link, TypeOK
    <3>4. QED
      BY <3>1, <3>2, <3>3 DEF TypeOK
  <2>3. QED
    BY <1>1, <2>1, <2>2 DEF NoUserStep
<1>2. ASSUME Upsert(r) \/ AddUser(r)
      PROVE  \A q \in Request \ {r} :
               pc'[q] = pc[q] /\ call'[q] = call[q] /\ seen'[q] = seen[q] /\ who'[q] = who[q]
  <2>1. PICK u \in User : who' = [who EXCEPT ![r] = u]
    BY <1>2, UpsertEffect, AddUserEffect
  <2>2. UNCHANGED <<call, seen>> /\ pc' = [pc EXCEPT ![r] = pc'[r]]
    BY <1>2 DEF Upsert, AddUser, Goto, TypeOK
  <2>3. QED
    BY <2>1, <2>2 DEF TypeOK
<1>3. QED
  BY <1>1, <1>2

\* As long as nothing is edited an employee keeps its address, a user its employee, a case its
\* employee and its stamp.
Kept ==
  /\ \A e \in Employees : e \in Employees' /\ employees'[e].email = employees[e].email
  /\ \A u \in Users : /\ u \in Users'
                      /\ users[u].employee # None => users'[u].employee = users[u].employee
  /\ \A c \in Case : cases[c] # None =>
       /\ cases'[c] # None /\ cases'[c].employee = cases[c].employee
       /\ cases[c].invited => cases'[c].invited
  /\ \A q \in Request : call[q] # None => call'[q] = call[q]

\* What an invitation that has read its case knows.
LEMMA InviteHolds ==
  ASSUME TypeOK, NEW r \in Request,
         pc[r] \in {"findUser", "upsert", "notify", "stamp", "auditInvite"}
  PROVE  /\ call[r] # None /\ call[r].op = "invite" /\ call[r].case \in Case
         /\ cases[call[r].case] # None /\ Invitee(r) \in Employees
<1>1. call[r] \in Calls /\ call[r].op = "invite" /\ cases[call[r].case] # None /\ call[r] # None
  BY DEF TypeOK, StepFits
<1>2. call[r].case \in Case
  BY <1>1, CallFields
<1>3. QED
  BY <1>1, <1>2 DEF TypeOK, CaseRow, Invitee, Employees

LEMMA NothingTaken == ASSUME NoEdits, InviteInductive, [Next]_vars PROVE Kept
<1>0. /\ TypeOK /\ KeysHold /\ LinksFit /\ (\A r \in Request : InviteFits(r))
      /\ None \notin EmployeeRow /\ None \notin UserRow /\ None \notin CaseRow
  BY HiringAssumption DEF InviteInductive, SignInInductive
<1>1. \A e \in Employees : e \in Employees' /\ employees'[e].email = employees[e].email
  <2>1. ASSUME NEW r \in Request, AddEmployee(r)
        PROVE  \A e \in Employees : e \in Employees' /\ employees'[e].email = employees[e].email
    <3>1. /\ employees' = [employees EXCEPT ![r] = [number |-> call[r].number,
                                                    email |-> call[r].email]]
          /\ employees[r] = None
      BY <1>0, <2>1 DEF AddEmployee, Goto, TypeOK, StepFits, Fresh
    <3>2. \A e \in Employees : e # r /\ employees'[e] = employees[e]
      BY <1>0, <3>1 DEF Employees, TypeOK
    <3>3. QED
      BY <3>2 DEF Employees
  <2>2. ASSUME NEW r \in Request, WriteEmployee(r) PROVE FALSE
    <3>1. call[r] # None /\ call[r].op = "update"
      BY <1>0, <2>2 DEF WriteEmployee, Goto, TypeOK, StepFits
    <3>2. QED
      BY <3>1 DEF NoEdits
  <2>3. ASSUME NEW r \in Request, ~AddEmployee(r), ~WriteEmployee(r),
               NoUserStep(r) \/ Upsert(r) \/ Link(r) \/ AddUser(r)
        PROVE  UNCHANGED employees
    BY <2>3 DEF NoUserStep, Arrive, Collide, ReadEmployee, ReadOffer, AddOffer, AddCase, ReadCase,
         FindUser, Notify, Stamp, AppendAudit, Again, FindBySub, FindByEmail, Lose,
         Upsert, Link, AddUser,
         tables
  <2>4. UNCHANGED employees
          => \A e \in Employees : e \in Employees' /\ employees'[e].email = employees[e].email
    BY DEF Employees
  <2>5. CASE UNCHANGED vars
    BY <2>4, <2>5 DEF vars
  <2>6. QED
    BY <2>1, <2>2, <2>3, <2>4, <2>5 DEF Next, NoUserStep
<1>2. \A u \in Users : /\ u \in Users'
                       /\ users[u].employee # None => users'[u].employee = users[u].employee
  <2>1. \A u \in Users : u \in Users'
    BY <1>0, AddressesKept
  <2>2. ASSUME NEW r \in Request, Upsert(r), NEW t \in Users, users[t].employee # None
        PROVE  users'[t].employee = users[t].employee
    <3>1. PICK u \in User, x \in UserRow :
             /\ users' = [users EXCEPT ![u] = x] /\ x.employee = Invitee(r)
             /\ users[u] # None => users[u].email = seen[r]
      BY <1>0, <2>2, UpsertEffect
    <3>2. pc[r] = "upsert" /\ seen[r] = employees[Invitee(r)].email /\ Invitee(r) \in Employees
      BY <1>0, <2>2, InviteHolds DEF Upsert, Goto, InviteFits
    <3>3. CASE t = u
      <4>1. /\ users[t].employee \in Employees
            /\ employees[users[t].employee].email = employees[Invitee(r)].email
        BY <1>0, <2>2, <3>1, <3>2, <3>3 DEF LinksFit, Users
      <4>2. users[t].employee = Invitee(r)
        BY <1>0, <3>2, <4>1 DEF KeysHold
      <4>3. QED
        BY <1>0, <3>1, <3>3, <4>2 DEF TypeOK
    <3>4. CASE t # u
      BY <1>0, <3>1, <3>4 DEF TypeOK, Users
    <3>5. QED
      BY <3>3, <3>4
  <2>3. ASSUME NEW r \in Request, Link(r), NEW t \in Users
        PROVE  users'[t].employee = users[t].employee
    <3>1. PICK x \in UserRow : /\ who[r] \in User /\ users' = [users EXCEPT ![who[r]] = x]
                               /\ x.employee = users[who[r]].employee
      BY <1>0, <2>3, LinkEffect
    <3>2. QED
      BY <1>0, <3>1 DEF TypeOK, Users
  <2>4. ASSUME NEW r \in Request, AddUser(r), NEW t \in Users
        PROVE  users'[t].employee = users[t].employee
    <3>1. PICK x \in UserRow : users[r] = None /\ users' = [users EXCEPT ![r] = x]
      BY <1>0, <2>4, AddUserEffect
    <3>2. QED
      BY <1>0, <3>1 DEF TypeOK, Users
  <2>5. CASE UNCHANGED vars
    BY <2>1, <2>5 DEF vars
  <2>6. QED
    BY <2>1, <2>2, <2>3, <2>4, <2>5, UsersKept DEF Next, NoUserStep
<1>3. \A c \in Case : cases[c] # None =>
        /\ cases'[c] # None /\ cases'[c].employee = cases[c].employee
        /\ cases[c].invited => cases'[c].invited
  <2>1. ASSUME NEW r \in Request, AddCase(r), NEW c \in Case, cases[c] # None
        PROVE  cases'[c] = cases[c]
    <3>1. cases[r] = None
      BY <1>0, <2>1 DEF AddCase, Goto, TypeOK, StepFits, Fresh
    <3>2. QED
      BY <1>0, <2>1, <3>1 DEF AddCase, TypeOK
  <2>2. ASSUME NEW r \in Request, Stamp(r), NEW c \in Case, cases[c] # None
        PROVE  /\ cases'[c] # None /\ cases'[c].employee = cases[c].employee
               /\ cases[c].invited => cases'[c].invited
    <3>1. cases' = [cases EXCEPT ![call[r].case].invited = TRUE]
      BY <2>2 DEF Stamp
    <3>2. call[r].case \in Case
      BY <1>0, <2>2, InviteHolds DEF Stamp, Goto
    <3>3. CASE c = call[r].case
      <4>1. /\ cases'[c] = [cases[c] EXCEPT !.invited = TRUE] /\ cases[c] \in CaseRow
        BY <1>0, <2>2, <3>1, <3>3 DEF TypeOK
      <4>2. [cases[c] EXCEPT !.invited = TRUE] \in CaseRow
        BY <4>1 DEF CaseRow
      <4>3. cases'[c].employee = cases[c].employee /\ cases'[c].invited
        BY <4>1 DEF CaseRow
      <4>4. QED
        BY <1>0, <4>1, <4>2, <4>3
    <3>4. CASE c # call[r].case
      BY <1>0, <2>2, <3>1, <3>2, <3>4 DEF TypeOK
    <3>5. QED
      BY <3>3, <3>4
  <2>3. ASSUME NEW r \in Request, ~AddCase(r), ~Stamp(r),
               NoUserStep(r) \/ Upsert(r) \/ Link(r) \/ AddUser(r)
        PROVE  UNCHANGED cases
    BY <2>3 DEF NoUserStep, Arrive, Collide, AddEmployee, WriteEmployee, ReadEmployee, ReadOffer,
         AddOffer, ReadCase, FindUser, Notify, AppendAudit, Again, FindBySub, FindByEmail, Lose,
         Upsert,
         Link, AddUser, tables
  <2>4. CASE UNCHANGED vars
    BY <2>4 DEF vars
  <2>5. QED
    BY <2>1, <2>2, <2>3, <2>4 DEF Next, NoUserStep
<1>4. QED
  BY <1>0, <1>1, <1>2, <1>3, CallsKept DEF Kept

LEMMA LinksStep == ASSUME NoEdits, InviteInductive, [Next]_vars PROVE LinksFit'
<1> DEFINE Linked(x) == x.employee # None => /\ x.employee \in Employees
                                             /\ x.email = employees[x.employee].email
<1>0. /\ TypeOK /\ LinksFit /\ (\A r \in Request : InviteFits(r)) /\ Kept
      /\ None \notin UserRow
  BY NothingTaken, HiringAssumption DEF InviteInductive, SignInInductive
<1>1. \A u \in Users : Linked(users[u])
  BY <1>0 DEF LinksFit
<1>2. ASSUME \A u \in Users' : Linked(users'[u]) PROVE LinksFit'
  BY <1>0, <1>2 DEF LinksFit, Kept
<1>3. ASSUME UNCHANGED users PROVE LinksFit'
  BY <1>1, <1>2, <1>3 DEF Users
<1>4. ASSUME NEW u \in User, NEW x \in UserRow, users' = [users EXCEPT ![u] = x], Linked(x)
      PROVE  LinksFit'
  <2>1. \A t \in Users' : Linked(users'[t])
    BY <1>0, <1>1, <1>4 DEF Users, TypeOK
  <2>2. QED
    BY <1>2, <2>1
<1>5. ASSUME NEW r \in Request, Upsert(r) \/ Link(r) \/ AddUser(r)
      PROVE  \E u \in User, x \in UserRow : users' = [users EXCEPT ![u] = x] /\ Linked(x)
  <2>1. CASE Upsert(r)
    <3>1. PICK u \in User, x \in UserRow :
             /\ users' = [users EXCEPT ![u] = x]
             /\ x.email = seen[r] /\ x.employee = Invitee(r)
      BY <1>0, <2>1, UpsertEffect
    <3>2. seen[r] = employees[Invitee(r)].email /\ Invitee(r) \in Employees
      BY <1>0, <2>1, InviteHolds DEF Upsert, Goto, InviteFits
    <3>3. QED
      BY <3>1, <3>2
  <2>2. CASE Link(r)
    <3>1. PICK x \in UserRow :
             /\ who[r] \in User /\ users[who[r]] # None
             /\ users' = [users EXCEPT ![who[r]] = x]
             /\ x.email = users[who[r]].email /\ x.employee = users[who[r]].employee
      BY <1>0, <2>2, LinkEffect
    <3>2. Linked(users[who[r]])
      BY <1>1, <3>1 DEF Users
    <3>3. QED
      BY <3>1, <3>2
  <2>3. CASE AddUser(r)
    BY <1>0, <2>3, AddUserEffect
  <2>4. QED
    BY <1>5, <2>1, <2>2, <2>3
<1>6. CASE UNCHANGED vars
  BY <1>3, <1>6 DEF vars
<1>7. ASSUME NEW r \in Request, Upsert(r) \/ Link(r) \/ AddUser(r) PROVE LinksFit'
  <2>1. PICK u \in User, x \in UserRow : users' = [users EXCEPT ![u] = x] /\ Linked(x)
    BY <1>5, <1>7
  <2>2. QED
    BY <1>4, <2>1
<1>8. QED
  BY <1>3, <1>6, <1>7, UsersKept DEF Next, NoUserStep

\* What an invitation knows stays true when nothing is taken away.
LEMMA InviteFitsKept ==
  ASSUME TypeOK, Kept, NEW q \in Request, InviteFits(q),
         pc'[q] = pc[q], call'[q] = call[q], seen'[q] = seen[q], who'[q] = who[q]
  PROVE  InviteFits(q)'
<1>1. CASE pc[q] \in {"findUser", "upsert", "notify", "stamp", "auditInvite"}
  <2>1. /\ call[q].case \in Case /\ cases[call[q].case] # None /\ Invitee(q) \in Employees
    BY <1>1, InviteHolds
  <2>2. Invitee(q)' = Invitee(q) /\ employees'[Invitee(q)].email = employees[Invitee(q)].email
    BY <2>1 DEF Invitee, Kept
  <2>3. pc[q] \in {"notify", "stamp", "auditInvite"} => who[q] \in Users /\ Invitee(q) # None
    BY <2>1, HiringAssumption DEF TypeOK, StepFits, Users, Employees
  <2>4. QED
    BY <2>1, <2>2, <2>3 DEF InviteFits, Kept
<1>2. CASE pc[q] \notin {"findUser", "upsert", "notify", "stamp", "auditInvite"}
  BY <1>2 DEF InviteFits
<1>3. QED
  BY <1>1, <1>2

LEMMA InvitesStep ==
  ASSUME NoEdits, InviteInductive, [Next]_vars PROVE \A q \in Request : InviteFits(q)'
<1>0. /\ TypeOK /\ (\A q \in Request : InviteFits(q)) /\ Kept
      /\ None \notin UserRow /\ TypeOK'
  BY NothingTaken, StepType, HiringAssumption DEF InviteInductive, SignInInductive
<1>1. CASE UNCHANGED vars
  BY <1>0, <1>1, InviteFitsKept DEF vars
<1>2. ASSUME NEW r \in Request, ReadCase(r) PROVE InviteFits(r)'
  <2>1. CASE cases[call[r].case] = None
    BY <1>0, <1>2, <2>1 DEF ReadCase, TypeOK, InviteFits
  <2>2. CASE cases[call[r].case] # None
    BY <1>0, <1>2, <2>2 DEF ReadCase, TypeOK, InviteFits, Invitee, tables
  <2>3. QED
    BY <2>1, <2>2
<1>3. ASSUME NEW r \in Request, FindUser(r) PROVE InviteFits(r)'
  <2>1. /\ pc[r] = "findUser" /\ UNCHANGED <<tables, call, seen>>
        /\ pc'[r] \in {"notify", "upsert"}
        /\ pc'[r] = "notify" => users[who'[r]].employee = Invitee(r)
    BY <1>0, <1>3 DEF FindUser, TypeOK
  <2>2. QED
    BY <1>0, <2>1 DEF InviteFits, Invitee, tables
<1>4. ASSUME NEW r \in Request, Upsert(r) PROVE InviteFits(r)'
  <2>1. PICK u \in User, x \in UserRow :
           /\ users' = [users EXCEPT ![u] = x] /\ who' = [who EXCEPT ![r] = u]
           /\ x.employee = Invitee(r)
    BY <1>0, <1>4, UpsertEffect
  <2>2. /\ pc[r] = "upsert" /\ pc'[r] = "notify" /\ UNCHANGED <<employees, cases, call, seen>>
    BY <1>0, <1>4 DEF Upsert, Goto, TypeOK
  <2>3. users'[who'[r]].employee = Invitee(r)
    BY <1>0, <2>1 DEF TypeOK
  <2>4. QED
    BY <1>0, <2>2, <2>3 DEF InviteFits, Invitee
<1>5. ASSUME NEW r \in Request, Notify(r) PROVE InviteFits(r)'
  BY <1>0, <1>5 DEF Notify, Goto, TypeOK, InviteFits, Invitee
<1>6. ASSUME NEW r \in Request, Stamp(r) PROVE InviteFits(r)'
  <2>1. /\ pc[r] = "stamp" /\ pc'[r] = "auditInvite" /\ UNCHANGED <<employees, users, call, seen, who>>
        /\ cases' = [cases EXCEPT ![call[r].case].invited = TRUE]
    BY <1>0, <1>6 DEF Stamp, Goto, TypeOK
  <2>2. call[r].case \in Case /\ cases[call[r].case] # None /\ cases[call[r].case] \in CaseRow
    BY <1>0, <2>1, InviteHolds DEF TypeOK
  <2>3. cases'[call[r].case].invited /\ Invitee(r)' = Invitee(r)
    BY <1>0, <2>1, <2>2 DEF TypeOK, CaseRow, Invitee, Kept
  <2>4. QED
    BY <1>0, <2>1, <2>3 DEF InviteFits
<1>7. ASSUME NEW r \in Request,
             \/ Arrive(r) \/ Collide(r) \/ AddEmployee(r) \/ WriteEmployee(r) \/ ReadEmployee(r)
             \/ ReadOffer(r) \/ AddOffer(r) \/ AddCase(r) \/ AppendAudit(r) \/ Again(r) \/ FindBySub(r)
             \/ FindByEmail(r) \/ Link(r) \/ AddUser(r) \/ Lose(r)
      PROVE  InviteFits(r)'
  <2>1. pc'[r] \notin {"findUser", "upsert", "notify", "stamp", "auditInvite"}
    <3>1. CASE Arrive(r)
      <4>1. PICK k \in Calls : pc' = [pc EXCEPT ![r] = First[k.op]]
        BY <3>1 DEF Arrive, Goto
      <4>2. First[k.op] \in {"addEmployee", "readEmployee", "readCase", "bySub"}
        BY CallFields, FirstTable
      <4>3. QED
        BY <1>0, <4>1, <4>2 DEF TypeOK
    <3>2. CASE ReadEmployee(r)
      BY <1>0, <3>2 DEF ReadEmployee, Goto, AfterEmployee, TypeOK
    <3>3. CASE \/ Collide(r) \/ AddEmployee(r) \/ WriteEmployee(r) \/ ReadOffer(r) \/ AddOffer(r)
               \/ AddCase(r) \/ AppendAudit(r) \/ Again(r) \/ FindBySub(r) \/ FindByEmail(r) \/ Link(r)
               \/ AddUser(r) \/ Lose(r)
      BY <1>0, <3>3 DEF Collide, AddEmployee, WriteEmployee, ReadOffer, AddOffer, AddCase,
           AppendAudit, Again, FindBySub, FindByEmail, Link, AddUser, Lose, Goto, TypeOK
    <3>4. QED
      BY <1>7, <3>1, <3>2, <3>3
  <2>2. QED
    BY <2>1 DEF InviteFits
<1>8. ASSUME NEW r \in Request, NoUserStep(r) \/ Upsert(r) \/ Link(r) \/ AddUser(r),
             InviteFits(r)'
      PROVE  \A q \in Request : InviteFits(q)'
  <2>1. \A q \in Request \ {r} :
          pc'[q] = pc[q] /\ call'[q] = call[q] /\ seen'[q] = seen[q] /\ who'[q] = who[q]
    BY <1>0, <1>8, OthersKept
  <2>2. QED
    BY <1>0, <1>8, <2>1, InviteFitsKept
<1>9. QED
  BY <1>1, <1>2, <1>3, <1>4, <1>5, <1>6, <1>7, <1>8 DEF Next, NoUserStep

LEMMA MailsStep ==
  ASSUME NoEdits, InviteInductive, [Next]_vars PROVE \A m \in mails' : MailFits(m)'
<1>0. /\ TypeOK /\ (\A q \in Request : InviteFits(q)) /\ (\A m \in mails : MailFits(m)) /\ Kept
  BY NothingTaken DEF InviteInductive, SignInInductive
<1>1. ASSUME NEW m \in mails PROVE MailFits(m)'
  <2>1. /\ m.case \in Case /\ cases[m.case] # None
        /\ cases[m.case].employee \in Employees /\ cases[m.case].employee # None
    BY <1>0, HiringAssumption DEF TypeOK, MailFits, CaseRow, Employees
  <2>2. /\ cases'[m.case] # None /\ cases'[m.case].employee = cases[m.case].employee
        /\ m.to = employees'[cases[m.case].employee].email
    BY <1>0, <2>1 DEF Kept, MailFits
  <2>3. PICK u \in Users : users[u].employee = cases[m.case].employee
    BY <1>0 DEF MailFits
  <2>4. u \in Users' /\ users'[u].employee = cases[m.case].employee
    BY <1>0, <2>1, <2>3 DEF Kept
  <2>5. QED
    BY <2>2, <2>4 DEF MailFits
<1>2. ASSUME NEW r \in Request, Notify(r) PROVE \A m \in mails' : MailFits(m)'
  <2>1. /\ mails' = mails \cup {[to |-> seen[r], case |-> call[r].case]} /\ pc[r] = "notify"
        /\ UNCHANGED <<employees, users, cases>>
    BY <1>2 DEF Notify, Goto
  <2>2. /\ cases[call[r].case] # None /\ seen[r] = employees[Invitee(r)].email
        /\ who[r] \in Users /\ users[who[r]].employee = Invitee(r)
    BY <1>0, <2>1, InviteHolds, HiringAssumption DEF InviteFits, TypeOK, StepFits, Users
  <2>3. ASSUME NEW m \in mails', m \notin mails PROVE MailFits(m)'
    <3>1. m.to = seen[r] /\ m.case = call[r].case
      BY <2>1, <2>3
    <3>2. QED
      BY <2>1, <2>2, <3>1 DEF MailFits, Invitee, Users
  <2>4. QED
    BY <1>1, <2>3
<1>3. ASSUME NEW r \in Request, ~Notify(r), NoUserStep(r) \/ Upsert(r) \/ Link(r) \/ AddUser(r)
      PROVE  mails' = mails
  BY <1>3 DEF NoUserStep, Arrive, Collide, AddEmployee, WriteEmployee, ReadEmployee, ReadOffer,
     AddOffer, AddCase, ReadCase, FindUser, Stamp, AppendAudit, Again, FindBySub, FindByEmail, Lose,
     Upsert, Link, AddUser, tables
<1>4. CASE UNCHANGED vars
  BY <1>1, <1>4 DEF vars
<1>5. QED
  BY <1>1, <1>2, <1>3, <1>4 DEF Next, NoUserStep

LEMMA TrailStep ==
  ASSUME NoEdits, InviteInductive, [Next]_vars PROVE \A a \in audit' : TrailFits(a)'
<1>0. /\ TypeOK /\ (\A q \in Request : InviteFits(q)) /\ (\A a \in audit : TrailFits(a)) /\ Kept
  BY NothingTaken DEF InviteInductive, SignInInductive
<1>1. ASSUME NEW a \in audit PROVE TrailFits(a)'
  <2>1. SUFFICES ASSUME a.action = "CASE_INVITED" PROVE TrailFits(a)'
    BY DEF TrailFits
  <2>2. /\ a.by \in Request /\ call[a.by] # None /\ call[a.by].op = "invite"
        /\ cases[call[a.by].case] # None /\ cases[call[a.by].case].invited
        /\ a.user \in Users /\ users[a.user].employee = cases[call[a.by].case].employee
    BY <1>0, <2>1 DEF TrailFits, TypeOK, AuditRow
  <2>3. call[a.by].case \in Case
    BY <1>0, <2>2, CallFields DEF TypeOK
  <2>4. cases[call[a.by].case].employee # None
    BY <1>0, <2>2, <2>3, HiringAssumption DEF TypeOK, CaseRow
  <2>5. /\ call'[a.by] = call[a.by] /\ a.user \in Users'
        /\ users'[a.user].employee = cases[call[a.by].case].employee
        /\ cases'[call[a.by].case] # None /\ cases'[call[a.by].case].invited
        /\ cases'[call[a.by].case].employee = cases[call[a.by].case].employee
    BY <1>0, <2>2, <2>3, <2>4 DEF Kept
  <2>6. QED
    BY <2>2, <2>5 DEF TrailFits
<1>2. ASSUME NEW r \in Request, AppendAudit(r) PROVE \A a \in audit' : TrailFits(a)'
  <2>1. /\ audit' = audit \cup {[by |-> r, action |-> AuditAction[pc[r]], user |-> who[r]]}
        /\ pc[r] \in {"auditEmployee", "auditCase", "auditInvite", "auditUpdate"}
        /\ UNCHANGED <<users, cases, call>>
    BY <1>2 DEF AppendAudit, AuditAction
  <2>2. AuditAction[pc[r]] = "CASE_INVITED" => pc[r] = "auditInvite"
    BY <2>1 DEF AuditAction
  <2>3. pc[r] = "auditInvite" =>
          /\ call[r] # None /\ call[r].op = "invite" /\ cases[call[r].case] # None
          /\ cases[call[r].case].invited
          /\ who[r] \in Users /\ users[who[r]].employee = Invitee(r)
    BY <1>0, InviteHolds, HiringAssumption DEF InviteFits, TypeOK, StepFits, Users
  <2>4. ASSUME NEW a \in audit', a \notin audit PROVE TrailFits(a)'
    <3>1. a.by = r /\ a.action = AuditAction[pc[r]] /\ a.user = who[r]
      BY <2>1, <2>4
    <3>2. QED
      BY <2>1, <2>2, <2>3, <3>1 DEF TrailFits, Invitee, Users
  <2>5. QED
    BY <1>1, <2>4
<1>3. ASSUME NEW r \in Request, ~AppendAudit(r),
             NoUserStep(r) \/ Upsert(r) \/ Link(r) \/ AddUser(r)
      PROVE  audit' = audit
  BY <1>3 DEF NoUserStep, Arrive, Collide, AddEmployee, WriteEmployee, ReadEmployee, ReadOffer,
     AddOffer, AddCase, ReadCase, FindUser, Notify, Stamp, Again, FindBySub, FindByEmail, Lose,
     Upsert, Link, AddUser, tables
<1>4. CASE UNCHANGED vars
  BY <1>1, <1>4 DEF vars
<1>5. QED
  BY <1>1, <1>2, <1>3, <1>4 DEF Next, NoUserStep

\* As long as no address is edited, links, invitations, mails and audit rows fit.
THEOREM InvitesCorrect == Spec => [](NoEdits => InviteInductive)
<1> DEFINE Inv == SignInInductive /\ (NoEdits => InviteInductive)
<1>1. Init => InviteInductive
  <2>1. SUFFICES ASSUME Init PROVE InviteInductive
    OBVIOUS
  <2>2. SignInInductive
    BY <2>1, InitType, InitSignIn DEF SignInInductive
  <2>3. LinksFit
    <3>1. ASSUME NEW u \in Users, users[u].employee # None
          PROVE  /\ users[u].employee \in Employees
                 /\ users[u].email = employees[users[u].employee].email
      <4>1. u \in OldUser /\ users[u] = oldUser[u]
        BY <2>1 DEF Init, Users, User
      <4>2. /\ users[u].employee \in OldEmployee
            /\ users[u].email = oldEmployee[users[u].employee].email
        BY <3>1, <4>1, HiringAssumption
      <4>3. /\ employees[users[u].employee] = oldEmployee[users[u].employee]
            /\ oldEmployee[users[u].employee] # None
        BY <2>1, <4>2, HiringAssumption DEF Init, Employee
      <4>4. QED
        BY <4>2, <4>3 DEF Employees, Employee
    <3>2. QED
      BY <3>1 DEF LinksFit
  <2>4. \A r \in Request : InviteFits(r)
    BY <2>1 DEF Init, InviteFits
  <2>5. mails = {} /\ audit = {}
    BY <2>1 DEF Init
  <2>6. QED
    BY <2>2, <2>3, <2>4, <2>5 DEF InviteInductive
<1>2. Init => Inv
  BY <1>1 DEF InviteInductive
<1>3. ASSUME NoEdits, InviteInductive, [Next]_vars PROVE InviteInductive'
  <2>1. SignInInductive'
    BY <1>3, StepType, KeysStep, TokensStep DEF InviteInductive, SignInInductive
  <2>2. /\ LinksFit' /\ (\A r \in Request : InviteFits(r)')
        /\ (\A m \in mails' : MailFits(m)') /\ (\A a \in audit' : TrailFits(a)')
    BY <1>3, LinksStep, InvitesStep, MailsStep, TrailStep
  <2>3. QED
    BY <2>1, <2>2 DEF InviteInductive
<1>4. SignInInductive /\ [Next]_vars => SignInInductive'
  BY StepType, KeysStep, TokensStep DEF SignInInductive
<1>5. ASSUME SignInInductive, [Next]_vars, NoEdits' PROVE NoEdits
  BY <1>5, CallsKept DEF NoEdits, SignInInductive
<1>6. Inv /\ [Next]_vars => Inv'
  BY <1>3, <1>4, <1>5
<1>7. QED
  BY <1>2, <1>6, PTL DEF Spec

\* Whoever signs in with the address an invitation went to is the user of the
\* invited employee, in whatever order the two happen, as long as no address has
\* been edited.
THEOREM InviteesReachCases == Spec => []InviteeReachesCase
<1>1. (NoEdits => InviteInductive) => InviteeReachesCase
  <2>1. SUFFICES ASSUME InviteInductive, NEW m \in mails, NEW r \in Request, SignedIn(r),
                        tokenEmail[call[r].sub] = m.to
                 PROVE  users[who[r]].employee = cases[m.case].employee
    BY DEF InviteeReachesCase
  <2>2. /\ TypeOK /\ KeysHold /\ TokensFit /\ LinksFit /\ MailFits(m)
    BY <2>1 DEF InviteInductive, SignInInductive
  <2>3. who[r] \in Users /\ who[r] # None /\ call[r].op = "signIn"
    BY <2>1, <2>2, HiringAssumption DEF TypeOK, StepFits, SignedIn, Users
  <2>4. m.to \in Email /\ m.to # None
    BY <2>2, HiringAssumption DEF TypeOK
  <2>5. users[who[r]].email = m.to
    BY <2>1, <2>2, <2>3, <2>4 DEF TokensFit, MailOf
  <2>6. PICK u \in Users : users[u].employee = cases[m.case].employee
    BY <2>2 DEF MailFits
  <2>7. cases[m.case].employee # None
    BY <2>2, HiringAssumption DEF MailFits, TypeOK, CaseRow
  <2>8. users[u].email = m.to
    BY <2>2, <2>6, <2>7 DEF LinksFit, MailFits
  <2>9. u = who[r]
    BY <2>2, <2>3, <2>5, <2>6, <2>8 DEF KeysHold
  <2>10. QED
    BY <2>6, <2>9
<1>2. QED
  BY <1>1, InvitesCorrect, PTL

\* The user an audit row of an invitation names stays the employee's, as long as
\* no address has been edited.
THEOREM InvitedUsersLinked == Spec => []InvitedUserLinked
<1>1. (NoEdits => InviteInductive) => InvitedUserLinked
  BY DEF InviteInductive, InvitedUserLinked, UserLinked, TrailFits
<1>2. QED
  BY <1>1, InvitesCorrect, PTL
-----------------------------------------------------------------------------
(* What a hire leaves.                                                     *)

\* The row of the employee and that of the case come together, or not at all.
Whole(r) == employees[r] # None <=> cases[r] # None

HireFits(r) ==
  call[r] # None /\ call[r].op = "hire" =>
    /\ pc[r] \in {"done", "refused", "failed"} => Whole(r)
    /\ pc[r] = "auditCase" => employees[r] # None /\ cases[r] # None

\* No step of another request inserts or deletes the rows a request is named for.
LEMMA PresenceKept ==
  ASSUME TypeOK, NEW r \in Request, NEW q \in Request \ {r},
         NoUserStep(r) \/ Upsert(r) \/ Link(r) \/ AddUser(r)
  PROVE  /\ pc'[q] = pc[q] /\ call'[q] = call[q]
         /\ employees'[q] # None <=> employees[q] # None
         /\ cases'[q] # None <=> cases[q] # None
<1>0. /\ q \in Employee /\ q \in Case /\ r \in Employee /\ r \in Case
      /\ employees \in [Employee -> EmployeeRow \cup {None}] /\ cases \in [Case -> CaseRow \cup {None}]
      /\ None \notin EmployeeRow \cup CaseRow
  BY HiringAssumption DEF Employee, Case, TypeOK
<1>1. pc'[q] = pc[q] /\ call'[q] = call[q]
  BY DEF NoUserStep, Arrive, Collide, AddEmployee, WriteEmployee, ReadEmployee, ReadOffer, AddOffer,
       AddCase, ReadCase, FindUser, Notify, Stamp, AppendAudit, Again, FindBySub, FindByEmail, Lose,
       Upsert, Link, AddUser, Goto, TypeOK
<1>2. CASE AddEmployee(r) \/ AddCase(r)
  BY <1>0, <1>1, <1>2 DEF AddEmployee, AddCase
<1>3. CASE WriteEmployee(r)
  <2>1. /\ employees' = [employees EXCEPT ![call[r].employee].email = call[r].email]
        /\ pc[r] = "write" /\ UNCHANGED cases
    BY <1>3 DEF WriteEmployee, Goto
  <2>2. call[r] \in Calls /\ call[r].op = "update" /\ employees[call[r].employee] # None
    BY <2>1 DEF TypeOK, StepFits
  <2>3. call[r].employee \in Employee /\ call[r].email \in Email
    BY <2>2, CallFields
  <2>4. [employees[call[r].employee] EXCEPT !.email = call[r].email] \in EmployeeRow
    BY <1>0, <2>2, <2>3 DEF EmployeeRow
  <2>5. QED
    BY <1>0, <1>1, <2>1, <2>2, <2>3, <2>4
<1>4. CASE Stamp(r)
  <2>1. /\ cases' = [cases EXCEPT ![call[r].case].invited = TRUE]
        /\ pc[r] = "stamp" /\ UNCHANGED employees
    BY <1>4 DEF Stamp, Goto
  <2>2. call[r] \in Calls /\ call[r].op = "invite" /\ cases[call[r].case] # None
    BY <2>1 DEF TypeOK, StepFits
  <2>3. call[r].case \in Case
    BY <2>2, CallFields
  <2>4. [cases[call[r].case] EXCEPT !.invited = TRUE] \in CaseRow
    BY <1>0, <2>2, <2>3 DEF CaseRow
  <2>5. QED
    BY <1>0, <1>1, <2>1, <2>2, <2>3, <2>4
<1>5. CASE UNCHANGED <<employees, cases>>
  BY <1>1, <1>5
<1>6. QED
  BY <1>2, <1>3, <1>4, <1>5
     DEF NoUserStep, Arrive, Collide, ReadEmployee, ReadOffer, AddOffer, ReadCase, FindUser, Notify,
         AppendAudit, Again, FindBySub, FindByEmail, Lose,
         Upsert, Link, AddUser, tables

\* A hire comes to its end by a case added for its employee, or by a key that refused
\* the employee.
LEMMA HireStep ==
  ASSUME TypeOK, TypeOK', NEW r \in Request, HireFits(r),
         NoUserStep(r) \/ Upsert(r) \/ Link(r) \/ AddUser(r)
  PROVE  HireFits(r)'
<1> SUFFICES ASSUME call'[r] # None, call'[r].op = "hire",
                    pc'[r] \in {"done", "refused", "failed", "auditCase"}
             PROVE  Whole(r)' /\ (pc'[r] = "auditCase" => employees'[r] # None)
  BY DEF HireFits, Whole
<1>0. pc \in [Request -> PC] /\ call \in [Request -> Calls \cup {None}] /\ StepFits(r) /\ StepFits(r)'
  BY DEF TypeOK
<1>1. ~Arrive(r)
  <2>1. SUFFICES ASSUME Arrive(r) PROVE FALSE
    OBVIOUS
  <2>2. PICK k \in Calls : pc'[r] = First[k.op]
    BY <1>0, <2>1 DEF Arrive, Goto
  <2>3. QED
    BY <2>2, CallFields, FirstTable
<1>2. call'[r] = call[r] /\ call[r].op = "hire" /\ call[r] # None
  BY <1>1 DEF NoUserStep, Collide, AddEmployee, WriteEmployee, ReadEmployee, ReadOffer, AddOffer,
       AddCase, ReadCase, FindUser, Notify, Stamp, AppendAudit, Again, FindBySub, FindByEmail, Lose,
       Upsert, Link, AddUser
<1>3. pc[r] \in {"addEmployee", "auditEmployee", "again", "readEmployee", "readOffer", "addOffer",
                 "addCase", "auditCase", "done", "refused", "denied", "failed", "lost"}
  BY <1>0, <1>2 DEF StepFits, PC
<1>4. CASE Collide(r)
  BY <1>0, <1>3, <1>4 DEF Collide, StepFits, Fresh, Whole, tables
<1>5. CASE ReadEmployee(r)
  <2>1. employees[r] # None /\ EmployeeOf(r) = r /\ pc[r] = "readEmployee"
    BY <1>0, <1>2, <1>5 DEF ReadEmployee, Goto, StepFits, EmployeeOf
  <2>2. pc'[r] = AfterEmployee(r)
    BY <1>0, <1>5, <2>1 DEF ReadEmployee, Goto
  <2>3. AfterEmployee(r) \in {"readOffer", "addOffer", "addCase"}
    BY <1>2 DEF AfterEmployee
  <2>4. QED
    BY <2>2, <2>3
<1>6. CASE AddCase(r)
  <2>1. employees[r] # None /\ UNCHANGED employees /\ pc'[r] = "auditCase"
    BY <1>0, <1>2, <1>6 DEF AddCase, Goto, StepFits, EmployeeOf
  <2>2. r \in Case /\ Asked(r).employee = r
    BY <1>2 DEF Asked, Case
  <2>3. cases' = [cases EXCEPT ![r] = [employee |-> Asked(r).employee, offer |-> Asked(r).offer,
                                       invited |-> FALSE]]
    BY <1>6 DEF AddCase
  <2>4. cases'[r] = [employee |-> Asked(r).employee, offer |-> Asked(r).offer, invited |-> FALSE]
    BY <2>2, <2>3 DEF TypeOK
  <2>5. Asked(r).employee \in Employee /\ Asked(r).offer \in Offer \cup {None}
    BY <1>2, <2>2 DEF Asked, Employee
  <2>6. cases'[r] # None
    <3>1. None \notin CaseRow
      BY HiringAssumption
    <3>2. cases'[r] \in CaseRow
      BY <2>4, <2>5 DEF CaseRow
    <3>3. QED
      BY <3>1, <3>2
  <2>7. QED
    BY <2>1, <2>6 DEF Whole
<1>7. CASE AppendAudit(r)
  <2>1. UNCHANGED <<employees, cases>> /\ pc[r] \in {"auditEmployee", "auditCase"}
    BY <1>0, <1>3, <1>7 DEF AppendAudit, AuditAction
  <2>2. pc[r] = "auditCase"
    BY <1>0, <1>2, <1>7, <2>1 DEF AppendAudit
  <2>3. QED
    BY <1>0, <1>2, <1>7, <2>1, <2>2 DEF HireFits, Whole, AppendAudit
<1>8. CASE Lose(r) \/ Again(r)
  BY <1>0, <1>8 DEF Lose, Again, Goto
<1>9. QED
  <2>1. ASSUME AddEmployee(r) \/ WriteEmployee(r) \/ ReadOffer(r) \/ AddOffer(r) PROVE FALSE
    BY <1>0, <1>2, <1>3, <2>1 DEF AddEmployee, WriteEmployee, ReadOffer, AddOffer, Goto, StepFits
  <2>2. ASSUME ReadCase(r) \/ FindUser(r) \/ Notify(r) \/ Stamp(r) \/ FindBySub(r) \/ FindByEmail(r)
        PROVE  FALSE
    BY <1>3, <2>2 DEF ReadCase, FindUser, Notify, Stamp, FindBySub, FindByEmail, Goto
  <2>3. ASSUME Upsert(r) \/ Link(r) \/ AddUser(r) PROVE FALSE
    BY <1>3, <2>3 DEF Upsert, Link, AddUser, Goto
  <2>4. QED
    BY <1>1, <1>4, <1>5, <1>6, <1>7, <1>8, <2>1, <2>2, <2>3 DEF NoUserStep

\* For any interleaving, a hire leaves an employee with a case or neither, unless its second
\* call was lost or turned away by the guards (create in web-admin/src/App.tsx).
THEOREM HiresEndWhole == Spec => []HireEndsWhole
<1> DEFINE H == \A r \in Request : HireFits(r)
<1>1. Init => H
  BY DEF Init, HireFits
<1>2. TypeOK /\ TypeOK' /\ H /\ [Next]_vars => H'
  <2> SUFFICES ASSUME TypeOK, TypeOK', H, [Next]_vars, NEW q \in Request PROVE HireFits(q)'
    OBVIOUS
  <2>1. CASE UNCHANGED vars
    BY <2>1 DEF vars, tables, HireFits, Whole
  <2>2. ASSUME NEW r \in Request, NoUserStep(r) \/ Upsert(r) \/ Link(r) \/ AddUser(r)
        PROVE  HireFits(q)'
    <3>1. CASE q = r
      BY <2>2, <3>1, HireStep
    <3>2. CASE q # r
      BY <2>2, <3>2, PresenceKept DEF HireFits, Whole
    <3>3. QED
      BY <3>1, <3>2
  <2>3. QED
    BY <2>1, <2>2 DEF Next, NoUserStep
<1>3. TypeOK /\ H => HireEndsWhole
  BY DEF TypeOK, StepFits, HireFits, Whole, HireEndsWhole
<1>4. QED
  <2> HIDE DEF H
  <2>1. QED
    BY <1>1, <1>2, <1>3, TypeCorrect, PTL DEF Spec
=============================================================================
