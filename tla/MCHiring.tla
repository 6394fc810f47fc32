------------------------------ MODULE MCHiring ------------------------------
(***************************************************************************)
(* Small instances of Hiring.  Aria is an employee with a case and no user *)
(* yet; Luis has a user who signed in.  Aria's tokens carry her address,   *)
(* those of a third subject none; one provider makes her a manager.        *)
(***************************************************************************)
EXTENDS Hiring, TLC

CONSTANTS aria, luis, ariaMail, luisMail, newMail, n1, n2, n3,
          ariaSub, luisSub, bareSub, otherSub, luisUser, c1, c2, o1, r1, r2, r3, r4

MCTokenEmail == (ariaSub :> ariaMail) @@ (luisSub :> luisMail)
             @@ (bareSub :> None) @@ (otherSub :> ariaMail)

MCEmployees == (aria :> [number |-> n1, email |-> ariaMail])
            @@ (luis :> [number |-> n2, email |-> luisMail])

MCUsers == luisUser :> [sub |-> luisSub, email |-> luisMail, employee |-> luis,
                        role |-> "employee"]

MCCases  == (c1 :> [employee |-> aria, offer |-> None, invited |-> FALSE])
         @@ (c2 :> [employee |-> luis, offer |-> None, invited |-> FALSE])
MCOffers == o1 :> luis

Invite(c) == [op : {"invite"}, case : c]
SignIn(s, role) == [op : {"signIn"}, sub : s, role : role]
Hire      == [op : {"hire"}, number : {n2, n3}, email : {newMail}]

\* Aria is invited and signs in, from two identity providers at once, while
\* others are hired and the addresses of employees are edited and used again.
MCCalls == Invite({c1, r1}) \cup Hire \cup SignIn({ariaSub}, {"manager"}) \cup SignIn({otherSub, bareSub}, {None})
      \cup [op : {"createEmployee"}, number : {n3}, email : {ariaMail}]
      \cup [op : {"createCase"}, employee : {r1, luis}, offer : {None, o1}, title : {FALSE}]
      \cup [op : {"update"}, employee : {aria}, email : {luisMail, newMail}]

\* The identity provider moves Aria to another group between two sign-ins.
RegroupedCalls == SignIn({ariaSub}, {"manager", "hr_admin"})
=============================================================================
