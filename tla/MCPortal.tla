------------------------------ MODULE MCPortal ------------------------------
(***************************************************************************)
(* Small instances of Portal: the page of one employee, with one or two    *)
(* chains of calls at a time, and the page of HR.                          *)
(***************************************************************************)
EXTENDS Portal, TLC

CONSTANTS e, h, e1, e2, h1, d1, d2, d3

MCUser  == (e :> "employee") @@ (h :> "hr_admin")
MCTabOf == [c \in Chain |-> IF c = h1 THEN h ELSE e]
MCRank  == [c \in Chain |-> IF c = e2 THEN 2 ELSE 1]
=============================================================================
