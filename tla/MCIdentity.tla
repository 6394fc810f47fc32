----------------------------- MODULE MCIdentity -----------------------------
(***************************************************************************)
(* A small instance of Identity: lists of up to two key sets and issuers,   *)
(* tokens of either and of neither, and addresses at the ends of the        *)
(* private blocks.                                                         *)
(***************************************************************************)
EXTENDS Identity, TLC

CONSTANTS k1, k2, i1, i2, web, other, uuid, mail, blank

UpTo2(S) == {<<>>} \cup {<<x>> : x \in S} \cup {<<x, y>> : x, y \in S}

\* An ID token of Cognito, an access token of Keycloak without sub, one that names nobody,
\* one that names a person only as Cognito's user name.
IdClaims == [role |-> None, groups |-> <<"other", "manager">>, realm |-> <<>>, clients |-> {web},
             sub |-> uuid, preferred_username |-> None, email |-> mail, username |-> uuid,
             cognito_username |-> uuid]
AccessClaims == [role |-> "other", groups |-> <<>>, realm |-> <<"hr_admin">>, clients |-> {other, web},
                 sub |-> None, preferred_username |-> mail, email |-> None, username |-> None,
                 cognito_username |-> None]
BareClaims == [role |-> "employee", groups |-> <<>>, realm |-> <<>>, clients |-> {},
               sub |-> blank, preferred_username |-> None, email |-> None, username |-> None,
               cognito_username |-> blank]
MailClaims == [BareClaims EXCEPT !.username = blank, !.cognito_username = mail]

Signed(iss, key, c) == [dev |-> FALSE, iss |-> iss, key |-> key, claims |-> c]

MCTokens == {Signed(iss, key, IdClaims) : iss \in {i1, i2, None}, key \in {k1, k2, None}}
       \cup {Signed(i1, k1, c) : c \in {AccessClaims, BareClaims, MailClaims}}
       \cup {[dev |-> TRUE, known |-> b] : b \in BOOLEAN}

Hosts == {[local |-> TRUE, ip |-> None], [local |-> FALSE, ip |-> None]}
    \cup {[local |-> FALSE, ip |-> ip] :
            ip \in {<<9, 255>>, <<10, 0>>, <<10, 255>>, <<11, 0>>, <<172, 15>>, <<172, 16>>, <<172, 31>>,
                    <<172, 32>>, <<192, 167>>, <<192, 168>>, <<192, 169>>}}

MCOrigins == {[host |-> h, origin |-> None] : h \in Hosts}
        \cup {[host |-> [local |-> TRUE, ip |-> None], origin |-> h] : h \in Hosts}

MCUris == UpTo2({k1, k2})
MCIssuers == UpTo2({i1, i2})
MCAudiences == {{}, {other}}
=============================================================================
