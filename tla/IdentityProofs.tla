--------------------------- MODULE IdentityProofs ---------------------------
(***************************************************************************)
(* Proofs about module Identity, for any configuration of providers, any   *)
(* tokens, and any outages while a request is verified.                    *)
(***************************************************************************)
EXTENDS Identity, SequenceTheorems, WellFoundedInduction, TLAPS

\* Neither the configuration nor the request changes.
LEMMA RequestStays == [Next]_vars => UNCHANGED <<config, token, from>>
BY DEF Next, vars, Bypass, Verify, Accept, TryNext, Refuse, Outage, Recover

-----------------------------------------------------------------------------
(* Type correctness.                                                       *)

\* What is left to try is what has not been tried, and a token is invalid only
\* when nothing is left.
Covered ==
  /\ outcome = "new" => tried = {}
  /\ outcome = "trying" => left = DOMAIN uris \ tried
  /\ outcome = "invalid" => tried = DOMAIN uris

TypeInv == TypeOK /\ Covered

LEMMA CountFits == \A n \in 0..MaxOutages : n < MaxOutages => n + 1 \in 0..MaxOutages
<1>1. MaxOutages \in Nat
  BY IdentityAssumption
<1>2. QED
  BY <1>1

LEMMA InitType == Init => TypeInv
BY IdentityAssumption DEF Init, TypeInv, TypeOK, Covered

LEMMA StepType == TypeInv /\ [Next]_vars => TypeInv'
<1> SUFFICES ASSUME TypeInv, [Next]_vars PROVE TypeInv'
  OBVIOUS
<1> USE DEF TypeInv, TypeOK, Covered, config
<1>0. UNCHANGED <<config, token, from>>
  BY RequestStays
<1>1. CASE UNCHANGED vars
  BY <1>1 DEF vars
<1>2. CASE Bypass
  BY <1>0, <1>2 DEF Bypass
<1>3. CASE Verify
  BY <1>0, <1>3 DEF Verify
<1>4. CASE Refuse
  BY <1>0, <1>4 DEF Refuse
<1>5. CASE Outage
  <2>1. PICK k \in KeySet : outages < MaxOutages /\ outages' = outages + 1 /\ down' = down \cup {k}
    BY <1>5 DEF Outage
  <2>2. outages \in 0..MaxOutages /\ MaxOutages \in Nat
    BY IdentityAssumption
  <2>3. outages' \in 0..MaxOutages
    BY <2>1, <2>2, CountFits
  <2>4. QED
    BY <1>0, <1>5, <2>1, <2>3 DEF Outage
<1>6. CASE Recover
  BY <1>0, <1>6 DEF Recover
<1>7. ASSUME NEW i \in DOMAIN uris, Accept(i) PROVE TypeInv'
  BY <1>0, <1>7 DEF Accept, Turn, Judge
<1>8. ASSUME NEW i \in DOMAIN uris, TryNext(i) PROVE TypeInv'
  BY <1>0, <1>8, IdentityAssumption DEF TryNext, Turn
<1>9. QED
  BY <1>1, <1>2, <1>3, <1>4, <1>5, <1>6, <1>7, <1>8 DEF Next

LEMMA TypeInvariant == Spec => []TypeInv
BY InitType, StepType, PTL DEF Spec

\* Every variable keeps its type, and no config is tried twice for a request.
THEOREM TypeCorrect == Spec => []TypeOK
<1>1. TypeInv => TypeOK
  BY DEF TypeInv
<1>2. QED
  BY <1>1, TypeInvariant, PTL

-----------------------------------------------------------------------------
(* The order of the providers.                                             *)

\* Whatever is out of reach, the providers of the issuer a token names are asked
\* before any other (verifyAccessToken).
THEOREM OwnFirst == Spec => OwnProviderFirst
<1>1. TypeInv /\ [Next]_vars
      => [\A i \in tried' \ tried, j \in DOMAIN uris : Own(j) /\ ~Own(i) => j \in tried]_vars
  <2> SUFFICES ASSUME TypeInv, Next
               PROVE  \A i \in tried' \ tried, j \in DOMAIN uris :
                        Own(j) /\ ~Own(i) => j \in tried
    BY DEF vars
  <2>1. CASE Bypass \/ Verify \/ Refuse \/ Outage \/ Recover
    BY <2>1 DEF Bypass, Verify, Refuse, Outage, Recover
  <2>2. ASSUME NEW k \in DOMAIN uris, Accept(k) \/ TryNext(k),
               NEW i \in tried' \ tried, NEW j \in DOMAIN uris, Own(j), ~Own(i)
        PROVE  j \in tried
    <3>1. Turn(k) /\ i = k
      BY <2>2 DEF Accept, TryNext
    <3>2. j \notin left
      BY <2>2, <3>1 DEF Turn, Before
    <3>3. QED
      BY <3>1, <3>2 DEF TypeInv, Covered, Turn
  <2>3. QED
    BY <2>1, <2>2 DEF Next
<1>2. QED
  BY <1>1, TypeInvariant, PTL DEF Spec, OwnProviderFirst

-----------------------------------------------------------------------------
(* The verdict.                                                            *)

\* A provider that was tried in vain was out of reach or did not sign the token; a
\* token that was judged was signed by one of them.
Sound ==
  /\ outcome \in {"trying", "invalid"} => \A i \in tried : JwtVerifies(i) => uris[i] \in missed
  /\ outcome \in {"accepted", "audience", "no subject"} => \E i \in DOMAIN uris : JwtVerifies(i)

LEMMA InitSound == Init => Sound
BY DEF Init, Sound

LEMMA StepSound == TypeInv /\ Sound /\ [Next]_vars => Sound'
<1> SUFFICES ASSUME TypeInv, Sound, [Next]_vars PROVE Sound'
  OBVIOUS
<1>0. UNCHANGED <<config, token, from>>
  BY RequestStays
<1>1. /\ uris' = uris
      /\ \A i : JwtVerifies(i)' <=> JwtVerifies(i)
  BY <1>0 DEF config, JwtVerifies, IssuerOf
<1> USE DEF Sound
<1>2. CASE UNCHANGED vars
  BY <1>1, <1>2 DEF vars
<1>3. CASE Bypass \/ Refuse \/ Outage \/ Recover
  BY <1>1, <1>3 DEF Bypass, Refuse, Outage, Recover
<1>4. CASE Verify
  BY <1>1, <1>4 DEF Verify, TypeInv, Covered
<1>5. ASSUME NEW i \in DOMAIN uris, Accept(i) PROVE Sound'
  BY <1>1, <1>5 DEF Accept, Verifies, Judge
<1>6. ASSUME NEW i \in DOMAIN uris, TryNext(i) PROVE Sound'
  BY <1>1, <1>6 DEF TryNext, Turn, Verifies
<1>7. QED
  BY <1>2, <1>3, <1>4, <1>5, <1>6 DEF Next

\* With an issuer for each key set, the providers a token can be from are those
\* that signed it.
LEMMA VouchingSigned ==
  ASSUME TypeOK, ~token.dev, Len(issuers) = Len(uris), NEW i \in DOMAIN uris
  PROVE  JwtVerifies(i) <=> i \in Vouching
<1>1. uris \in Seq(KeySet) /\ issuers \in Seq(Issuer) /\ None \notin Issuer
  BY IdentityAssumption DEF TypeOK
<1>2. i \in DOMAIN issuers /\ issuers[i] \in Issuer
  BY <1>1
<1>3. IssuerOf(i) = issuers[i]
  BY <1>2 DEF IssuerOf, BuildIssuerJwksConfigs
<1>4. QED
  BY <1>1, <1>2, <1>3 DEF JwtVerifies, Vouching

\* A token is taken only if a provider it can be from signed it, and refused as
\* invalid only if that provider was out of reach in its turn, for any order of the
\* lists and any outages (verifyAccessToken).
THEOREM VerdictsFit == Spec => []VerdictFits
<1>1. TypeInv /\ Sound => VerdictFits
  BY VouchingSigned DEF TypeInv, Covered, Sound, VerdictFits, Vouching
<1>2. QED
  BY <1>1, InitSound, StepSound, TypeInvariant, PTL DEF Spec

-----------------------------------------------------------------------------
(* Dev tokens.                                                             *)

\* The comparisons of isPrivateLanIpv4 pick out exactly the private blocks.
LEMMA PrivateBlocks ==
  ASSUME NEW ip \in (0..255) \X (0..255)
  PROVE  IsPrivateLanIpv4(ip) <=> ip[1] * 256 + ip[2] \in Private
<1> DEFINE a == ip[1]  b == ip[2]
<1>1. a \in 0..255 /\ b \in 0..255
  OBVIOUS
<1>2. a \in Nat /\ b \in Nat /\ a <= 255 /\ b <= 255
  BY <1>1
<1>3. \A n \in Nat : n \in Private <=> \/ (2560 <= n /\ n <= 2815)
                                     \/ (44048 <= n /\ n <= 44063)
                                     \/ n = 49320
  BY DEF Private
<1>4. IsPrivateLanIpv4(ip) <=> (a = 10 \/ (a = 172 /\ b >= 16 /\ b <= 31) \/ (a = 192 /\ b = 168))
  BY DEF IsPrivateLanIpv4
<1> HIDE DEF a, b
<1>5. a * 256 + b \in Private <=> (a = 10 \/ (a = 172 /\ b >= 16 /\ b <= 31) \/ (a = 192 /\ b = 168))
  BY <1>2, <1>3
<1>6. QED
  BY <1>4, <1>5 DEF a, b

\* For any hosts and origins, a dev token is looked up exactly when the bypass is on
\* and the request is from this machine or its local network (isDevBypassHost).
THEOREM DevTokensLocal == Spec => []DevTokensAreLocal
<1>1. Init => DevTokensAreLocal
  BY DEF Init, DevTokensAreLocal
<1>2. TypeInv /\ DevTokensAreLocal /\ [Next]_vars => DevTokensAreLocal'
  <2> SUFFICES ASSUME TypeInv, DevTokensAreLocal, [Next]_vars PROVE DevTokensAreLocal'
    OBVIOUS
  <2> DEFINE LookedUp == outcome \in {"dev user", "not seeded", "unknown"}
             Local(h) == h.local \/ (h.ip # None /\ h.ip[1] * 256 + h.ip[2] \in Private)
             Here == devBypass /\ \A h \in {from.host, from.origin} \ {None} : Local(h)
  <2>0. UNCHANGED <<config, token, from>>
    BY RequestStays
  <2>1. \A h \in {from.host, from.origin} \ {None} : IsDevBypassHost(h) <=> Local(h)
    BY PrivateBlocks, IdentityAssumption DEF TypeInv, TypeOK, IsDevBypassHost
  <2>2. IsLocalDevBypassRequest(from) <=> Here
    <3>1. from.host # None
      BY IdentityAssumption DEF TypeInv, TypeOK
    <3>2. QED
      BY <2>1, <3>1 DEF IsLocalDevBypassRequest
  <2>3. /\ DevTokensAreLocal <=> (token.dev /\ outcome # "new" => (LookedUp <=> Here))
        /\ DevTokensAreLocal' <=> (token.dev /\ outcome' # "new" => (LookedUp' <=> Here))
    BY <2>0 DEF config, DevTokensAreLocal
  <2> HIDE DEF Here
  <2>4. CASE UNCHANGED vars \/ Outage \/ Recover
    BY <2>0, <2>4 DEF vars, config, DevTokensAreLocal, Outage, Recover
  <2>5. CASE Bypass
    BY <2>0, <2>2, <2>3, <2>5 DEF Bypass
  <2>6. CASE Verify
    BY <2>0, <2>2, <2>3, <2>6 DEF Verify
  <2>7. CASE Refuse
    BY <2>0, <2>7 DEF config, DevTokensAreLocal, Refuse
  <2>8. ASSUME NEW i \in DOMAIN uris, Accept(i) \/ TryNext(i) PROVE DevTokensAreLocal'
    BY <2>0, <2>8 DEF config, DevTokensAreLocal, Accept, TryNext, Turn, Judge
  <2>9. QED
    BY <2>4, <2>5, <2>6, <2>7, <2>8 DEF Next
<1>3. QED
  BY <1>1, <1>2, TypeInvariant, PTL DEF Spec

-----------------------------------------------------------------------------
(* The claims.                                                             *)

LEMMA LeastExists ==
  ASSUME NEW S, S \subseteq Nat, S # {}
  PROVE  \E x \in S : \A y \in S : x <= y
<1> DEFINE R == OpToRel(<, Nat)
<1>1. IsWellFoundedOn(R, Nat)
  BY NatLessThanWellFounded
<1>2. \A x, y \in Nat : y < x => <<y, x>> \in R
  BY DEF OpToRel
<1> HIDE DEF R
<1>3. PICK x \in S : \A y \in S : <<y, x>> \notin R
  BY <1>1, WFMin
<1>4. ASSUME NEW y \in S PROVE x <= y
  <2>1. x \in Nat /\ y \in Nat /\ ~(y < x)
    BY <1>2, <1>3
  <2>2. QED
    BY <2>1
<1>5. QED
  BY <1>4

\* FirstOf finds an element that is in the set, if there is one.
LEMMA FirstOfFinds ==
  ASSUME NEW X, NEW s \in Seq(X), NEW S
  PROVE  \/ \E i \in DOMAIN s : s[i] \in S /\ FirstOf(s, S) = s[i]
         \/ FirstOf(s, S) = None /\ \A i \in DOMAIN s : s[i] \notin S
<1> DEFINE hits == {i \in DOMAIN s : s[i] \in S}
<1>1. CASE hits = {}
  BY <1>1 DEF FirstOf
<1>2. CASE hits # {}
  <2>1. DOMAIN s \subseteq Nat
    OBVIOUS
  <2>2. \E i \in hits : \A j \in hits : i <= j
    BY <1>2, <2>1, LeastExists
  <2>3. (CHOOSE i \in hits : \A j \in hits : i <= j) \in hits
    BY <2>2
  <2>4. FirstOf(s, S) = s[CHOOSE i \in hits : \A j \in hits : i <= j]
    BY <1>2 DEF FirstOf
  <2>5. QED
    BY <2>3, <2>4
<1>3. QED
  BY <1>1, <1>2

\* What roleFromClaims finds among the three places of a role.
LEMMA RoleFound ==
  ASSUME NEW c \in Claims
  PROVE  LET roles == {c.role} \cup {c.groups[i] : i \in DOMAIN c.groups}
                               \cup {c.realm[i] : i \in DOMAIN c.realm}
         IN RoleFromClaims(c) \in roles \cap UserRole \/ roles \cap UserRole = {}
<1> DEFINE X == UserRole \cup {"other", None}
           role == <<c.role>>
           two == role \o c.groups
           s == two \o c.realm
<1>1. role \in Seq(X) /\ c.groups \in Seq(X) /\ c.realm \in Seq(X) /\ Range(role) = {c.role}
  <2>1. c.role \in X /\ c.groups \in Seq(X) /\ c.realm \in Seq(X)
    BY DEF Claims
  <2>2. QED
    BY <2>1 DEF Range
<1> HIDE DEF X, role
<1>2. two \in Seq(X) /\ Range(two) = Range(role) \cup Range(c.groups)
  BY <1>1, ConcatProperties, RangeConcatenation
<1> HIDE DEF two
<1>3. s \in Seq(X) /\ Range(s) = Range(role) \cup Range(c.groups) \cup Range(c.realm)
  BY <1>1, <1>2, ConcatProperties, RangeConcatenation
<1>4. RoleFromClaims(c) = FirstOf(s, UserRole)
  BY DEF RoleFromClaims, role, two
<1> HIDE DEF s
<1>5. RoleFromClaims(c) \in Range(s) \cap UserRole \/ Range(s) \cap UserRole = {}
  BY <1>3, <1>4, FirstOfFinds DEF Range
<1>6. Range(s) = {c.role} \cup {c.groups[i] : i \in DOMAIN c.groups}
                         \cup {c.realm[i] : i \in DOMAIN c.realm}
  BY <1>1, <1>3 DEF Range
<1>7. QED
  BY <1>5, <1>6

\* An address is found where there is one.
LEMMA EmailFound ==
  ASSUME NEW c \in Claims
  PROVE  EmailFromClaims(c) \in Names(c) \cap Address \/ Names(c) \cap Address = {}
<1> DEFINE s == <<c.email, c.username, c.cognito_username>>
<1>1. s \in Seq(Names(c)) /\ DOMAIN s = {1, 2, 3}
      /\ s[1] = c.email /\ s[2] = c.username /\ s[3] = c.cognito_username
  BY DEF Names
<1>2. EmailFromClaims(c) = FirstOf(s, Address)
  BY DEF EmailFromClaims
<1> HIDE DEF s
<1>3. QED
  BY <1>1, <1>2, FirstOfFinds DEF Names

\* No user is found only where each of the five claims is absent or blank.
LEMMA NobodyNamed ==
  ASSUME NEW c \in Claims, SubFromClaims(c) = None
  PROVE  Names(c) \cup {c.sub, c.preferred_username} \subseteq Blank \cup {None}
<1> DEFINE s == <<c.sub, c.preferred_username, c.email, c.username, c.cognito_username>>
           X == Word \cup {None}
<1>1. /\ c.sub \in X /\ c.preferred_username \in X /\ c.email \in X
      /\ c.username \in X /\ c.cognito_username \in X
  BY DEF Claims
<1> HIDE DEF X
<1>2. /\ s \in Seq(X) /\ DOMAIN s = {1, 2, 3, 4, 5}
      /\ s[1] = c.sub /\ s[2] = c.preferred_username /\ s[3] = c.email
      /\ s[4] = c.username /\ s[5] = c.cognito_username
  BY <1>1
<1>3. FirstOf(s, Word \ Blank) = None
  BY DEF SubFromClaims
<1> HIDE DEF s
<1>4. None \notin Word \ Blank
  BY IdentityAssumption
<1>5. \A i \in DOMAIN s : s[i] \notin Word \ Blank
  BY <1>2, <1>3, <1>4, FirstOfFinds
<1>6. \A w \in X : w \notin Word \ Blank => w \in Blank \cup {None}
  BY DEF X
<1>7. /\ s[1] \notin Word \ Blank /\ s[2] \notin Word \ Blank /\ s[3] \notin Word \ Blank
      /\ s[4] \notin Word \ Blank /\ s[5] \notin Word \ Blank
  BY <1>2, <1>5
<1>8. QED
  BY <1>1, <1>2, <1>6, <1>7 DEF Names

\* An identity leaves out nothing the token states, whatever else its lists of groups
\* hold, and a token is found to name nobody only if none of its claims does (claims.ts).
THEOREM NothingLost == Spec => []NothingStatedIsLost
<1> DEFINE Read == /\ identity # None => identity = IdentityOf(token.claims) /\ ~token.dev
                   /\ outcome = "no subject" => SubFromClaims(token.claims) = None /\ ~token.dev
<1>1. Init => Read
  BY DEF Init
<1>2. Read /\ [Next]_vars => Read'
  <2> SUFFICES ASSUME Read, [Next]_vars PROVE Read'
    OBVIOUS
  <2>0. UNCHANGED <<config, token, from>>
    BY RequestStays
  <2>1. \A c : IdentityOf(c)' = IdentityOf(c) /\ SubFromClaims(c)' = SubFromClaims(c)
    BY DEF IdentityOf, SubFromClaims
  <2>2. ASSUME NEW i \in DOMAIN uris, Accept(i) PROVE Read'
    BY <2>0, <2>1, <2>2 DEF Accept, Verifies, JwtVerifies, Judge
  <2>3. CASE UNCHANGED identity /\ (outcome' = outcome \/ outcome' # "no subject")
    BY <2>0, <2>1, <2>3
  <2>4. QED
    BY <2>2, <2>3 DEF Next, vars, Bypass, Verify, TryNext, Refuse, Outage, Recover
<1>3. TypeInv /\ Read => NothingStatedIsLost
  <2> SUFFICES ASSUME TypeInv, Read PROVE NothingStatedIsLost
    OBVIOUS
  <2>1. ~token.dev => token.claims \in Claims
    BY IdentityAssumption DEF TypeInv, TypeOK
  <2>2. ASSUME identity # None
        PROVE  /\ identity.role = RoleFromClaims(token.claims)
               /\ identity.email = EmailFromClaims(token.claims)
    <3>1. identity = IdentityOf(token.claims)
      BY <2>2
    <3>2. QED
      BY <3>1 DEF IdentityOf
  <2>3. QED
    BY <2>1, <2>2, RoleFound, EmailFound, NobodyNamed DEF NothingStatedIsLost
<1> HIDE DEF Read
<1>4. QED
  BY <1>1, <1>2, <1>3, TypeInvariant, PTL DEF Spec
=============================================================================
