------------------------------ MODULE Identity ------------------------------
(***************************************************************************)
(* Who a request is from: identity-provider.service.ts verifies its token   *)
(* against the key sets of several providers, one after the other, each     *)
(* fetched over the network; claims.ts reads the identity from the claims;  *)
(* dev-bypass.ts says which hosts may use a dev token instead.             *)
(*                                                                         *)
(* A provider may be out of reach while a request is verified.  Its failure *)
(* is swallowed and the next provider is tried.                            *)
(***************************************************************************)
EXTENDS Naturals, Sequences, FiniteSets

CONSTANTS KeySet, Issuer, Client,   \* JWKS URIs, issuers, audiences
          Word, Address, Blank,     \* the strings of claims; addresses; blank ones
          Uris, Issuers,            \* OIDC_JWKS_URI and OIDC_ISSUER: the lists tried
          Audiences,                \* OIDC_AUDIENCE: the sets tried
          Tokens, Origins,          \* the tokens of requests; the hosts in Host and Origin
          MaxOutages,               \* bound: how often a provider goes out of reach
          None                      \* undefined

VARIABLES uris, issuers, audience,  \* the configuration
          devBypass,                \* is AUTH_DEV_BYPASS 'true'?
          token, from,              \* the request: its token, its hosts
          left,                     \* the providers it has yet to try, by position
          outcome,                  \* what came of it
          identity,                 \* the VerifiedIdentity
          tried, missed,            \* history: positions tried; key sets not reached then
          down, outages             \* the providers out of reach, and how often there were

config == <<uris, issuers, audience, devBypass>>
vars == <<config, token, from, left, outcome, identity, tried, missed, down, outages>>

UserRole == {"hr_admin", "manager", "employee", "system_admin"}

\* The claims that are read.  None: absent, or not a string.
Claims == [role : UserRole \cup {"other", None}, groups : Seq(UserRole \cup {"other"}),
           realm : Seq(UserRole \cup {"other"}), clients : SUBSET Client,
           sub : Word \cup {None}, preferred_username : Word \cup {None},
           email : Word \cup {None}, username : Word \cup {None},
           cognito_username : Word \cup {None}]

ASSUME IdentityAssumption ==
  /\ Uris \subseteq Seq(KeySet) /\ Issuers \subseteq Seq(Issuer)
  /\ Audiences \subseteq SUBSET Client
  /\ Address \subseteq Word /\ Blank \subseteq Word \ Address
  /\ None \notin KeySet \cup Issuer \cup Word /\ MaxOutages \in Nat
  /\ \A t \in Tokens : \/ t.dev /\ t.known \in BOOLEAN
                       \/ /\ ~t.dev /\ t.iss \in Issuer \cup {None}
                          /\ t.key \in KeySet \cup {None} /\ t.claims \in Claims
  /\ \A o \in Origins : o.host # None /\ \A h \in {o.host, o.origin} \ {None} :
       h.local \in BOOLEAN /\ h.ip \in (0..255) \X (0..255) \cup {None}

-----------------------------------------------------------------------------
(* claims.ts                                                               *)

\* The first element of s that is in S, or None.
FirstOf(s, S) == LET hits == {i \in DOMAIN s : s[i] \in S}
                 IN IF hits = {} THEN None ELSE s[CHOOSE i \in hits : \A j \in hits : i <= j]

RoleFromClaims(c) == FirstOf(<<c.role>> \o c.groups \o c.realm, UserRole)

\* aud, client_id and azp, whichever the token has.
AudienceMatches(c, allowed) == allowed = {} \/ c.clients \cap allowed # {}

\* Mutant: the user name that Cognito gives is left out.
EmailOfTwo(c) == FirstOf(<<c.email, c.username>>, Address)

EmailFromClaims(c) == FirstOf(<<c.email, c.username, c.cognito_username>>, Address)

SubFromClaims(c) == FirstOf(<<c.sub, c.preferred_username, c.email, c.username, c.cognito_username>>,
                            Word \ Blank)

-----------------------------------------------------------------------------
(* dev-bypass.ts                                                           *)

\* Mutant: 172.32.0.0 and what follows count as private.
AnyOf172(ip) == LET a == ip[1] b == ip[2]
                IN a = 10 \/ (a = 172 /\ b >= 16) \/ (a = 192 /\ b = 168)

\* The first two numbers of an address tell.
IsPrivateLanIpv4(ip) == LET a == ip[1] b == ip[2]
                        IN \/ a = 10
                           \/ a = 172 /\ b >= 16 /\ b <= 31
                           \/ a = 192 /\ b = 168

IsDevBypassHost(h) == h.local \/ (h.ip # None /\ IsPrivateLanIpv4(h.ip))

\* The host asked, and the origin of the page that asks if there is one.
IsLocalDevBypassRequest(o) ==
  devBypass /\ IsDevBypassHost(o.host) /\ (o.origin # None => IsDevBypassHost(o.origin))

-----------------------------------------------------------------------------
(* identity-provider.service.ts                                            *)

\* Issuers pair with key sets by place; a single one is that of all; else there is none.
BuildIssuerJwksConfigs(us, is) ==
  [i \in DOMAIN us |-> [jwks |-> us[i],
                        issuer |-> IF i \in DOMAIN is THEN is[i]
                                   ELSE IF Len(is) = 1 THEN is[1] ELSE None]]

IssuerOf(i) == BuildIssuerJwksConfigs(uris, issuers)[i].issuer

\* The issuer the token names, if it can be read.
ReadTokenIssuer == IF token.dev THEN None ELSE token.iss

Own(i) == ReadTokenIssuer # None /\ IssuerOf(i) = ReadTokenIssuer

\* Mutant: the configs are tried as they come.
AsTheyCome(i, j) == i <= j

\* The configs of the issuer the token names come first, then the others.
Before(i, j) == \/ Own(i) /\ ~Own(j)
                \/ (Own(i) <=> Own(j)) /\ i <= j

\* jwtVerify: the signature, and the issuer if one is asked for.
JwtVerifies(i) == ~token.dev /\ token.key = uris[i] /\ IssuerOf(i) \in {None, token.iss}

\* What is read from a verified token, or why it is not taken.
Judge(c) == IF SubFromClaims(c) = None THEN "no subject"
            ELSE IF ~AudienceMatches(c, audience) THEN "audience" ELSE "accepted"

IdentityOf(c) == [sub |-> SubFromClaims(c), email |-> EmailFromClaims(c), role |-> RoleFromClaims(c)]

-----------------------------------------------------------------------------
(* A request.                                                              *)

Init == /\ uris \in Uris /\ issuers \in Issuers /\ audience \in Audiences /\ devBypass \in BOOLEAN
        /\ token \in Tokens /\ from \in Origins
        /\ left = {} /\ outcome = "new" /\ identity = None
        /\ tried = {} /\ missed = {} /\ down = {} /\ outages = 0

\* The guard: a dev token on a local host is looked up in a table of four, and its
\* user in the database.
Bypass ==
  /\ outcome = "new" /\ token.dev /\ IsLocalDevBypassRequest(from)
  /\ outcome' \in IF token.known THEN {"dev user", "not seeded"} ELSE {"unknown"}
  /\ UNCHANGED <<config, token, from, left, identity, tried, missed, down, outages>>

\* Everything else is verified; a dev token elsewhere is no token any provider signed.
Verify ==
  /\ outcome = "new" /\ ~(token.dev /\ IsLocalDevBypassRequest(from))
  /\ \/ uris = <<>> /\ outcome' = "not configured" /\ UNCHANGED left
     \/ uris # <<>> /\ outcome' = "trying" /\ left' = DOMAIN uris
  /\ UNCHANGED <<config, token, from, identity, tried, missed, down, outages>>

\* The config at i is tried next.
Turn(i) == outcome = "trying" /\ i \in left /\ \A j \in left : Before(i, j)

Verifies(i) == uris[i] \notin down /\ JwtVerifies(i)

Accept(i) ==
  /\ Turn(i) /\ Verifies(i)
  /\ tried' = tried \cup {i} /\ left' = {}
  /\ outcome' = Judge(token.claims)
  /\ identity' = IF outcome' = "accepted" THEN IdentityOf(token.claims) ELSE None
  /\ UNCHANGED <<config, token, from, missed, down, outages>>

\* Mutant: a provider out of reach ends the search.
GiveUpOnOutage(i) ==
  /\ Turn(i) /\ ~Verifies(i)
  /\ tried' = tried \cup {i} /\ left' = IF uris[i] \in down THEN {} ELSE left \ {i}
  /\ missed' = missed \cup ({uris[i]} \cap down)
  /\ UNCHANGED <<config, token, from, outcome, identity, down, outages>>

\* Mutant: a provider out of reach is tried again.
RetryOnOutage(i) ==
  /\ Turn(i) /\ ~Verifies(i)
  /\ tried' = tried \cup {i} /\ left' = IF uris[i] \in down THEN left ELSE left \ {i}
  /\ missed' = missed \cup ({uris[i]} \cap down)
  /\ UNCHANGED <<config, token, from, outcome, identity, down, outages>>

\* Whatever jwtVerify throws, the next config is tried.
TryNext(i) ==
  /\ Turn(i) /\ ~Verifies(i)
  /\ tried' = tried \cup {i} /\ left' = left \ {i}
  /\ missed' = missed \cup ({uris[i]} \cap down)
  /\ UNCHANGED <<config, token, from, outcome, identity, down, outages>>

Refuse ==
  /\ outcome = "trying" /\ left = {}
  /\ outcome' = "invalid"
  /\ UNCHANGED <<config, token, from, left, identity, tried, missed, down, outages>>

Outage == \E k \in KeySet : /\ k \notin down /\ outages < MaxOutages
                            /\ outages' = outages + 1 /\ down' = down \cup {k}
                            /\ UNCHANGED <<config, token, from, left, outcome, identity, tried, missed>>

Recover == /\ down # {} /\ down' = {}
           /\ UNCHANGED <<config, token, from, left, outcome, identity, tried, missed, outages>>

Next == \/ Bypass \/ Verify \/ Refuse \/ Outage \/ Recover
        \/ \E i \in DOMAIN uris : Accept(i) \/ TryNext(i)

Spec == Init /\ [][Next]_vars

-----------------------------------------------------------------------------
(* Properties.                                                             *)

\* Every variable keeps its type, and no config is tried twice for a request.
TypeOK ==
  /\ uris \in Uris /\ issuers \in Issuers /\ audience \in Audiences /\ devBypass \in BOOLEAN
  /\ token \in Tokens /\ from \in Origins
  /\ tried \subseteq DOMAIN uris /\ missed \subseteq KeySet /\ down \subseteq KeySet
  /\ left \subseteq DOMAIN uris \ tried
  /\ outcome \in {"new", "trying", "dev user", "not seeded", "unknown", "not configured", "invalid",
                  "no subject", "audience", "accepted"}
  /\ identity # None => outcome = "accepted"
  /\ outages \in 0..MaxOutages

\* The providers of the configuration that the token is from, if each has its issuer.
Vouching == {i \in DOMAIN uris : uris[i] = token.key /\ issuers[i] = token.iss}

\* With an issuer for each key set, a token is taken only if one of the providers
\* it can be from signed it, and refused as invalid only if that provider was out of
\* reach when its turn came: neither the order of the lists nor an outage of another
\* provider matters (the loop of verifyAccessToken).
VerdictFits ==
  ~token.dev /\ Len(issuers) = Len(uris) =>
    /\ outcome \in {"accepted", "audience", "no subject"} => Vouching # {}
    /\ outcome = "invalid" => \A i \in Vouching : uris[i] \in missed

\* The providers of the issuer a token names are asked before any other, so that a
\* slow or absent one delays only its own tokens.
OwnProviderFirst ==
  [][\A i \in tried' \ tried, j \in DOMAIN uris : Own(j) /\ ~Own(i) => j \in tried]_vars

\* The strings of the claims in which a user is named.
Names(c) == {c.email, c.username, c.cognito_username}

\* Nothing the token states is left out: a known role in any of its three places and an
\* address in any of its three, however many unknown groups or plain names come before
\* it; and a token is found to name nobody only if each of the five claims that could
\* is absent or blank (claims.ts).
NothingStatedIsLost ==
  /\ identity # None =>
       LET c == token.claims
           roles == {c.role} \cup {c.groups[i] : i \in DOMAIN c.groups}
                             \cup {c.realm[i] : i \in DOMAIN c.realm}
       IN /\ identity.role \in roles \cap UserRole \/ roles \cap UserRole = {}
          /\ identity.email \in Names(c) \cap Address \/ Names(c) \cap Address = {}
  /\ outcome = "no subject" =>
       LET c == token.claims
       IN Names(c) \cup {c.sub, c.preferred_username} \subseteq Blank \cup {None}

\* The blocks of private addresses, by their first two numbers: 10.0.0.0/8,
\* 172.16.0.0/12 and 192.168.0.0/16.
Private == (10 * 256 .. 11 * 256 - 1) \cup (172 * 256 + 16 .. 172 * 256 + 31)
           \cup {192 * 256 + 168}

\* A dev token is looked up exactly when the bypass is on and the host and the origin
\* are this machine or its local network (the comment on isDevBypassHost); elsewhere it
\* is a token like any other.
DevTokensAreLocal ==
  token.dev /\ outcome # "new" =>
    (outcome \in {"dev user", "not seeded", "unknown"}
       <=> devBypass /\ \A h \in {from.host, from.origin} \ {None} :
             h.local \/ (h.ip # None /\ h.ip[1] * 256 + h.ip[2] \in Private))
=============================================================================
