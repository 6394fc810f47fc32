---------------------------- MODULE SignInProofs ----------------------------
(***************************************************************************)
(* Proofs about module SignIn, for any number of tabs, accounts and        *)
(* sign-ins, and any bounds on faults and whims.                           *)
(***************************************************************************)
EXTENDS SignIn, TLAPS

-----------------------------------------------------------------------------
(* Type correctness.                                                       *)

\* A page shows an account only when it is ready; it waits for the calls of its
\* start until then, and for those of the form after.
Tidy(t) == /\ page[t] # "ready" => me[t] = None
           /\ page[t] = "boot"  => \A c \in calls[t] : c.for \in {"exchange", "boot"}
           /\ page[t] = "ready" => \A c \in calls[t] : c.for \in {"form", "login"}

TypeInv == TypeOK /\ \A t \in Tab : Tidy(t)

LEMMA InitType == Init => TypeInv
BY SignInAssumption DEF Init, TypeInv, TypeOK, Tidy

\* A count within its bound that is below it can be counted up.
LEMMA CountUp ==
  /\ \A n \in 0..MaxFaults : n < MaxFaults => n + 1 \in 0..MaxFaults
  /\ \A n \in 0..MaxWhims : n < MaxWhims => n + 1 \in 0..MaxWhims
<1>1. MaxFaults \in Nat /\ MaxWhims \in Nat
  BY SignInAssumption
<1>2. QED
  BY <1>1

\* The counts of faults and whims stay within their bounds.
LEMMA BoundsKept ==
  ASSUME TypeInv, [Next]_vars
  PROVE  faults' \in 0..MaxFaults /\ whims' \in 0..MaxWhims
<1>1. faults \in 0..MaxFaults /\ whims \in 0..MaxWhims
  BY DEF TypeInv, TypeOK
<1>2. \/ faults' = faults
      \/ faults < MaxFaults /\ faults' = faults + 1
  BY DEF Next, vars, bounds, Run, Load, Return, Again, Consume, Exchange, ExchangeOk,
         ExchangeFails, BootOk, BootFails, HostedUi, Submit, FormOk, LoginOk, LoginFails,
         Logout, Expire
<1>3. \/ whims' = whims
      \/ whims < MaxWhims /\ whims' = whims + 1
  BY DEF Next, vars, bounds, Run, Load, Return, Again, Consume, Exchange, ExchangeOk,
         ExchangeFails, BootOk, BootFails, HostedUi, Submit, FormOk, LoginOk, LoginFails,
         Logout, Expire
<1>4. QED
  BY <1>1, <1>2, <1>3, CountUp

\* What a step of the page t leaves: a page like any other, and every other page.
TypeStep(t) ==
  /\ stored' \in Token \cup {None} /\ dead' \subseteq Token /\ spent' \subseteq Token
  /\ page' \in [Tab -> {"away", "load", "boot", "ready"}]
  /\ url' \in [Tab -> Token \cup {None, "error", "old"}]
  /\ sess' \in [Tab -> Token \cup {None}] /\ out' \in [Tab -> Token \cup {None}]
  /\ calls' \in [Tab -> SUBSET Call] /\ me' \in [Tab -> Account \cup {None}]
  /\ alone' \in [Tab -> BOOLEAN]
  /\ page'[t] \in {"away", "load"} => calls'[t] = {}
  /\ page'[t] = "boot" => \E c \in Call : calls'[t] = {c}
  /\ Tidy(t)'
  /\ \A s \in Tab \ {t} : page'[s] = page[s] /\ calls'[s] = calls[s] /\ me'[s] = me[s]

LEMMA OthersKept ==
  ASSUME TypeInv, [Next]_vars, NEW t \in Tab, TypeStep(t)
  PROVE  TypeInv'
<1>1. \A s \in Tab \ {t} : Tidy(s)'
  BY DEF TypeInv, TypeStep, Tidy
<1>2. QED
  BY <1>1, BoundsKept DEF TypeInv, TypeOK, TypeStep

LEMMA SetTokenType ==
  ASSUME TypeInv, NEW t \in Tab, NEW n \in Token \cup {None}, SetToken(t, n)
  PROVE  stored' \in Token \cup {None} /\ alone' \in [Tab -> BOOLEAN]
BY DEF SetToken, TypeInv, TypeOK

LEMMA CheckTokenType ==
  ASSUME TypeInv, NEW t \in Tab, NEW n \in Token \cup {None}, CheckToken(t, n), me[t] = None, me' = me
  PROVE  /\ page' \in [Tab -> {"away", "load", "boot", "ready"}]
         /\ calls' \in [Tab -> SUBSET Call]
         /\ page'[t] \in {"boot", "ready"} 
         /\ page'[t] = "boot" => \E c \in Call : calls'[t] = {c}
         /\ Tidy(t)'
         /\ \A s \in Tab \ {t} : page'[s] = page[s] /\ calls'[s] = calls[s]
<1>1. CASE n = None
  BY <1>1 DEF CheckToken, TypeInv, TypeOK, Tidy
<1>2. CASE n # None
  <2>1. [for |-> "boot", token |-> n] \in Call
    BY <1>2 DEF Call
  <2>2. QED
    BY <1>2, <2>1 DEF CheckToken, TypeInv, TypeOK, Tidy
<1>3. QED
  BY <1>1, <1>2

LEMMA LeaveType ==
  ASSUME TypeInv, NEW t \in Tab, NEW p \in {"away", "load"},
         NEW u \in Token \cup {None, "error", "old"}, NEW o \in Token \cup {None},
         Leave(t, p, u, o)
  PROVE  /\ page' \in [Tab -> {"away", "load", "boot", "ready"}]
         /\ url' \in [Tab -> Token \cup {None, "error", "old"}]
         /\ out' \in [Tab -> Token \cup {None}]
         /\ calls' \in [Tab -> SUBSET Call] /\ me' \in [Tab -> Account \cup {None}]
         /\ page'[t] \in {"away", "load"} /\ calls'[t] = {} /\ Tidy(t)'
         /\ \A s \in Tab \ {t} : page'[s] = page[s] /\ calls'[s] = calls[s] /\ me'[s] = me[s]
BY DEF Leave, TypeInv, TypeOK, Tidy

\* What the steps that come to the page, or leave it, do.
LEMMA ComingType ==
  ASSUME TypeInv, NEW t \in Tab,
         Load(t) \/ Return(t) \/ Again(t) \/ HostedUi(t) \/ Logout(t)
  PROVE  TypeStep(t)
<1> USE DEF TypeInv, TypeOK
<1>1. CASE Load(t)
  <2>1. url[t] \in Token \cup {None, "error", "old"} /\ Leave(t, "load", url[t], None)
    BY <1>1 DEF Load
  <2>2. alone' \in [Tab -> BOOLEAN] /\ UNCHANGED <<stored, dead, sess, spent>>
    BY <1>1 DEF Load
  <2>3. QED
    BY <2>1, <2>2, LeaveType DEF TypeStep
<1>2. CASE Return(t)
  <2>1. /\ out[t] \in Token
        /\ Leave(t, "load", out[t], None) \/ Leave(t, "load", "error", None)
    BY <1>2 DEF Return
  <2>2. alone' \in [Tab -> BOOLEAN] /\ UNCHANGED <<stored, dead, sess, spent>>
    BY <1>2 DEF Return
  <2>3. QED
    BY <2>1, <2>2, LeaveType DEF TypeStep
<1>3. CASE Again(t)
  <2>1. Leave(t, "load", "old", None)
    BY <1>3 DEF Again
  <2>2. alone' \in [Tab -> BOOLEAN] /\ UNCHANGED <<stored, dead, sess, spent>>
    BY <1>3 DEF Again
  <2>3. QED
    BY <2>1, <2>2, LeaveType DEF TypeStep
<1>4. CASE HostedUi(t)
  <2>1. PICK n \in Token : Renew(n) /\ Remember(t, n) /\ Leave(t, "away", None, n) /\ KeepToken
    BY <1>4 DEF HostedUi
  <2>2. sess' \in [Tab -> Token \cup {None}] /\ dead' \subseteq Token /\ spent' \subseteq Token
    BY <2>1 DEF Renew, Remember
  <2>3. QED
    BY <2>1, <2>2, LeaveType DEF TypeStep, KeepToken
<1>5. CASE Logout(t)
  <2>1. SetToken(t, None) /\ Leave(t, "away", None, None) /\ UNCHANGED <<dead, sess, spent>>
    BY <1>5 DEF Logout
  <2>2. QED
    BY <2>1, LeaveType, SetTokenType DEF TypeStep
<1>6. QED
  BY <1>1, <1>2, <1>3, <1>4, <1>5

\* What the steps of a page that starts do.
LEMMA StartType ==
  ASSUME TypeInv, NEW t \in Tab,
         Consume(t) \/ Exchange(t) \/ ExchangeOk(t) \/ ExchangeFails(t) \/ BootOk(t) \/ BootFails(t)
  PROVE  TypeStep(t)
<1> USE DEF TypeInv, TypeOK
<1>1. CASE Consume(t)
  <2>1. /\ me[t] = None /\ me' = me /\ CheckToken(t, stored) /\ stored \in Token \cup {None}
        /\ UNCHANGED <<stored, dead, out, me, spent, alone>>
    BY <1>1 DEF Consume, Tidy
  <2>2. sess' \in [Tab -> Token \cup {None}] /\ url' \in [Tab -> Token \cup {None, "error", "old"}]
    BY <1>1 DEF Consume, Forget
  <2>3. QED
    BY <2>1, <2>2, CheckTokenType DEF TypeStep
<1>2. CASE Exchange(t)
  <2>1. [for |-> "exchange", token |-> url[t]] \in Call
    BY <1>2 DEF Exchange, Call
  <2>2. sess' \in [Tab -> Token \cup {None}] /\ spent' \subseteq Token
    BY <1>2 DEF Exchange, Forget
  <2>3. /\ page' = [page EXCEPT ![t] = "boot"]
        /\ calls' = [calls EXCEPT ![t] = {[for |-> "exchange", token |-> url[t]]}]
        /\ UNCHANGED <<stored, dead, url, out, me, alone>> /\ me[t] = None
    BY <1>2 DEF Exchange, Tidy
  <2>4. Tidy(t)'
    BY <2>3 DEF Tidy
  <2>5. QED
    BY <2>1, <2>2, <2>3, <2>4 DEF TypeStep
<1>3. CASE ExchangeOk(t)
  <2>1. PICK c \in calls[t] : c.for = "exchange" /\ Redeemed(t, c.token)
    BY <1>3 DEF ExchangeOk
  <2>2. c \in Call /\ c.token \in Token
    BY <2>1 DEF Call
  <2>3. me[t] = None
    BY <2>1, <2>2 DEF Tidy
  <2>4. url' \in [Tab -> Token \cup {None, "error", "old"}] /\ UNCHANGED <<dead, sess, out, me, spent>>
    BY <1>3 DEF ExchangeOk
  <2>5. QED
    BY <2>1, <2>2, <2>3, <2>4, CheckTokenType, SetTokenType DEF TypeStep, Redeemed
<1>4. CASE ExchangeFails(t)
  <2>1. PICK c \in calls[t] : c.for = "exchange"
    BY <1>4 DEF ExchangeFails
  <2>2. me[t] = None
    BY <2>1 DEF Tidy
  <2>3. /\ url' \in [Tab -> Token \cup {None, "error", "old"}] /\ CheckToken(t, stored)
        /\ UNCHANGED <<stored, dead, sess, out, me, spent, alone>>
    BY <1>4 DEF ExchangeFails
  <2>4. QED
    BY <2>2, <2>3, CheckTokenType DEF TypeStep
<1>5. CASE BootOk(t)
  <2>1. PICK n \in Token : /\ Booting(t, n)
                           /\ me' = [me EXCEPT ![t] = owner[n]] /\ page' = [page EXCEPT ![t] = "ready"]
                           /\ calls' = [calls EXCEPT ![t] = {}]
                           /\ KeepToken /\ UNCHANGED <<dead, url, sess, out, spent>>
    BY <1>5 DEF BootOk
  <2>2. owner[n] \in Account
    BY SignInAssumption
  <2>3. QED
    BY <2>1, <2>2 DEF TypeStep, Tidy, KeepToken
<1>6. CASE BootFails(t)
  <2>1. PICK n \in Token : /\ Booting(t, n)
                           /\ page' = [page EXCEPT ![t] = "ready"] /\ SetToken(t, None)
                           /\ calls' = [calls EXCEPT ![t] = {}]
                           /\ UNCHANGED <<dead, url, sess, out, me, spent>>
    BY <1>6 DEF BootFails
  <2>2. QED
    BY <2>1, SetTokenType DEF TypeStep, Tidy
<1>7. QED
  BY <1>1, <1>2, <1>3, <1>4, <1>5, <1>6

\* What the steps of the form do.
LEMMA FormType ==
  ASSUME TypeInv, NEW t \in Tab, Submit(t) \/ FormOk(t) \/ LoginOk(t) \/ LoginFails(t)
  PROVE  TypeStep(t)
<1> USE DEF TypeInv, TypeOK
<1>0. \A c \in Call : c.token \in Token
  BY DEF Call
<1>1. CASE Submit(t)
  <2>1. PICK n \in Token :
          /\ FormShown(t) /\ Renew(n)
          /\ calls' = [calls EXCEPT ![t] = @ \cup {[for |-> "form", token |-> n]}]
          /\ UNCHANGED <<stored, page, url, sess, out, me>>
    BY <1>1 DEF Submit
  <2>2. alone' \in [Tab -> BOOLEAN] /\ dead' \subseteq Token /\ spent' \subseteq Token
    BY <1>1 DEF Submit, Renew
  <2>3. [for |-> "form", token |-> n] \in Call
    BY DEF Call
  <2>4. Tidy(t)'
    BY <2>1 DEF Tidy, FormShown
  <2>5. QED
    BY <2>1, <2>2, <2>3, <2>4 DEF TypeStep, FormShown
<1>2. CASE FormOk(t)
  <2>1. PICK c \in calls[t] : c.for = "form" /\ Pick(t, c)
    BY <1>2 DEF FormOk
  <2>2. c.token \in Token /\ [for |-> "login", token |-> c.token] \in Call
    BY <1>0 DEF Call
  <2>3. page[t] = "ready" /\ UNCHANGED <<dead, page, url, sess, out, me, spent>>
    BY <1>2, <2>1 DEF FormOk, Tidy
  <2>4. calls' = [calls EXCEPT ![t] = (@ \ {c}) \cup {[for |-> "login", token |-> c.token]}]
    BY <2>1 DEF Pick
  <2>5. Tidy(t)'
    BY <2>3, <2>4 DEF Tidy
  <2>6. QED
    BY <2>1, <2>2, <2>3, <2>4, <2>5, SetTokenType DEF TypeStep, Pick
<1>3. CASE LoginOk(t)
  <2>1. PICK c \in calls[t] : /\ c.for = "login" /\ me' = [me EXCEPT ![t] = owner[c.token]]
                              /\ calls' = [calls EXCEPT ![t] = @ \ {c}]
                              /\ KeepToken /\ UNCHANGED <<dead, page, url, sess, out, spent>>
    BY <1>3 DEF LoginOk
  <2>2. owner[c.token] \in Account
    BY <1>0, SignInAssumption
  <2>3. page[t] = "ready"
    BY <2>1 DEF Tidy
  <2>4. Tidy(t)'
    BY <2>1, <2>3 DEF Tidy
  <2>5. QED
    BY <2>1, <2>2, <2>3, <2>4 DEF TypeStep, KeepToken
<1>4. CASE LoginFails(t)
  <2>1. PICK c \in calls[t] : /\ c.for \in {"form", "login"}
                              /\ calls' = [calls EXCEPT ![t] = @ \ {c}]
                              /\ KeepToken /\ UNCHANGED <<dead, page, url, sess, out, me, spent>>
    BY <1>4 DEF LoginFails
  <2>2. page[t] = "ready"
    BY <2>1 DEF Tidy
  <2>3. Tidy(t)'
    BY <2>1, <2>2 DEF Tidy
  <2>4. QED
    BY <2>1, <2>2, <2>3 DEF TypeStep, KeepToken
<1>5. QED
  BY <1>1, <1>2, <1>3, <1>4

LEMMA StepType == TypeInv /\ [Next]_vars => TypeInv'
<1> SUFFICES ASSUME TypeInv, [Next]_vars PROVE TypeInv'
  OBVIOUS
<1>1. CASE UNCHANGED vars
  BY <1>1 DEF TypeInv, TypeOK, Tidy, vars, browser, bounds
<1>2. CASE Expire
  BY <1>2, BoundsKept DEF TypeInv, TypeOK, Tidy, Expire, KeepToken, browser
<1>3. ASSUME NEW t \in Tab, Load(t) \/ Return(t) \/ Again(t) \/ Run(t) \/ ExchangeFails(t)
                            \/ HostedUi(t) \/ Submit(t) \/ Logout(t)
      PROVE  TypeInv'
  BY <1>3, ComingType, StartType, FormType, OthersKept DEF Run
<1>4. QED
  BY <1>1, <1>2, <1>3 DEF Next

LEMMA TypeInvariant == Spec => []TypeInv
BY InitType, StepType, PTL DEF Spec

\* Every variable keeps its type, and a page that starts waits for one call at a time.
THEOREM TypeCorrect == Spec => []TypeOK
<1>1. TypeInv => TypeOK
  BY DEF TypeInv
<1>2. QED
  BY <1>1, TypeInvariant, PTL

-----------------------------------------------------------------------------
(* A code is sent once.                                                    *)

\* The sign-in a tab expects back is expected by no other tab, and its code has not
\* been sent.
Expected == \A t \in Tab : sess[t] # None => /\ sess[t] \notin spent
                                             /\ \A s \in Tab : sess[s] = sess[t] => s = t

LEMMA InitExpected == Init => Expected
BY DEF Init, Expected

LEMMA StepExpected == TypeInv /\ Expected /\ [Next]_vars => Expected'
<1> SUFFICES ASSUME TypeInv, Expected, [Next]_vars PROVE Expected'
  OBVIOUS
<1> USE DEF Expected
<1>0. sess \in [Tab -> Token \cup {None}] /\ None \notin Token
  BY SignInAssumption DEF TypeInv, TypeOK
<1>1. CASE UNCHANGED <<sess, spent>>
  BY <1>1
<1>2. ASSUME NEW t \in Tab, Consume(t) PROVE Expected'
  BY <1>0, <1>2 DEF Consume, Forget
<1>3. ASSUME NEW t \in Tab, Exchange(t) PROVE Expected'
  BY <1>0, <1>3 DEF Exchange, Forget
<1>4. ASSUME NEW t \in Tab, HostedUi(t) PROVE Expected'
  <2>1. PICK n \in Token : Fresh(n, Tab \ {t}) /\ Renew(n) /\ Remember(t, n)
    BY <1>4 DEF HostedUi
  <2>2. \A s \in Tab \ {t} : sess[s] # n
    BY <2>1 DEF Fresh
  <2>3. spent' = spent \ {n} /\ sess' = [sess EXCEPT ![t] = n]
    BY <2>1 DEF Renew, Remember
  <2>4. QED
    BY <1>0, <2>2, <2>3
<1>5. ASSUME NEW t \in Tab, Submit(t) PROVE Expected'
  BY <1>5 DEF Submit, Renew
<1>6. QED
  BY <1>1, <1>2, <1>3, <1>4, <1>5
     DEF Next, vars, browser, Run, Load, Return, Again, ExchangeOk, ExchangeFails, BootOk,
         BootFails, FormOk, LoginOk, LoginFails, Logout, Expire

\* However a page that is exchanging a code is reloaded, brought back or fails, the
\* code is sent at most once (consumeAuthCode).
THEOREM CodeSentOnce == Spec => CodeOnce
<1> DEFINE Sends(n, t) == [for |-> "exchange", token |-> n] \in calls'[t] \ calls[t]
           NotAgain == \A n \in spent : ~\E t \in Tab :
                  LET c == [for |-> "exchange", token |-> n] IN c \in calls'[t] \ calls[t]
<1>1. TypeInv /\ Expected /\ [Next]_vars => [NotAgain]_vars
  <2> SUFFICES ASSUME TypeInv, Expected, Next, NEW n \in spent, NEW t \in Tab PROVE ~Sends(n, t)
    OBVIOUS
  <2>0. calls \in [Tab -> SUBSET Call] /\ None \notin Token
    BY SignInAssumption DEF TypeInv, TypeOK
  <2>1. ASSUME NEW s \in Tab, Exchange(s) PROVE ~Sends(n, t)
    <3>1. url[s] \notin spent /\ url[s] # n
      BY <2>0, <2>1 DEF Exchange, Expected
    <3>2. calls' = [calls EXCEPT ![s] = {[for |-> "exchange", token |-> url[s]]}]
      BY <2>1 DEF Exchange
    <3>3. QED
      BY <2>0, <3>1, <3>2
  <2>2. ASSUME NEW s \in Tab, Consume(s) \/ ExchangeOk(s) \/ ExchangeFails(s) PROVE ~Sends(n, t)
    <3>1. PICK m : CheckToken(s, m)
      BY <2>2 DEF Consume, ExchangeOk, ExchangeFails, Redeemed
    <3>2. \/ calls' = [calls EXCEPT ![s] = {}]
          \/ calls' = [calls EXCEPT ![s] = {[for |-> "boot", token |-> m]}]
      BY <3>1 DEF CheckToken
    <3>3. QED
      BY <2>0, <3>2
  <2>3. ASSUME NEW s \in Tab, Load(s) \/ Return(s) \/ Again(s) \/ HostedUi(s) \/ Logout(s)
                               \/ BootOk(s) \/ BootFails(s)
        PROVE  ~Sends(n, t)
    <3>1. calls' = [calls EXCEPT ![s] = {}]
      BY <2>3 DEF Load, Return, Again, HostedUi, Logout, BootOk, BootFails, Leave
    <3>2. QED
      BY <2>0, <3>1
  <2>4. ASSUME NEW s \in Tab, Submit(s) \/ FormOk(s) PROVE ~Sends(n, t)
    <3>1. \E m, c : \/ calls' = [calls EXCEPT ![s] = @ \cup {[for |-> "form", token |-> m]}]
                    \/ calls' = [calls EXCEPT ![s] = (@ \ {c}) \cup {[for |-> "login", token |-> m]}]
      BY <2>4 DEF Submit, FormOk, Pick
    <3>2. QED
      BY <2>0, <3>1
  <2>5. ASSUME NEW s \in Tab, LoginOk(s) \/ LoginFails(s) PROVE ~Sends(n, t)
    <3>1. \E c : calls' = [calls EXCEPT ![s] = @ \ {c}]
      BY <2>5 DEF LoginOk, LoginFails
    <3>2. QED
      BY <2>0, <3>1
  <2>6. CASE Expire
    BY <2>6 DEF Expire, browser
  <2>7. QED
    BY <2>1, <2>2, <2>3, <2>4, <2>5, <2>6 DEF Next, Run
<1> HIDE DEF NotAgain
<1>2. Spec => [][NotAgain]_vars
  BY <1>1, InitExpected, StepExpected, TypeInvariant, PTL DEF Spec
<1>3. QED
  BY <1>2 DEF NotAgain, CodeOnce

-----------------------------------------------------------------------------
(* The account shown is that of the stored token.                          *)

\* Of a page that had the token to itself since it was loaded: it waits for one call
\* at most and shows nobody meanwhile, the token being tried is the stored one, and so
\* is the one whose account is shown.
Held(t) ==
  alone[t] => /\ \A c, d \in calls[t] : c = d
              /\ calls[t] # {} => me[t] = None
              /\ \A c \in calls[t] : c.for \in {"boot", "login"} => c.token = stored
              /\ me[t] # None => stored # None /\ me[t] = owner[stored]

HeldInv == \A t \in Tab : Held(t)

LEMMA InitHeld == Init => HeldInv
BY DEF Init, HeldInv, Held

\* A page does not lose what it holds by the steps of another: these leave the token
\* alone or take note of the change.
LEMMA OthersHeld ==
  ASSUME TypeInv, HeldInv, NEW t \in Tab, NEW s \in Tab \ {t}, TypeStep(t),
         \/ stored' = stored /\ (alone'[s] => alone[s])
         \/ \E n : SetToken(t, n)
  PROVE  Held(s)'
<1>1. alone'[s] => alone[s] /\ stored' = stored
  BY DEF SetToken, TypeInv, TypeOK
<1>2. QED
  BY <1>1 DEF HeldInv, Held, TypeStep

\* A page that goes or starts holds nothing yet, and asks about the stored token.
LEMMA BeginsHeld ==
  ASSUME NEW t \in Tab, me'[t] = None,
         calls'[t] = {} \/ \E n : n = stored' /\ calls'[t] = {[for |-> "boot", token |-> n]}
  PROVE  Held(t)'
BY DEF Held

LEMMA StepHeld == TypeInv /\ HeldInv /\ [Next]_vars => HeldInv'
<1> SUFFICES ASSUME TypeInv, HeldInv, [Next]_vars PROVE HeldInv'
  OBVIOUS
<1>0. /\ me \in [Tab -> Account \cup {None}] /\ calls \in [Tab -> SUBSET Call]
      /\ page \in [Tab -> {"away", "load", "boot", "ready"}] /\ alone \in [Tab -> BOOLEAN]
      /\ stored \in Token \cup {None}
      /\ None \notin Token \cup Account /\ owner \in [Token -> Account]
      /\ \A t \in Tab : Tidy(t) /\ Held(t)
  BY SignInAssumption DEF TypeInv, TypeOK, HeldInv
<1>1. CASE UNCHANGED <<stored, calls, me, alone>>
  BY <1>0, <1>1 DEF HeldInv, Held
<1>2. ASSUME NEW t \in Tab, Load(t) \/ Return(t) \/ Again(t) \/ HostedUi(t) \/ Logout(t)
      PROVE  HeldInv'
  <2>1. TypeStep(t) /\ me'[t] = None /\ calls'[t] = {}
    BY <1>0, <1>2, ComingType DEF Load, Return, Again, HostedUi, Logout, Leave
  <2>2. \/ stored' = stored /\ \A s \in Tab \ {t} : alone'[s] = alone[s]
        \/ SetToken(t, None)
    BY <1>0, <1>2 DEF Load, Return, Again, HostedUi, Logout, KeepToken
  <2>3. QED
    BY <2>1, <2>2, BeginsHeld, OthersHeld DEF HeldInv
<1>3. ASSUME NEW t \in Tab, Consume(t) \/ ExchangeOk(t) \/ ExchangeFails(t) PROVE HeldInv'
  <2>1. TypeStep(t) /\ me' = me /\ me[t] = None
    BY <1>0, <1>3, StartType DEF Consume, ExchangeOk, ExchangeFails, Tidy
  <2>2. PICK n : /\ CheckToken(t, n)
                  /\ \/ n = stored /\ UNCHANGED <<stored, alone>>
                     \/ SetToken(t, n)
    BY <1>3 DEF Consume, ExchangeOk, ExchangeFails, Redeemed
  <2>3. n = stored'
    BY <2>2 DEF SetToken
  <2>4. calls'[t] = {} \/ calls'[t] = {[for |-> "boot", token |-> n]}
    BY <1>0, <2>2 DEF CheckToken
  <2>5. Held(t)'
    BY <2>1, <2>3, <2>4, BeginsHeld
  <2>6. \/ stored' = stored /\ alone' = alone
        \/ SetToken(t, n)
    BY <2>2
  <2>7. \A s \in Tab \ {t} : Held(s)'
    BY <2>1, <2>6, OthersHeld
  <2>8. QED
    BY <2>5, <2>7 DEF HeldInv
<1>4. ASSUME NEW t \in Tab, Exchange(t) PROVE HeldInv'
  <2>1. /\ TypeStep(t) /\ me' = me /\ me[t] = None /\ UNCHANGED <<stored, alone>>
        /\ calls'[t] = {[for |-> "exchange", token |-> url[t]]}
    BY <1>0, <1>4, StartType DEF Exchange, Tidy
  <2>2. Held(t)'
    BY <2>1 DEF Held
  <2>3. QED
    BY <2>1, <2>2, OthersHeld DEF HeldInv
<1>5. ASSUME NEW t \in Tab, BootOk(t) PROVE HeldInv'
  <2>1. PICK n \in Token : /\ Booting(t, n) /\ me'[t] = owner[n] /\ calls'[t] = {}
                           /\ UNCHANGED <<stored, alone>>
    BY <1>0, <1>5 DEF BootOk, KeepToken
  <2>2. alone[t] => n = stored
    BY <1>0, <2>1 DEF Held, Booting
  <2>3. Held(t)'
    BY <1>0, <2>1, <2>2 DEF Held
  <2>4. QED
    BY <1>5, <2>1, <2>3, StartType, OthersHeld DEF HeldInv
<1>6. ASSUME NEW t \in Tab, BootFails(t) PROVE HeldInv'
  <2>1. PICK n \in Token : /\ Booting(t, n) /\ me' = me /\ calls'[t] = {} /\ SetToken(t, None)
    BY <1>0, <1>6 DEF BootFails
  <2>2. me[t] = None
    BY <1>0, <2>1 DEF Tidy, Booting
  <2>3. QED
    BY <1>6, <2>1, <2>2, StartType, BeginsHeld, OthersHeld DEF HeldInv
<1>7. ASSUME NEW t \in Tab, Submit(t) PROVE HeldInv'
  <2>1. PICK n \in Token : /\ me[t] = None /\ UNCHANGED <<me, stored>>
                           /\ calls'[t] = calls[t] \cup {[for |-> "form", token |-> n]}
                           /\ alone'[t] => calls[t] = {}
                           /\ \A s \in Tab \ {t} : alone'[s] = alone[s]
    BY <1>0, <1>7 DEF Submit, FormShown
  <2>2. Held(t)'
    BY <2>1 DEF Held
  <2>3. QED
    BY <1>7, <2>1, <2>2, FormType, OthersHeld DEF HeldInv
<1>8. ASSUME NEW t \in Tab, FormOk(t) PROVE HeldInv'
  <2>1. PICK c \in calls[t] :
          /\ c.for = "form" /\ SetToken(t, c.token) /\ UNCHANGED me
          /\ calls'[t] = (calls[t] \ {c}) \cup {[for |-> "login", token |-> c.token]}
    BY <1>0, <1>8 DEF FormOk, Pick
  <2>2. stored' = c.token /\ (alone'[t] => alone[t])
    BY <1>0, <2>1 DEF SetToken
  <2>3. Held(t)'
    BY <1>0, <2>1, <2>2 DEF Held
  <2>4. QED
    BY <1>8, <2>1, <2>3, FormType, OthersHeld DEF HeldInv
<1>9. ASSUME NEW t \in Tab, LoginOk(t) PROVE HeldInv'
  <2>1. PICK c \in calls[t] : /\ c.for = "login" /\ me'[t] = owner[c.token]
                              /\ calls'[t] = calls[t] \ {c} /\ UNCHANGED <<stored, alone>>
    BY <1>0, <1>9 DEF LoginOk, KeepToken
  <2>2. c.token \in Token
    BY <1>0 DEF Call
  <2>3. Held(t)'
    BY <1>0, <2>1, <2>2 DEF Held
  <2>4. QED
    BY <1>9, <2>1, <2>3, FormType, OthersHeld DEF HeldInv
<1>10. ASSUME NEW t \in Tab, LoginFails(t) PROVE HeldInv'
  <2>1. PICK c \in calls[t] : calls'[t] = calls[t] \ {c} /\ UNCHANGED <<stored, alone, me>>
    BY <1>0, <1>10 DEF LoginFails, KeepToken
  <2>2. Held(t)'
    BY <1>0, <2>1 DEF Held
  <2>3. QED
    BY <1>10, <2>1, <2>2, FormType, OthersHeld DEF HeldInv
<1>11. QED
  BY <1>1, <1>2, <1>3, <1>4, <1>5, <1>6, <1>7, <1>8, <1>9, <1>10
     DEF Next, vars, browser, Run, Expire, KeepToken

\* A page that has settled shows the account of the stored token, unless another tab
\* changed the token since or a click was made in haste (the effect of App, pick).
THEOREM ShownStays == Spec => []ShownIsStored
<1>1. HeldInv => ShownIsStored
  BY DEF HeldInv, Held, ShownIsStored
<1>2. QED
  BY <1>1, InitHeld, StepHeld, TypeInvariant, PTL DEF Spec
=============================================================================
