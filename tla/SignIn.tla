------------------------------- MODULE SignIn -------------------------------
(***************************************************************************)
(* Signing in to a web portal (App.tsx, oidc.ts and api.ts of web-admin and *)
(* web-onboarding, which agree up to names) with several tabs of a browser. *)
(*                                                                         *)
(* The tabs share one stored token (localStorage); the state of a sign-in   *)
(* at the provider belongs to the tab (sessionStorage).  A page that loads  *)
(* consumes the callback in its address, then asks the API who the stored   *)
(* token is, and drops that token when there is no good answer.  A page     *)
(* that is ready shows an account, or the sign-in form.                     *)
(*                                                                         *)
(* Code between two awaits is one step.  A token is named by the sign-in it *)
(* came from, and the same name stands for the state and the code of that   *)
(* sign-in: each is made anew for it, at random.                            *)
(***************************************************************************)
EXTENDS Naturals, FiniteSets

CONSTANTS Tab, Account,
          Token, owner,    \* sign-ins, and the account each is of
          MaxFaults,       \* bound: calls lost, sign-ins denied, tokens expired
          MaxWhims,        \* bound: sign-outs, hasty clicks and old addresses
          None             \* null

VARIABLES stored,          \* the token in localStorage
          dead,            \* the tokens the API accepts no more
          page,            \* per tab: away, load (its script starts), boot or ready
          url,             \* the callback in the address: a sign-in, an error, or old
          sess,            \* the sign-in the tab expects back (sessionStorage)
          out,             \* the sign-in the tab is at the provider for
          calls,           \* the calls a page waits for
          me,              \* the account a page shows
          spent,           \* history: the sign-ins whose code was exchanged
          alone,           \* history: nobody but the page, which took one thing at a
                           \*   time, changed the token since the page was loaded
          faults, whims    \* how many of each there were

browser == <<page, url, sess, out, calls, me>>
bounds == <<faults, whims>>
vars == <<stored, dead, browser, spent, alone, bounds>>

ASSUME SignInAssumption ==
  /\ owner \in [Token -> Account] /\ None \notin Token \cup Account
  /\ MaxFaults \in Nat /\ MaxWhims \in Nat

Call == [for : {"exchange", "form", "login", "boot"}, token : Token]

-----------------------------------------------------------------------------

\* setToken: what the other tabs show may be out of date from now on.
SetToken(t, n) == /\ stored' = n
                  /\ alone' = IF n = stored THEN alone
                              ELSE [s \in Tab |-> alone[s] /\ s = t]

KeepToken == UNCHANGED <<stored, alone>>

\* After the callback: without a token the page is ready, else it asks who it is.
CheckToken(t, n) ==
  IF n = None THEN /\ page' = [page EXCEPT ![t] = "ready"]
                   /\ calls' = [calls EXCEPT ![t] = {}]
              ELSE /\ page' = [page EXCEPT ![t] = "boot"]
                   /\ calls' = [calls EXCEPT ![t] = {[for |-> "boot", token |-> n]}]

\* Mutant: a page that starts over still gets the answers to the calls of the last.
LeaveCalls(t, p, u, o) ==
  /\ page' = [page EXCEPT ![t] = p] /\ url' = [url EXCEPT ![t] = u]
  /\ out' = [out EXCEPT ![t] = o] /\ UNCHANGED calls /\ me' = [me EXCEPT ![t] = None]

\* The page t goes away or starts over: calls under way are answered to nobody.
Leave(t, p, u, o) ==
  /\ page' = [page EXCEPT ![t] = p] /\ url' = [url EXCEPT ![t] = u]
  /\ out' = [out EXCEPT ![t] = o]
  /\ calls' = [calls EXCEPT ![t] = {}] /\ me' = [me EXCEPT ![t] = None]

-----------------------------------------------------------------------------
(* Coming to the page.                                                     *)

Settled(t) == page[t] \in {"away", "ready"} /\ calls[t] = {}

\* Opened anew, or reloaded with the address it has.
Load(t) ==
  /\ IF Settled(t) THEN UNCHANGED whims ELSE whims < MaxWhims /\ whims' = whims + 1
  /\ Leave(t, "load", url[t], None)
  /\ alone' = [alone EXCEPT ![t] = TRUE]
  /\ UNCHANGED <<stored, dead, sess, spent, faults>>

\* The provider sends the tab back with a code, or with an error.
Return(t) ==
  /\ out[t] # None
  /\ \/ Leave(t, "load", out[t], None) /\ UNCHANGED faults
     \/ Leave(t, "load", "error", None) /\ faults < MaxFaults /\ faults' = faults + 1
  /\ alone' = [alone EXCEPT ![t] = TRUE]
  /\ UNCHANGED <<stored, dead, sess, spent, whims>>

\* Back or Forward brings up the address of an earlier callback.
Again(t) ==
  /\ whims < MaxWhims /\ whims' = whims + 1
  /\ Leave(t, "load", "old", None)
  /\ alone' = [alone EXCEPT ![t] = TRUE]
  /\ UNCHANGED <<stored, dead, sess, spent, faults>>

-----------------------------------------------------------------------------
(* The page loads: the effect of App.                                      *)

\* Mutant: the state is removed only when the code has been exchanged.
ForgetLater(t) == UNCHANGED sess

\* Read once: both items are removed before the code is sent.
Forget(t) == sess' = [sess EXCEPT ![t] = None]

\* consumeAuthCode finds no code, an error, or a state that is not the tab's.
Consume(t) ==
  /\ page[t] = "load" /\ ~(url[t] \in Token /\ url[t] = sess[t])
  /\ IF url[t] \in {None, "error"} THEN UNCHANGED sess ELSE Forget(t)
  /\ url' = [url EXCEPT ![t] = None]
  /\ CheckToken(t, stored)
  /\ UNCHANGED <<stored, dead, out, me, spent, alone, bounds>>

\* It finds the code of the sign-in the tab began last, and sends it.
Exchange(t) ==
  /\ page[t] = "load" /\ url[t] \in Token /\ url[t] = sess[t]
  /\ Forget(t)
  /\ page' = [page EXCEPT ![t] = "boot"]
  /\ calls' = [calls EXCEPT ![t] = {[for |-> "exchange", token |-> url[t]]}]
  /\ spent' = spent \cup {url[t]}
  /\ UNCHANGED <<stored, dead, url, out, me, alone, bounds>>

\* Mutant: the token of the exchange is not stored.
Exchanged(t, n) == CheckToken(t, stored) /\ KeepToken

\* The provider answers with the token, which is stored and tried.
Redeemed(t, n) == CheckToken(t, n) /\ SetToken(t, n)

ExchangeOk(t) ==
  /\ \E c \in calls[t] : c.for = "exchange" /\ Redeemed(t, c.token)
  /\ url' = [url EXCEPT ![t] = None]
  /\ UNCHANGED <<dead, sess, out, me, spent, bounds>>

\* A lost call leaves the address as it is, a refused one does not.
ExchangeFails(t) ==
  /\ faults < MaxFaults /\ faults' = faults + 1
  /\ \E c \in calls[t] : c.for = "exchange"
  /\ CheckToken(t, stored)
  /\ \/ UNCHANGED url
     \/ url' = [url EXCEPT ![t] = None]
  /\ UNCHANGED <<stored, dead, sess, out, me, spent, alone, whims>>

Booting(t, n) == [for |-> "boot", token |-> n] \in calls[t]

\* GET /me, with the token the page found.
BootOk(t) ==
  \E n \in Token \ dead :
    /\ Booting(t, n)
    /\ me' = [me EXCEPT ![t] = owner[n]] /\ page' = [page EXCEPT ![t] = "ready"]
    /\ calls' = [calls EXCEPT ![t] = {}]
    /\ KeepToken /\ UNCHANGED <<dead, url, sess, out, spent, bounds>>

\* Mutant: a token that was refused is kept and the page starts over.
BootAgain(t) ==
  \E n \in Token :
    /\ Booting(t, n) /\ n \in dead
    /\ page' = [page EXCEPT ![t] = "load"] /\ KeepToken
    /\ calls' = [calls EXCEPT ![t] = {}]
    /\ UNCHANGED <<dead, url, sess, out, me, spent, bounds>>

\* Refused or lost: the token stored by now is dropped, whichever it is.
BootFails(t) ==
  \E n \in Token :
    /\ Booting(t, n)
    /\ \/ n \in dead /\ UNCHANGED faults
       \/ n \notin dead /\ faults < MaxFaults /\ faults' = faults + 1
    /\ page' = [page EXCEPT ![t] = "ready"] /\ SetToken(t, None)
    /\ calls' = [calls EXCEPT ![t] = {}]
    /\ UNCHANGED <<dead, url, sess, out, me, spent, whims>>

-----------------------------------------------------------------------------
(* The sign-in page.                                                       *)

FormShown(t) == page[t] = "ready" /\ me[t] = None

\* A sign-in that the tabs of S have forgotten can be taken for a new one.
Fresh(n, S) == /\ n # stored
               /\ \A t \in S : /\ n \notin {sess[t], out[t], url[t]}
                               /\ \A c \in calls[t] : c.token # n

Renew(n) == dead' = dead \ {n} /\ spent' = spent \ {n}

\* beginHostedUiLogin: the verifier and the state are kept for the way back.
Remember(t, n) == sess' = [sess EXCEPT ![t] = n]

HostedUi(t) ==
  \E n \in Token :
    /\ FormShown(t) /\ Fresh(n, Tab \ {t}) /\ Renew(n)
    /\ Remember(t, n)
    /\ Leave(t, "away", None, n)
    /\ KeepToken /\ UNCHANGED bounds

\* loginWithOidc; no button is disabled while it runs.
Submit(t) ==
  \E n \in Token :
    /\ FormShown(t) /\ Fresh(n, Tab) /\ Renew(n)
    /\ calls' = [calls EXCEPT ![t] = @ \cup {[for |-> "form", token |-> n]}]
    /\ IF calls[t] = {} THEN UNCHANGED <<whims, alone>>
       ELSE /\ whims < MaxWhims /\ whims' = whims + 1
            /\ alone' = [alone EXCEPT ![t] = FALSE]
    /\ UNCHANGED <<stored, page, url, sess, out, me, faults>>

\* Mutant: the token is stored once the API has said who it is.
PickLater(t, c) == /\ calls' = [calls EXCEPT ![t] = (@ \ {c}) \cup
                        {[for |-> "login", token |-> IF stored = None THEN c.token ELSE stored]}]
                   /\ SetToken(t, c.token)

\* pick: the token is stored, then tried.
Pick(t, c) == /\ calls' = [calls EXCEPT ![t] = (@ \ {c}) \cup {[for |-> "login", token |-> c.token]}]
              /\ SetToken(t, c.token)

FormOk(t) ==
  /\ \E c \in calls[t] : c.for = "form" /\ Pick(t, c)
  /\ UNCHANGED <<dead, page, url, sess, out, me, spent, bounds>>

\* onAuthed
LoginOk(t) ==
  \E c \in calls[t] :
    /\ c.for = "login" /\ c.token \notin dead
    /\ me' = [me EXCEPT ![t] = owner[c.token]]
    /\ calls' = [calls EXCEPT ![t] = @ \ {c}]
    /\ KeepToken /\ UNCHANGED <<dead, page, url, sess, out, spent, bounds>>

\* The error is shown; a token that was stored stays.
LoginFails(t) ==
  \E c \in calls[t] :
    /\ \/ c.for = "login" /\ c.token \in dead /\ UNCHANGED faults
       \/ c.for \in {"form", "login"} /\ faults < MaxFaults /\ faults' = faults + 1
    /\ calls' = [calls EXCEPT ![t] = @ \ {c}]
    /\ KeepToken /\ UNCHANGED <<dead, page, url, sess, out, me, spent, whims>>

\* onLogout: to the provider's sign-out, or to the landing page.
Logout(t) ==
  /\ page[t] = "ready" /\ me[t] # None
  /\ whims < MaxWhims /\ whims' = whims + 1
  /\ SetToken(t, None)
  /\ Leave(t, "away", None, None)
  /\ UNCHANGED <<dead, sess, spent, faults>>

Expire == /\ faults < MaxFaults /\ faults' = faults + 1
          /\ stored # None /\ dead' = dead \cup {stored}
          /\ KeepToken /\ UNCHANGED <<browser, spent, whims>>

-----------------------------------------------------------------------------

Init == /\ stored = None /\ dead = {} /\ spent = {}
        /\ page = [t \in Tab |-> "away"]
        /\ url = [t \in Tab |-> None] /\ sess = [t \in Tab |-> None]
        /\ out = [t \in Tab |-> None] /\ me = [t \in Tab |-> None]
        /\ calls = [t \in Tab |-> {}]
        /\ alone = [t \in Tab |-> TRUE]
        /\ faults = 0 /\ whims = 0

\* What a page and those it calls do by themselves.
Run(t) == Consume(t) \/ Exchange(t) \/ ExchangeOk(t) \/ BootOk(t) \/ BootFails(t)
          \/ FormOk(t) \/ LoginOk(t) \/ LoginFails(t)

Next == \/ \E t \in Tab : \/ Load(t) \/ Return(t) \/ Again(t) \/ Run(t) \/ ExchangeFails(t)
                          \/ HostedUi(t) \/ Submit(t) \/ Logout(t)
        \/ Expire

\* Pages run and calls are answered.  A person finishes a sign-in now and then,
\* begins one where the page asks for it, and loads a page again that has settled.
Fairness == \A t \in Tab : /\ WF_vars(Run(t)) /\ SF_vars(Return(t)) /\ SF_vars(HostedUi(t))
                            /\ SF_vars(Settled(t) /\ Load(t))

Spec == Init /\ [][Next]_vars /\ Fairness
-----------------------------------------------------------------------------
(* Properties.                                                             *)

\* Every variable keeps its type; a page waits for no call before its script starts,
\* and then for one at a time until it is ready (the effect of App).
TypeOK == /\ stored \in Token \cup {None} /\ dead \subseteq Token /\ spent \subseteq Token
          /\ page \in [Tab -> {"away", "load", "boot", "ready"}]
          /\ url \in [Tab -> Token \cup {None, "error", "old"}]
          /\ sess \in [Tab -> Token \cup {None}] /\ out \in [Tab -> Token \cup {None}]
          /\ calls \in [Tab -> SUBSET Call] /\ me \in [Tab -> Account \cup {None}]
          /\ alone \in [Tab -> BOOLEAN]
          /\ \A t \in Tab : /\ page[t] \in {"away", "load"} => calls[t] = {}
                            /\ page[t] = "boot" => \E c \in Call : calls[t] = {c}
          /\ faults \in 0..MaxFaults /\ whims \in 0..MaxWhims

\* The code of a sign-in is sent to the provider at most once, however a page that
\* is exchanging it is reloaded, brought back or fails: the state is removed first
\* (consumeAuthCode in oidc.ts).
CodeOnce == [][\A n \in spent : ~\E t \in Tab :
                  LET c == [for |-> "exchange", token |-> n] IN c \in calls'[t] \ calls[t]]_vars

\* A page that has settled shows the account of the stored token, and no other,
\* unless another tab changed the token since or a click was made in haste: the
\* token that was tried is the one that stays (the effect of App, and pick).
ShownIsStored ==
  \A t \in Tab : alone[t] /\ page[t] = "ready" /\ calls[t] = {} /\ me[t] # None
                  => stored # None /\ me[t] = owner[stored]

\* A page never stays blank: whatever happens to the callback and the calls of its
\* start, it gets ready or is left (the finally of the effect of App).
BootSettles == \A t \in Tab : page[t] \in {"load", "boot"} ~> page[t] \in {"ready", "away"}

\* The tabs come to agree: once faults and whims end, the browser stays signed in
\* and every page that is ready shows the account of the stored token, although a
\* start that fails drops the token another tab has just stored.
AccountsAgree ==
  <>[](stored # None /\ \A t \in Tab : page[t] = "ready" => me[t] = owner[stored])
=============================================================================
