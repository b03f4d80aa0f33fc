---------------------------- MODULE BrowserSession ----------------------------
(***************************************************************************)
(* Staying signed in, seen from the browser: web/src/lib/api.ts and        *)
(* auth.tsx, over the server of module Sessions.                           *)
(*                                                                         *)
(* The tabs of a browser share one refresh token, in localStorage; each    *)
(* keeps an access token and the user it shows in memory.  A call that is  *)
(* answered 401 waits for a refresh, which the calls of a tab share, and   *)
(* is then sent once more.  Every await is a point where other tabs, other *)
(* calls, the user and the network get their turn.                         *)
(*                                                                         *)
(* Of the server's work on a refresh two steps are left, for a revocation  *)
(* can come in between: the token is consumed, the new one is stored.  A   *)
(* request whose client has gone has been served by then, or never is.     *)
(* Tokens also end without this browser: they run out, and are revoked by a*)
(* sign-out or a change of password in another one.                        *)
(***************************************************************************)
EXTENDS Naturals, FiniteSets

CONSTANTS Tabs,       \* of one browser: they share its localStorage
          Widgets,    \* the parts of a page that make calls of their own
          Accounts,
          NoAccount,
          TokenIds,   \* bounds the refresh tokens somebody holds at a time
          NoToken,
          Lossy       \* whether calls and answers can fail or get lost

ASSUME BrowserAssumption ==
    /\ "main" \notin Widgets
    /\ NoAccount \notin Accounts
    /\ NoToken \notin TokenIds
    /\ Lossy \in BOOLEAN

VARIABLES tokens,   \* the account a refresh token is good for, if any
          storage,  \* localStorage['ps.refresh']
          access,   \* per tab: whose access token it has
          valid,    \* per tab: that access token has not run out
          shown,    \* per tab: the user it shows as signed in
          refresh,  \* per tab: the refresh under way
          calls,    \* per tab: its calls of request(), by who makes them
          blame,    \* history: what has befallen the session since sign-in
          out       \* history: how it was last signed out of, "no" since a sign-in

vars == <<tokens, storage, access, valid, shown, refresh, calls, blame, out>>

(***************************************************************************)
(* "main" makes the calls of AuthProvider: boot (waiting for the refresh   *)
(* of a page load), me, login and logout.                                  *)
(***************************************************************************)
Slots == {"main"} \cup Widgets

Idle == [kind |-> "none"]

\* good: it carries an access token that has not run out.  again: request()'s
\* parameter retry.  new: the refresh token in the answer of a login.
Calls == [kind    : {"get", "boot", "me", "login", "logout"},
          stage   : {"sent", "ok", "unauthorized", "failed", "waiting"},
          account : Accounts \cup {NoAccount},
          good    : BOOLEAN,
          again   : BOOLEAN,
          new     : TokenIds \cup {NoToken}]

Quiet == [stage |-> "none", token |-> NoToken, account |-> NoAccount,
          new |-> NoToken]

Refreshes == [stage   : {"none", "sent", "consumed", "issued", "refused"},
              token   : TokenIds \cup {NoToken},
              account : Accounts \cup {NoAccount},
              new     : TokenIds \cup {NoToken}]

Live(t) == t # NoToken /\ tokens[t] # NoAccount

Busy(tab) == refresh[tab].stage # "none"

\* A token nobody holds any more, whatever the server thinks of it, may stand
\* for the next one that is issued.
Fresh(t) ==
    /\ t # storage
    /\ \A tab \in Tabs :
          /\ t # refresh[tab].token /\ t # refresh[tab].new
          /\ \A s \in Slots : calls[tab][s] # Idle => t # calls[tab][s].new

\* A call as tab sends it now.
Call(tab, kind, again) ==
    [kind |-> kind, stage |-> "sent", account |-> access[tab],
     good |-> valid[tab], again |-> again, new |-> NoToken]

Awaits(tab, s, stage) == calls[tab][s] # Idle /\ calls[tab][s].stage = stage

SetCall(tab, s, call) == calls' = [calls EXCEPT ![tab][s] = call]

\* setSession(access, refresh).
SetSession(tab, account, token) ==
    /\ storage' = token
    /\ access' = [access EXCEPT ![tab] = account]
    /\ valid' = [valid EXCEPT ![tab] = account # NoAccount]

KeepSession == UNCHANGED <<storage, access, valid>>

Befall(what) == blame' = blame \cup what

\* The server has acted on the refresh of tab, which has not heard of it yet.
Unheard(tab) == refresh[tab].stage \in {"consumed", "issued"}

-----------------------------------------------------------------------------

Init ==
    /\ tokens = [t \in TokenIds |-> NoAccount]
    /\ storage = NoToken
    /\ access = [tab \in Tabs |-> NoAccount]
    /\ valid = [tab \in Tabs |-> FALSE]
    /\ shown = [tab \in Tabs |-> NoAccount]
    /\ refresh = [tab \in Tabs |-> Quiet]
    /\ calls = [tab \in Tabs |-> [s \in Slots |-> Idle]]
    /\ blame = {"left"}
    /\ out = "no"

(***************************************************************************)
(* The refresh                                                             *)
(***************************************************************************)

Presented == [Quiet EXCEPT !.stage = "sent", !.token = storage]

\* The stored token is in other hands: another tab is refreshing with it.
Raced(tab) == \E o \in Tabs \ {tab} : Busy(o) /\ refresh[o].token = storage

\* refreshSession: one refresh per tab, whoever asks.
Join(tab) ==
    IF Busy(tab)
    THEN UNCHANGED <<refresh, blame>>
    ELSE /\ refresh' = [refresh EXCEPT ![tab] = Presented]
         /\ Befall(IF Raced(tab) THEN {"raced"} ELSE {})

\* The server's half: consume the token if it is neither revoked nor run out, ...
ServeRefresh(tab) ==
    LET r == refresh[tab]
    IN  /\ r.stage = "sent"
        /\ IF Live(r.token)
           THEN /\ tokens' = [tokens EXCEPT ![r.token] = NoAccount]
                /\ refresh' = [refresh EXCEPT ![tab].stage = "consumed",
                                   ![tab].account = tokens[r.token]]
           ELSE /\ refresh' = [refresh EXCEPT ![tab].stage = "refused"]
                /\ UNCHANGED tokens
        /\ KeepSession
        /\ UNCHANGED <<shown, calls, blame, out>>

\* ... and store.
IssueRefresh(tab) ==
    /\ refresh[tab].stage = "consumed"
    /\ \E t \in TokenIds :
          /\ Fresh(t)
          /\ tokens' = [tokens EXCEPT ![t] = refresh[tab].account]
          /\ refresh' = [refresh EXCEPT ![tab].stage = "issued",
                                        ![tab].new = t]
    /\ KeepSession
    /\ UNCHANGED <<shown, calls, blame, out>>

\* Any other failure of the server (a 5xx, a 429) is answered as a refusal is.
FailRefresh(tab) ==
    /\ Lossy
    /\ refresh[tab].stage \in {"sent", "consumed"}
    /\ refresh' = [refresh EXCEPT ![tab].stage = "refused"]
    /\ Befall({"lost"})
    /\ KeepSession
    /\ UNCHANGED <<tokens, shown, calls, out>>

Waiting(tab) == {s \in Slots : Awaits(tab, s, "waiting")}

\* Mutant of Resent: a call that was sent again can be sent yet again.
ResentForever(tab, account, s) ==
    [calls[tab][s] EXCEPT
        !.kind  = IF @ = "boot" THEN "me" ELSE @,
        !.stage = "sent",
        !.account = IF calls[tab][s].kind = "login" THEN @ ELSE account,
        !.good  = TRUE]

\* A call that waited, sent again with the new access token, for the last
\* time; after the refresh of a page load the user is asked for.
Resent(tab, account, s) ==
    [calls[tab][s] EXCEPT
        !.kind  = IF @ = "boot" THEN "me" ELSE @,
        !.stage = "sent",
        !.account = IF calls[tab][s].kind = "login" THEN @ ELSE account,
        !.good  = TRUE,
        !.again = calls[tab][s].kind = "boot"]

\* Mutant of RefreshAnswered: the new refresh token is not stored.
AnsweredKeepingOld(tab) ==
    LET r == refresh[tab]
    IN  /\ r.stage = "issued"
        /\ SetSession(tab, r.account, storage)
        /\ refresh' = [refresh EXCEPT ![tab] = Quiet]
        /\ calls' = [calls EXCEPT ![tab] = [s \in Slots |->
                        IF s \in Waiting(tab) THEN Resent(tab, r.account, s)
                                              ELSE calls[tab][s]]]
        /\ UNCHANGED <<tokens, shown, blame, out>>

\* The new pair arrives.
RefreshAnswered(tab) ==
    LET r == refresh[tab]
    IN  /\ r.stage = "issued"
        /\ SetSession(tab, r.account, r.new)
        /\ refresh' = [refresh EXCEPT ![tab] = Quiet]
        /\ calls' = [calls EXCEPT ![tab] = [s \in Slots |->
                        IF s \in Waiting(tab) THEN Resent(tab, r.account, s)
                                              ELSE calls[tab][s]]]
        /\ UNCHANGED <<tokens, shown, blame, out>>

\* if (!res.ok): the session is given up, whoever's token is stored by now.
RefreshRefused(tab) ==
    /\ refresh[tab].stage = "refused"
    /\ SetSession(tab, NoAccount, NoToken)
    /\ refresh' = [refresh EXCEPT ![tab] = Quiet]
    /\ calls' = [calls EXCEPT ![tab] = [s \in Slots |->
                    IF s \in Waiting(tab)
                    THEN [calls[tab][s] EXCEPT !.stage = "failed"]
                    ELSE calls[tab][s]]]
    /\ UNCHANGED <<tokens, shown, blame, out>>

\* fetch throws, before the server has acted or after: nothing is stored and
\* nothing is given up.
RefreshLost(tab) ==
    /\ Lossy
    /\ Busy(tab)
    /\ refresh' = [refresh EXCEPT ![tab] = Quiet]
    /\ calls' = [calls EXCEPT ![tab] = [s \in Slots |->
                    IF s \in Waiting(tab)
                    THEN [calls[tab][s] EXCEPT !.stage = "failed"]
                    ELSE calls[tab][s]]]
    /\ Befall(IF Unheard(tab) THEN {"lost"} ELSE {})
    /\ KeepSession
    /\ UNCHANGED <<tokens, shown, out>>

(***************************************************************************)
(* The calls                                                               *)
(***************************************************************************)

\* A page is loaded anew: what the tab had in memory is gone, and answers on
\* their way to it with it.  A stored token is traded for a session.
Load(tab) ==
    LET token == storage # NoToken
    IN  /\ access' = [access EXCEPT ![tab] = NoAccount]
        /\ valid' = [valid EXCEPT ![tab] = FALSE]
        /\ shown' = [shown EXCEPT ![tab] = NoAccount]
        /\ refresh' = [refresh EXCEPT ![tab] = IF token THEN Presented ELSE Quiet]
        /\ calls' = [calls EXCEPT ![tab] = [s \in Slots |->
              IF s = "main" /\ token
              THEN [kind |-> "boot", stage |-> "waiting", account |-> NoAccount,
                    good |-> FALSE, again |-> FALSE, new |-> NoToken]
              ELSE Idle]]
        /\ Befall((IF Unheard(tab) THEN {"lost"} ELSE {})
                  \cup (IF token /\ Raced(tab) THEN {"raced"} ELSE {}))
        /\ UNCHANGED <<tokens, storage, out>>

Get(tab, w) ==
    /\ shown[tab] # NoAccount
    /\ calls[tab][w] = Idle
    /\ SetCall(tab, w, Call(tab, "get", TRUE))
    /\ KeepSession
    /\ UNCHANGED <<tokens, shown, refresh, blame, out>>

\* The sign-in page is there for a tab that shows nobody and is not loading.
SignIn(tab, a) ==
    /\ shown[tab] = NoAccount
    /\ calls[tab]["main"] = Idle
    /\ SetCall(tab, "main", [Call(tab, "login", TRUE) EXCEPT !.account = a])
    /\ out' = "no"
    /\ KeepSession
    /\ UNCHANGED <<tokens, shown, refresh, blame>>

SignOut(tab) ==
    /\ shown[tab] # NoAccount
    /\ calls[tab]["main"] = Idle
    /\ SetCall(tab, "main", Call(tab, "logout", TRUE))
    /\ Befall({"left"})
    /\ KeepSession
    /\ UNCHANGED <<tokens, shown, refresh, out>>

\* The server refuses a wrong password, and everything else without an access
\* token or with one that has run out.
Serve(tab, s) ==
    LET c == calls[tab][s]
    IN  /\ Awaits(tab, s, "sent")
        /\ \/ /\ c.kind = "login"
              /\ \E t \in TokenIds :
                    /\ Fresh(t)
                    /\ tokens' = [tokens EXCEPT ![t] = c.account]
                    /\ SetCall(tab, s, [c EXCEPT !.stage = "ok", !.new = t])
           \/ /\ c.kind = "login" \/ ~c.good
              /\ SetCall(tab, s, [c EXCEPT !.stage = "unauthorized"])
              /\ UNCHANGED tokens
           \/ /\ c.kind # "login" /\ c.good
              /\ tokens' = IF c.kind = "logout"
                           THEN [t \in TokenIds |-> IF tokens[t] = c.account
                                                    THEN NoAccount ELSE tokens[t]]
                           ELSE tokens
              /\ SetCall(tab, s, [c EXCEPT !.stage = "ok"])
        /\ KeepSession
        /\ UNCHANGED <<shown, refresh, blame, out>>

\* fetch throws, before or after the server has done its work, or the server
\* answers with an error other than 401.
CallLost(tab, s) ==
    /\ Lossy
    /\ \E stage \in {"sent", "ok", "unauthorized"} : Awaits(tab, s, stage)
    /\ SetCall(tab, s, [calls[tab][s] EXCEPT !.stage = "failed"])
    /\ KeepSession
    /\ UNCHANGED <<tokens, shown, refresh, blame, out>>


\* 401: wait for a refresh, if this may still be sent again and a token is
\* stored.
Unauthorized(tab, s) ==
    /\ Awaits(tab, s, "unauthorized")
    /\ IF calls[tab][s].again /\ storage # NoToken
       THEN /\ Join(tab)
            /\ SetCall(tab, s, [calls[tab][s] EXCEPT !.stage = "waiting"])
       ELSE /\ SetCall(tab, s, [calls[tab][s] EXCEPT !.stage = "failed"])
            /\ UNCHANGED <<refresh, blame>>
    /\ KeepSession
    /\ UNCHANGED <<tokens, shown, out>>

Ended(tab, s, stage) ==
    /\ Awaits(tab, s, stage)
    /\ SetCall(tab, s, Idle)
    /\ UNCHANGED <<tokens, refresh>>

\* No refresh and no other sign-in or sign-out is on its way.
Undisturbed(tab) ==
    /\ \A o \in Tabs : ~Busy(o)
    /\ \A o \in Tabs \ {tab} : calls[o]["main"] = Idle

\* signIn: the pair is stored and the user shown.
SignedIn(tab) ==
    /\ calls[tab]["main"] # Idle /\ calls[tab]["main"].kind = "login"
    /\ Ended(tab, "main", "ok")
    /\ SetSession(tab, calls[tab]["main"].account, calls[tab]["main"].new)
    /\ shown' = [shown EXCEPT ![tab] = calls[tab]["main"].account]
    /\ blame' = IF Undisturbed(tab) /\ Live(calls[tab]["main"].new)
                THEN {} ELSE {"raced"}
    /\ out' = "no"

\* AuthProvider's effect: the user of the session is shown.
Recognised(tab) ==
    /\ calls[tab]["main"] # Idle /\ calls[tab]["main"].kind = "me"
    /\ Ended(tab, "main", "ok")
    /\ shown' = [shown EXCEPT ![tab] = calls[tab]["main"].account]
    /\ KeepSession
    /\ UNCHANGED <<blame, out>>

\* The user could not be read: the session is given up.
Unrecognised(tab) ==
    /\ calls[tab]["main"] # Idle /\ calls[tab]["main"].kind = "me"
    /\ Ended(tab, "main", "failed")
    /\ SetSession(tab, NoAccount, NoToken)
    /\ Befall({"lost"})
    /\ UNCHANGED <<shown, out>>

\* Mutant of SignedOut: the browser is cleared if the server agreed.
SignedOutIfOk(tab) ==
    /\ calls[tab]["main"] # Idle /\ calls[tab]["main"].kind = "logout"
    /\ \/ /\ Ended(tab, "main", "ok")
          /\ SetSession(tab, NoAccount, NoToken)
       \/ /\ Ended(tab, "main", "failed")
          /\ KeepSession
    /\ shown' = [shown EXCEPT ![tab] = NoAccount]
    /\ out' = IF Undisturbed(tab) THEN "calm" ELSE "hasty"
    /\ UNCHANGED blame

\* signOut, whatever became of the call.
SignedOut(tab) ==
    /\ calls[tab]["main"] # Idle /\ calls[tab]["main"].kind = "logout"
    /\ Ended(tab, "main", "ok") \/ Ended(tab, "main", "failed")
    /\ SetSession(tab, NoAccount, NoToken)
    /\ shown' = [shown EXCEPT ![tab] = NoAccount]
    /\ out' = IF Undisturbed(tab) THEN "calm" ELSE "hasty"
    /\ UNCHANGED blame

\* Everything else just ends: a page's call, a sign-in that failed, a load
\* that found no session.
Over(tab, s) ==
    /\ calls[tab][s] # Idle
    /\ \/ calls[tab][s].kind = "get" /\ (Ended(tab, s, "ok") \/ Ended(tab, s, "failed"))
       \/ calls[tab][s].kind \in {"login", "boot"} /\ Ended(tab, s, "failed")
    /\ KeepSession
    /\ UNCHANGED <<shown, blame, out>>

\* The access token of a tab runs out, also for its calls on their way.
Expire(tab) ==
    /\ valid[tab]
    /\ valid' = [valid EXCEPT ![tab] = FALSE]
    /\ calls' = [calls EXCEPT ![tab] = [s \in Slots |->
                    IF Awaits(tab, s, "sent")
                    THEN [calls[tab][s] EXCEPT !.good = FALSE]
                    ELSE calls[tab][s]]]
    /\ UNCHANGED <<tokens, storage, access, shown, refresh, blame, out>>

\* Tokens end on the server; the session is concerned if its own is one of them.
Withdraw(ended) ==
    /\ tokens' = [t \in TokenIds |-> IF t \in ended THEN NoAccount ELSE tokens[t]]
    /\ Befall(IF storage \in ended \/ \E tab \in Tabs : refresh[tab].new \in ended
              THEN {"withdrawn"} ELSE {})
    /\ KeepSession
    /\ UNCHANGED <<shown, refresh, calls, out>>

\* A refresh token runs out.
Lapse(t) == Live(t) /\ Withdraw({t})

\* The account signs out, or changes its password, in another browser.
RevokeElsewhere(a) ==
    LET live == {t \in TokenIds : tokens[t] = a}
    IN  live # {} /\ Withdraw(live)

-----------------------------------------------------------------------------

RefreshStep(tab) ==
    \/ ServeRefresh(tab) \/ IssueRefresh(tab) \/ FailRefresh(tab)
    \/ RefreshAnswered(tab) \/ RefreshRefused(tab) \/ RefreshLost(tab)

CallStep(tab, s) ==
    \/ Serve(tab, s) \/ CallLost(tab, s) \/ Unauthorized(tab, s) \/ Over(tab, s)

MainStep(tab) ==
    \/ CallStep(tab, "main")
    \/ SignedIn(tab) \/ Recognised(tab) \/ Unrecognised(tab) \/ SignedOut(tab)

TabStep(tab) ==
    \/ Load(tab)
    \/ \E w \in Widgets : Get(tab, w)
    \/ \E a \in Accounts : SignIn(tab, a)
    \/ SignOut(tab)
    \/ RefreshStep(tab)
    \/ MainStep(tab)
    \/ \E w \in Widgets : CallStep(tab, w)
    \/ Expire(tab)

Next ==
    \/ \E tab \in Tabs : TabStep(tab)
    \/ \E t \in TokenIds : Lapse(t)
    \/ \E a \in Accounts : RevokeElsewhere(a)

Spec == Init /\ [][Next]_vars

\* Requests are answered, or fail, and what waits for them goes on.
Fairness ==
    \A tab \in Tabs :
        /\ WF_vars(RefreshStep(tab))
        /\ WF_vars(MainStep(tab))
        /\ \A w \in Widgets : WF_vars(CallStep(tab, w))

FairSpec == Spec /\ Fairness

-----------------------------------------------------------------------------
(* Properties *)

\* Every variable stays in its type; a tab with a waiting call has a refresh
\* under way, so that none waits for nothing.
TypeOK ==
    /\ tokens \in [TokenIds -> Accounts \cup {NoAccount}]
    /\ storage \in TokenIds \cup {NoToken}
    /\ access \in [Tabs -> Accounts \cup {NoAccount}]
    /\ valid \in [Tabs -> BOOLEAN]
    /\ shown \in [Tabs -> Accounts \cup {NoAccount}]
    /\ refresh \in [Tabs -> Refreshes]
    /\ calls \in [Tabs -> [Slots -> Calls \cup {Idle}]]
    /\ blame \subseteq {"left", "lost", "raced", "withdrawn"}
    /\ out \in {"no", "calm", "hasty"}
    /\ \A tab \in Tabs : Waiting(tab) # {} => Busy(tab)

\* The browser has a session: its stored token is good, or is being traded for
\* one that is.
HasSession ==
    \/ Live(storage)
    \/ \E tab \in Tabs :
          /\ refresh[tab].token = storage
          /\ \/ refresh[tab].stage = "consumed"
             \/ refresh[tab].stage = "issued" /\ Live(refresh[tab].new)

\* "transparently": since it was opened, a session is lost by signing out; by
\* an answer of the server that failed, or was lost after it had acted; by two
\* tabs presenting one token; or because its token ran out or was revoked.  It
\* is not lost by the calls of a tab, however many are refused, wait and share
\* a refresh, nor by a refresh given up before it reached the server.
SessionSurvives == blame = {} => HasSession

\* "so a reload does not dump the owner back on the login screen": until
\* somebody signs out or its token ends, the browser has a session.
ReloadKeepsSession == blame \cap {"left", "withdrawn"} = {} => HasSession

\* "the local clear below is what matters": once signed out, the browser has
\* no session until somebody signs in.
SignOutIsFinal == out # "no" => ~Live(storage)

\* What holds of it: it is final unless a refresh, or another sign-in, was on
\* its way when the browser was cleared, whatever the server made of the call
\* and whatever other calls are still to be answered.
CalmSignOutIsFinal == out = "calm" => ~Live(storage)

\* Every call ends: no chain of refusals, refreshes and expiries keeps it going,
\* nor does one call keep another waiting for ever.
CallsEnd ==
    \A tab \in Tabs : \A s \in Slots :
        []<>(calls[tab][s] = Idle) \/ []<><<Load(tab)>>_vars
=============================================================================
