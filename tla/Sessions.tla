------------------------------- MODULE Sessions -------------------------------
(***************************************************************************)
(* Signing in, staying in, and being put out: internal/auth over the       *)
(* tables users and refresh_tokens.                                        *)
(*                                                                         *)
(* A session is a pass (the signed access token, checked without the       *)
(* database until it expires) and a single-use refresh token (a row).      *)
(* Handlers run concurrently and each of their SQL statements is a         *)
(* transaction of its own, so a handler is a sequence of steps:            *)
(*   login            read the account; store the new session              *)
(*   refresh          consume the token; read the account; store           *)
(*   change-password  read the account; set the hash; revoke the rest      *)
(*   logout           revoke                                               *)
(* and is cut short when its client leaves or its process dies.  An        *)
(* operator deactivates accounts directly in the database: no handler      *)
(* writes users.is_active.                                                 *)
(*                                                                         *)
(* Time is kept as what is left: a Tick shortens every lifetime by one.    *)
(***************************************************************************)
EXTENDS Naturals

CONSTANTS Users,
          TokenIds,     \* bounds the sessions ever issued
          NoToken,
          Requests,     \* bounds the requests in flight
          AccessTTL,    \* lifetime of a pass, in ticks
          RefreshTTL,   \* lifetime of a refresh token
          MaxChanges    \* bounds the password changes per account

ASSUME SessionAssumption ==
    /\ AccessTTL \in Nat \ {0}
    /\ RefreshTTL \in Nat \ {0}
    /\ MaxChanges \in Nat

VARIABLES active,    \* users.is_active
          era,       \* users.password_hash, as the number of changes to it
          tokens,    \* the table refresh_tokens, by id
          passes,    \* the access tokens in clients' hands, unexpired
          request,   \* where each request in flight stands
          settled,   \* history: the era in which sessions were last revoked
          since      \* history: ticks since deactivation, up to AccessTTL

vars == <<active, era, tokens, passes, request, settled, since>>

Eras == 0..MaxChanges

\* from is the token a session was renewed from, NoToken after a sign-in; era
\* is the password of the sign-in it descends from.  overtaken says that the
\* account's sessions were once revoked while a request that stored this one,
\* or one it descends from, was on its way.
TokenRows == [user: Users, era: Eras, from: TokenIds \cup {NoToken},
              left: 0..RefreshTTL, revoked: BOOLEAN, overtaken: BOOLEAN]

ASSUME NoTokenAssumption == NoToken \notin TokenRows \cup TokenIds

\* late says that the account was deactivated while the request that issued
\* the pass, having found it active, was on its way.
Passes == [user: Users, left: 1..AccessTTL, late: BOOLEAN]

Idle == [op |-> "idle"]

SessionRequests == [op: {"consumed", "verified"}, user: Users, era: Eras,
                    from: TokenIds \cup {NoToken},
                    overtaken: BOOLEAN, late: BOOLEAN]

ChangeRequests == [op: {"changing", "changed"}, user: Users]

-----------------------------------------------------------------------------

Stored == {t \in TokenIds : tokens[t] # NoToken}

\* The WHERE clause of ConsumeRefreshToken.
Live(t) == t \in Stored /\ ~tokens[t].revoked /\ tokens[t].left > 0

\* RequireAuth: the pass alone is looked at.
SignedIn(u) == \E p \in passes : p.user = u

Move(q, new) == request' = [request EXCEPT ![q] = new]

\* Mutant of Revoked: sessions opened since the last tick are missed.
RevokedButLatest(u) == [t \in TokenIds |->
                           IF /\ t \in Stored /\ tokens[t].user = u
                              /\ tokens[t].left < RefreshTTL
                           THEN [tokens[t] EXCEPT !.revoked = TRUE]
                           ELSE tokens[t]]

\* RevokeAllRefreshTokens, as one UPDATE.
Revoked(u) == [t \in TokenIds |->
                  IF t \in Stored /\ tokens[t].user = u
                  THEN [tokens[t] EXCEPT !.revoked = TRUE]
                  ELSE tokens[t]]

IsIssuing(q) == request[q].op \in {"consumed", "verified"}

\* The requests in flight, with those about to issue a session to u marked.
Overtaken(u) == [q \in Requests |->
                    IF IsIssuing(q) /\ request[q].user = u
                    THEN [request[q] EXCEPT !.overtaken = TRUE]
                    ELSE request[q]]

-----------------------------------------------------------------------------

Init ==
    /\ active = [u \in Users |-> TRUE]
    /\ era = [u \in Users |-> 0]
    /\ tokens = [t \in TokenIds |-> NoToken]
    /\ passes = {}
    /\ request = [q \in Requests |-> Idle]
    /\ settled = [u \in Users |-> 0]
    /\ since = [u \in Users |-> 0]

\* login, up to StoreRefreshToken, with the account's present password.  A
\* wrong password or an inactive account is refused and changes nothing.
Login(q, u) ==
    /\ request[q] = Idle
    /\ active[u]
    /\ Move(q, [op |-> "verified", user |-> u, era |-> era[u],
                from |-> NoToken, overtaken |-> FALSE, late |-> FALSE])
    /\ UNCHANGED <<active, era, tokens, passes, settled, since>>

\* Mutant of Consume: the token is looked up, and not revoked.
ConsumeByReading(q, t) ==
    /\ request[q] = Idle
    /\ Live(t)
    /\ Move(q, [op |-> "consumed", user |-> tokens[t].user,
                era |-> tokens[t].era, from |-> t,
                overtaken |-> tokens[t].overtaken, late |-> FALSE])
    /\ UNCHANGED <<active, era, tokens, passes, settled, since>>

\* refresh: ConsumeRefreshToken, one UPDATE ... RETURNING: of several requests
\* that present a token, the row lock lets one find it unrevoked.
Consume(q, t) ==
    /\ request[q] = Idle
    /\ Live(t)
    /\ tokens' = [tokens EXCEPT ![t].revoked = TRUE]
    /\ Move(q, [op |-> "consumed", user |-> tokens[t].user,
                era |-> tokens[t].era, from |-> t,
                overtaken |-> tokens[t].overtaken, late |-> FALSE])
    /\ UNCHANGED <<active, era, passes, settled, since>>

\* Mutant of ReadUser: is_active is not looked at.
ReadUserUnchecked(q) ==
    /\ request[q].op = "consumed"
    /\ Move(q, [request[q] EXCEPT !.op = "verified"])
    /\ UNCHANGED <<active, era, tokens, passes, settled, since>>

\* refresh: UserByID.  A deactivated account is refused; its token is spent.
ReadUser(q) ==
    /\ request[q].op = "consumed"
    /\ Move(q, IF active[request[q].user]
               THEN [request[q] EXCEPT !.op = "verified"]
               ELSE Idle)
    /\ UNCHANGED <<active, era, tokens, passes, settled, since>>

\* issueSession: the row and the answer.  (That an answer may be lost on its
\* way takes nothing from what is said of the sessions that exist.)
StoreSession(q, t) ==
    /\ request[q].op = "verified"
    /\ t \in TokenIds \ Stored
    /\ tokens' = [tokens EXCEPT ![t] =
          [user |-> request[q].user, era |-> request[q].era,
           from |-> request[q].from, left |-> RefreshTTL, revoked |-> FALSE,
           overtaken |-> request[q].overtaken]]
    /\ passes' = passes \cup {[user |-> request[q].user, left |-> AccessTTL,
                               late |-> request[q].late]}
    /\ Move(q, Idle)
    /\ UNCHANGED <<active, era, settled, since>>

\* logout: the pass is verified and the one statement follows.
Logout(u) ==
    /\ SignedIn(u)
    /\ tokens' = Revoked(u)
    /\ request' = Overtaken(u)
    /\ settled' = [settled EXCEPT ![u] = era[u]]
    /\ UNCHANGED <<active, era, passes, since>>

\* changePassword, up to SetPassword: the present password has been verified.
ChangeStart(q, u) ==
    /\ request[q] = Idle
    /\ SignedIn(u)
    /\ Move(q, [op |-> "changing", user |-> u])
    /\ UNCHANGED <<active, era, tokens, passes, settled, since>>

\* SetPassword does not look at the hash it replaces.
SetPassword(q) ==
    /\ request[q].op = "changing"
    /\ era[request[q].user] < MaxChanges
    /\ era' = [era EXCEPT ![request[q].user] = @ + 1]
    /\ Move(q, [op |-> "changed", user |-> request[q].user])
    /\ UNCHANGED <<active, tokens, passes, settled, since>>

\* "Changing a password ends every other session."
RevokeOthers(q) ==
    /\ request[q].op = "changed"
    /\ tokens' = Revoked(request[q].user)
    /\ request' = [Overtaken(request[q].user) EXCEPT ![q] = Idle]
    /\ settled' = [settled EXCEPT ![request[q].user] = era[request[q].user]]
    /\ UNCHANGED <<active, era, passes, since>>

\* A request ends where it stands.
Abort(q) ==
    /\ request[q] # Idle
    /\ Move(q, Idle)
    /\ UNCHANGED <<active, era, tokens, passes, settled, since>>

Deactivate(u) ==
    /\ active[u]
    /\ active' = [active EXCEPT ![u] = FALSE]
    /\ request' = [q \in Requests |->
                      IF request[q].op = "verified" /\ request[q].user = u
                      THEN [request[q] EXCEPT !.late = TRUE]
                      ELSE request[q]]
    /\ UNCHANGED <<era, tokens, passes, settled, since>>

Tick ==
    /\ tokens' = [t \in TokenIds |->
                     IF t \in Stored /\ tokens[t].left > 0
                     THEN [tokens[t] EXCEPT !.left = @ - 1]
                     ELSE tokens[t]]
    /\ passes' = {[p EXCEPT !.left = @ - 1] : p \in {r \in passes : r.left > 1}}
    /\ since' = [u \in Users |-> IF ~active[u] /\ since[u] < AccessTTL
                                 THEN since[u] + 1 ELSE since[u]]
    /\ UNCHANGED <<active, era, request, settled>>

\* What a handler does next once it has begun, or its end.
Proceed(q) ==
    \/ ReadUser(q)
    \/ \E t \in TokenIds : StoreSession(q, t)
    \/ SetPassword(q)
    \/ RevokeOthers(q)
    \/ Abort(q)

Next ==
    \/ \E q \in Requests :
          \/ \E u \in Users : Login(q, u) \/ ChangeStart(q, u)
          \/ \E t \in TokenIds : Consume(q, t)
          \/ Proceed(q)
    \/ \E u \in Users : Logout(u) \/ Deactivate(u)
    \/ Tick

Spec == Init /\ [][Next]_vars

\* A handler, once begun, ends; time passes.
Fairness == WF_vars(Tick) /\ \A q \in Requests : WF_vars(Proceed(q))

-----------------------------------------------------------------------------
(* Properties *)

\* Every variable stays in its type.
TypeOK ==
    /\ active \in [Users -> BOOLEAN]
    /\ era \in [Users -> Eras]
    /\ tokens \in [TokenIds -> TokenRows \cup {NoToken}]
    /\ passes \subseteq Passes
    /\ request \in [Requests -> {Idle} \cup SessionRequests \cup ChangeRequests]
    /\ settled \in [Users -> Eras]
    /\ since \in [Users -> 0..AccessTTL]

\* "Single-use": a refresh token that bought a session is never good again, and
\* however many requests present it, and wherever they are cut short, it buys
\* at most one.
RefreshSingleUse ==
    /\ \A t \in Stored : tokens[t].from # NoToken => ~Live(tokens[t].from)
    /\ \A t1, t2 \in Stored :
          tokens[t1].from = tokens[t2].from /\ tokens[t1].from # NoToken
          => t1 = t2

\* "Changing a password ends every other session": once the sessions of an
\* account have been revoked under a password, none that was opened under an
\* earlier one is left.
PasswordChangeEndsSessions ==
    \A t \in Stored : Live(t) => tokens[t].era >= settled[tokens[t].user]

\* What holds of it: a session opened under an earlier password survives the
\* revocation only if a request that stored it, or stored one it was renewed
\* from, was then on its way.
OnlyStragglersSurvive ==
    \A t \in Stored :
        Live(t) => \/ tokens[t].era >= settled[tokens[t].user]
                   \/ tokens[t].overtaken

\* Deactivation bites within the lifetime of a pass: of a deactivated account
\* no pass is good for longer than one that was issued as it was deactivated,
\* unless its request had already found the account active.
DeactivationBites ==
    \A p \in passes :
        ~active[p.user] => p.late \/ p.left + since[p.user] <= AccessTTL

\* A deactivated account is eventually, and then for ever, without a pass:
\* its refresh tokens, live as they may be, buy it none.
DeactivatedIsOut ==
    \A u \in Users : ~active[u] ~> [](~SignedIn(u))
=============================================================================
