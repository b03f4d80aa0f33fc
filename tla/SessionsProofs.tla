----------------------------- MODULE SessionsProofs -----------------------------
(***************************************************************************)
(* Proofs about the sessions of internal/auth, for any number of accounts, *)
(* sessions and requests.  The argument is one inductive invariant,        *)
(* SessionInv: what the stored sessions promise depends on what the        *)
(* requests in flight know, and the other way round.                       *)
(*                                                                         *)
(* The second half is about the limiter that stands in front of sign-in    *)
(* and refresh, for any budgets, windows, MaxKeys and numbers of clients   *)
(* and addresses; its invariant is LimitsInv.                              *)
(***************************************************************************)
EXTENDS Sessions, Throttle, FiniteSetTheorems, TLAPS

(***************************************************************************)
(* A request that holds a consumed token is the only one that does, and no *)
(* session has been renewed from it yet.                                   *)
(***************************************************************************)
ConsumedOnce ==
    \A q \in Requests :
        IsIssuing(q) /\ request[q].from # NoToken =>
            /\ request[q].from \in Stored
            /\ tokens[request[q].from].revoked
            /\ \A t \in Stored : tokens[t].from # request[q].from
            /\ \A p \in Requests :
                  IsIssuing(p) /\ request[p].from = request[q].from => p = q

\* A token that was renewed is a row, and is revoked.
RenewedRevoked ==
    \A t \in Stored : tokens[t].from # NoToken =>
        /\ tokens[t].from \in Stored
        /\ tokens[tokens[t].from].revoked

RenewedOnce ==
    \A t1, t2 \in Stored :
        tokens[t1].from = tokens[t2].from /\ tokens[t1].from # NoToken => t1 = t2

\* A request under way from before a revocation knows it.
StragglersMarked ==
    /\ \A u \in Users : settled[u] <= era[u]
    /\ \A q \in Requests : IsIssuing(q) =>
          request[q].era >= settled[request[q].user] \/ request[q].overtaken

\* So does one that found the account active before it was deactivated.
LateMarked ==
    /\ \A u \in Users : active[u] => since[u] = 0
    /\ \A q \in Requests :
          request[q].op = "verified" /\ ~active[request[q].user]
          => request[q].late

SessionInv ==
    /\ TypeOK
    /\ ConsumedOnce
    /\ RenewedRevoked
    /\ RenewedOnce
    /\ StragglersMarked
    /\ OnlyStragglersSurvive
    /\ LateMarked
    /\ DeactivationBites

-----------------------------------------------------------------------------
(* Records *)

LEMMA RevokeRow ==
    ASSUME NEW r \in TokenRows
    PROVE  LET n == [r EXCEPT !.revoked = TRUE]
           IN  /\ n \in TokenRows
               /\ n.revoked
               /\ n.user = r.user /\ n.era = r.era /\ n.from = r.from
               /\ n.left = r.left /\ n.overtaken = r.overtaken
BY DEF TokenRows

LEMMA AgeRow ==
    ASSUME NEW r \in TokenRows, r.left > 0
    PROVE  LET n == [r EXCEPT !.left = @ - 1]
           IN  /\ n \in TokenRows
               /\ n.revoked = r.revoked
               /\ n.user = r.user /\ n.era = r.era /\ n.from = r.from
               /\ n.left = r.left - 1 /\ n.overtaken = r.overtaken
BY SessionAssumption DEF TokenRows

LEMMA AgePass ==
    ASSUME NEW p \in Passes, p.left > 1
    PROVE  LET n == [p EXCEPT !.left = @ - 1]
           IN  /\ n \in Passes
               /\ n.user = p.user /\ n.left = p.left - 1 /\ n.late = p.late
BY SessionAssumption DEF Passes

\* Of a request about to issue a session, what a step may change of it.
LEMMA MarkRequest ==
    ASSUME NEW r \in SessionRequests
    PROVE  /\ LET n == [r EXCEPT !.overtaken = TRUE]
              IN  /\ n \in SessionRequests
                  /\ n.op = r.op /\ n.user = r.user /\ n.era = r.era
                  /\ n.from = r.from /\ n.overtaken /\ n.late = r.late
           /\ LET n == [r EXCEPT !.op = "verified"]
              IN  /\ n \in SessionRequests
                  /\ n.op = "verified" /\ n.user = r.user /\ n.era = r.era
                  /\ n.from = r.from /\ n.overtaken = r.overtaken
                  /\ n.late = r.late
BY DEF SessionRequests

LEMMA Issuing ==
    ASSUME TypeOK, NEW q \in Requests
    PROVE  /\ IsIssuing(q) <=> request[q] \in SessionRequests
           /\ request[q] \in SessionRequests =>
                 /\ request[q].op \in {"consumed", "verified"}
                 /\ request[q].user \in Users
                 /\ request[q].era \in Eras
                 /\ request[q].from \in TokenIds \cup {NoToken}
                 /\ request[q].overtaken \in BOOLEAN
                 /\ request[q].late \in BOOLEAN
           /\ request[q].op \in {"changing", "changed"} =>
                 request[q].user \in Users
           /\ Idle.op = "idle"
BY DEF TypeOK, IsIssuing, SessionRequests, ChangeRequests, Idle

LEMMA StoredRow ==
    ASSUME TypeOK, NEW t \in TokenIds
    PROVE  /\ t \in Stored <=> tokens[t] \in TokenRows
           /\ t \in Stored =>
                 /\ tokens[t].user \in Users
                 /\ tokens[t].era \in Eras
                 /\ tokens[t].from \in TokenIds \cup {NoToken}
                 /\ tokens[t].left \in 0..RefreshTTL
                 /\ tokens[t].revoked \in BOOLEAN
                 /\ tokens[t].overtaken \in BOOLEAN
           /\ NoToken \notin TokenIds
BY NoTokenAssumption DEF TypeOK, Stored, TokenRows

-----------------------------------------------------------------------------
(* One lemma per action *)

LEMMA LoginStep ==
    ASSUME SessionInv, NEW q \in Requests, NEW u \in Users, Login(q, u)
    PROVE  SessionInv'
<1> DEFINE new == [op |-> "verified", user |-> u, era |-> era[u],
                   from |-> NoToken, overtaken |-> FALSE, late |-> FALSE]
<1>1. request' = [request EXCEPT ![q] = new] /\ active[u]
  BY DEF Login, Move
<1>2. UNCHANGED <<active, era, tokens, passes, settled, since>>
  BY DEF Login
<1>3. new \in SessionRequests
  BY DEF SessionInv, TypeOK, SessionRequests
<1>4. /\ request \in [Requests -> {Idle} \cup SessionRequests \cup ChangeRequests]
      /\ era \in [Users -> Eras] /\ settled \in [Users -> Eras]
  BY DEF SessionInv, TypeOK
<1>5. TypeOK'
  BY <1>1, <1>2, <1>3 DEF SessionInv, TypeOK
<1>6. Stored' = Stored
  BY <1>2 DEF Stored
<1>7. ConsumedOnce'
  BY <1>1, <1>2, <1>4, <1>6 DEF SessionInv, ConsumedOnce, IsIssuing
<1>8. StragglersMarked'
  BY <1>1, <1>2, <1>4, SMT DEF SessionInv, StragglersMarked, IsIssuing, Eras
<1>9. LateMarked'
  BY <1>1, <1>2, <1>4 DEF SessionInv, LateMarked
<1>10. RenewedRevoked' /\ RenewedOnce' /\ OnlyStragglersSurvive'
       /\ DeactivationBites'
  BY <1>2, <1>6 DEF SessionInv, RenewedRevoked, RenewedOnce,
                    OnlyStragglersSurvive, DeactivationBites, Live
<1> QED
  BY <1>5, <1>7, <1>8, <1>9, <1>10 DEF SessionInv

\* A request that ends, or that is none of those about to issue a session.
LEMMA QuietStep ==
    ASSUME SessionInv,
           NEW q \in Requests, NEW v \in {Idle} \cup ChangeRequests,
           request' = [request EXCEPT ![q] = v],
           era' \in [Users -> Eras], \A u \in Users : era[u] <= era'[u],
           UNCHANGED <<active, tokens, passes, settled, since>>
    PROVE  SessionInv'
<1>1. /\ request \in [Requests -> {Idle} \cup SessionRequests \cup ChangeRequests]
      /\ era \in [Users -> Eras] /\ settled \in [Users -> Eras]
  BY DEF SessionInv, TypeOK
<1>2. v.op \notin {"consumed", "verified"}
  BY DEF Idle, ChangeRequests
<1>3. TypeOK'
  BY DEF SessionInv, TypeOK
<1>4. Stored' = Stored
  BY DEF Stored
<1>5. \A p \in Requests : IsIssuing(p)' =>
          p # q /\ IsIssuing(p) /\ request'[p] = request[p]
  BY <1>1, <1>2 DEF IsIssuing
<1>6. ConsumedOnce'
  BY <1>4, <1>5 DEF SessionInv, ConsumedOnce
<1>7. StragglersMarked'
  <2>1. \A u \in Users : settled'[u] <= era'[u]
    BY <1>1, SMT DEF SessionInv, StragglersMarked, Eras
  <2> QED
    BY <2>1, <1>5 DEF SessionInv, StragglersMarked
<1>8. LateMarked'
  BY <1>1, <1>2 DEF SessionInv, LateMarked
<1>9. RenewedRevoked' /\ RenewedOnce' /\ OnlyStragglersSurvive'
      /\ DeactivationBites'
  BY <1>4 DEF SessionInv, RenewedRevoked, RenewedOnce,
              OnlyStragglersSurvive, DeactivationBites, Live
<1> QED
  BY <1>3, <1>6, <1>7, <1>8, <1>9 DEF SessionInv

LEMMA ConsumeStep ==
    ASSUME SessionInv, NEW q \in Requests, NEW t \in TokenIds, Consume(q, t)
    PROVE  SessionInv'
<1> DEFINE new == [op |-> "consumed", user |-> tokens[t].user,
                   era |-> tokens[t].era, from |-> t,
                   overtaken |-> tokens[t].overtaken, late |-> FALSE]
           spent == [tokens[t] EXCEPT !.revoked = TRUE]
<1>0. TypeOK
  BY DEF SessionInv
<1>1. /\ request' = [request EXCEPT ![q] = new]
      /\ tokens' = [tokens EXCEPT ![t] = spent]
      /\ UNCHANGED <<active, era, passes, settled, since>>
      /\ request[q] = Idle
      /\ t \in Stored /\ ~tokens[t].revoked /\ tokens[t].left > 0
  BY DEF Consume, Move, Live
<1>2. /\ request \in [Requests -> {Idle} \cup SessionRequests \cup ChangeRequests]
      /\ tokens \in [TokenIds -> TokenRows \cup {NoToken}]
  BY <1>0 DEF TypeOK
<1>3. tokens[t] \in TokenRows
  BY <1>0, <1>1, StoredRow
<1>4. /\ spent \in TokenRows /\ spent # NoToken
      /\ spent.revoked
      /\ spent.user = tokens[t].user /\ spent.era = tokens[t].era
      /\ spent.from = tokens[t].from /\ spent.overtaken = tokens[t].overtaken
  BY <1>3, RevokeRow, NoTokenAssumption
<1>5. new \in SessionRequests
  BY <1>0, <1>1, StoredRow DEF SessionRequests
<1>6. TypeOK'
  BY <1>0, <1>1, <1>4, <1>5 DEF TypeOK
<1>7. Stored' = Stored
  BY <1>1, <1>2, <1>4 DEF Stored
<1>8. \A s \in Stored : /\ tokens'[s].from = tokens[s].from
                        /\ tokens'[s].user = tokens[s].user
                        /\ tokens'[s].era = tokens[s].era
                        /\ tokens'[s].overtaken = tokens[s].overtaken
                        /\ tokens[s].revoked => tokens'[s].revoked
                        /\ s # t => tokens'[s] = tokens[s]
  BY <1>1, <1>2, <1>4 DEF Stored
<1>9. \A p \in Requests : p # q => request'[p] = request[p]
  BY <1>1, <1>2
<1>10. request'[q] = new /\ IsIssuing(q)' /\ new.from = t /\ t \in TokenIds
  BY <1>1, <1>2 DEF IsIssuing
<1>11. \A p \in Requests : p # q /\ IsIssuing(p)' => IsIssuing(p)
  BY <1>9 DEF IsIssuing
<1>12. ConsumedOnce'
  <2>1. \A p \in Requests : p # q /\ IsIssuing(p)' => request'[p].from # t
    BY <1>1, <1>9, <1>11, <1>0, StoredRow DEF SessionInv, ConsumedOnce
  <2>2. \A s \in Stored : tokens[s].from # t
    BY <1>1, <1>0, StoredRow DEF SessionInv, RenewedRevoked
  <2>3. tokens'[t].revoked
    BY <1>1, <1>2, <1>4
  <2>4. ASSUME NEW p \in Requests, IsIssuing(p)', request'[p].from # NoToken
        PROVE  /\ request'[p].from \in Stored'
               /\ tokens'[request'[p].from].revoked
               /\ \A s \in Stored' : tokens'[s].from # request'[p].from
               /\ \A o \in Requests :
                    IsIssuing(o)' /\ request'[o].from = request'[p].from => o = p
    <3>1. CASE p = q
      BY <3>1, <2>1, <2>2, <2>3, <1>1, <1>7, <1>8, <1>10
    <3>2. CASE p # q
      <4>1. IsIssuing(p) /\ request'[p] = request[p]
        BY <3>2, <2>4, <1>9, <1>11
      <4>2. /\ request[p].from \in Stored
            /\ tokens[request[p].from].revoked
            /\ \A s \in Stored : tokens[s].from # request[p].from
            /\ \A o \in Requests :
                 IsIssuing(o) /\ request[o].from = request[p].from => o = p
        BY <4>1, <2>4 DEF SessionInv, ConsumedOnce
      <4>3. \A o \in Requests :
               IsIssuing(o)' /\ request'[o].from = request'[p].from => o = p
        BY <4>1, <4>2, <3>2, <2>1, <2>4, <1>9, <1>10, <1>11
      <4> QED
        BY <4>1, <4>2, <4>3, <1>7, <1>8
    <3> QED
      BY <3>1, <3>2
  <2> QED
    BY <2>4 DEF ConsumedOnce
<1>13. RenewedRevoked'
  BY <1>7, <1>8 DEF SessionInv, RenewedRevoked
<1>14. RenewedOnce'
  BY <1>7, <1>8 DEF SessionInv, RenewedOnce
<1>15. StragglersMarked'
  <2>1. new.era >= settled[new.user] \/ new.overtaken
    BY <1>1 DEF SessionInv, OnlyStragglersSurvive, Live
  <2> QED
    BY <2>1, <1>1, <1>9, <1>10, <1>11 DEF SessionInv, StragglersMarked
<1>16. OnlyStragglersSurvive'
  BY <1>1, <1>4, <1>7, <1>8, <1>2 DEF SessionInv, OnlyStragglersSurvive, Live
<1>17. LateMarked'
  BY <1>1, <1>9, <1>10 DEF SessionInv, LateMarked
<1>18. DeactivationBites'
  BY <1>1 DEF SessionInv, DeactivationBites
<1> QED
  BY <1>6, <1>12, <1>13, <1>14, <1>15, <1>16, <1>17, <1>18 DEF SessionInv

LEMMA ReadUserStep ==
    ASSUME SessionInv, NEW q \in Requests, ReadUser(q)
    PROVE  SessionInv'
<1> DEFINE new == [request[q] EXCEPT !.op = "verified"]
<1>0. TypeOK
  BY DEF SessionInv
<1>1. UNCHANGED <<active, era, tokens, passes, settled, since>>
  BY DEF ReadUser
<1>2. request \in [Requests -> {Idle} \cup SessionRequests \cup ChangeRequests]
  BY <1>0 DEF TypeOK
<1>3. CASE ~active[request[q].user]
  <2>1. request' = [request EXCEPT ![q] = Idle]
    BY <1>3 DEF ReadUser, Move
  <2>2. /\ era' \in [Users -> Eras]
        /\ \A u \in Users : era[u] <= era'[u]
    BY <1>0, <1>1, SMT DEF TypeOK, Eras
  <2> QED
    BY <2>1, <2>2, <1>1, QuietStep
<1>4. CASE active[request[q].user]
  <2>1. request' = [request EXCEPT ![q] = new] /\ request[q].op = "consumed"
    BY <1>4 DEF ReadUser, Move
  <2>2. request[q] \in SessionRequests /\ IsIssuing(q)
    BY <1>0, <2>1, Issuing DEF IsIssuing
  <2>3. /\ new \in SessionRequests
        /\ new.op = "verified" /\ new.user = request[q].user
        /\ new.era = request[q].era /\ new.from = request[q].from
        /\ new.overtaken = request[q].overtaken
    BY <2>2, MarkRequest
  <2>4. TypeOK'
    BY <1>0, <1>1, <2>1, <2>3 DEF TypeOK
  <2>5. Stored' = Stored
    BY <1>1 DEF Stored
  <2>6. \A p \in Requests :
           /\ p # q => request'[p] = request[p]
           /\ IsIssuing(p)' <=> IsIssuing(p)
           /\ IsIssuing(p) => /\ request'[p].user = request[p].user
                              /\ request'[p].era = request[p].era
                              /\ request'[p].from = request[p].from
                              /\ request'[p].overtaken = request[p].overtaken
    BY <1>2, <2>1, <2>2, <2>3 DEF IsIssuing
  <2>7. ConsumedOnce'
    BY <1>1, <2>5, <2>6 DEF SessionInv, ConsumedOnce
  <2>8. StragglersMarked'
    BY <1>1, <2>6 DEF SessionInv, StragglersMarked
  <2>9. LateMarked'
    BY <1>1, <1>2, <1>4, <2>1, <2>3, <2>6 DEF SessionInv, LateMarked
  <2>10. RenewedRevoked' /\ RenewedOnce' /\ OnlyStragglersSurvive'
         /\ DeactivationBites'
    BY <1>1, <2>5 DEF SessionInv, RenewedRevoked, RenewedOnce,
                      OnlyStragglersSurvive, DeactivationBites, Live
  <2> QED
    BY <2>4, <2>7, <2>8, <2>9, <2>10 DEF SessionInv
<1> QED
  BY <1>3, <1>4

LEMMA StoreSessionStep ==
    ASSUME SessionInv, NEW q \in Requests, NEW t \in TokenIds,
           StoreSession(q, t)
    PROVE  SessionInv'
<1> DEFINE row == [user |-> request[q].user, era |-> request[q].era,
                   from |-> request[q].from, left |-> RefreshTTL,
                   revoked |-> FALSE, overtaken |-> request[q].overtaken]
           pass == [user |-> request[q].user, left |-> AccessTTL,
                    late |-> request[q].late]
<1>0. TypeOK
  BY DEF SessionInv
<1>1. /\ request[q].op = "verified"
      /\ t \notin Stored
      /\ tokens' = [tokens EXCEPT ![t] = row]
      /\ passes' = passes \cup {pass}
      /\ request' = [request EXCEPT ![q] = Idle]
      /\ UNCHANGED <<active, era, settled, since>>
  BY DEF StoreSession, Move
<1>2. /\ request \in [Requests -> {Idle} \cup SessionRequests \cup ChangeRequests]
      /\ tokens \in [TokenIds -> TokenRows \cup {NoToken}]
      /\ since \in [Users -> 0..AccessTTL]
  BY <1>0 DEF TypeOK
<1>3. IsIssuing(q) /\ request[q] \in SessionRequests
  BY <1>0, <1>1, Issuing DEF IsIssuing
<1>4. /\ request[q].user \in Users /\ request[q].era \in Eras
      /\ request[q].from \in TokenIds \cup {NoToken}
      /\ request[q].overtaken \in BOOLEAN /\ request[q].late \in BOOLEAN
  BY <1>0, <1>3, Issuing
<1>5. row \in TokenRows /\ row # NoToken /\ pass \in Passes
  <2>1. RefreshTTL \in 0..RefreshTTL /\ AccessTTL \in 1..AccessTTL
    BY SessionAssumption
  <2>2. row \in TokenRows
    BY <1>4, <2>1 DEF TokenRows
  <2>3. pass \in Passes
    BY <1>4, <2>1 DEF Passes
  <2> QED
    BY <2>2, <2>3, NoTokenAssumption
<1>6. TypeOK'
  BY <1>0, <1>1, <1>5 DEF TypeOK
<1>7. Stored' = Stored \cup {t}
  BY <1>1, <1>2, <1>5 DEF Stored
<1>8. tokens'[t] = row /\ \A s \in Stored : tokens'[s] = tokens[s]
  BY <1>1, <1>2 DEF Stored
<1>9. \A p \in Requests : IsIssuing(p)' =>
          p # q /\ IsIssuing(p) /\ request'[p] = request[p]
  BY <1>1, <1>2 DEF IsIssuing, Idle
<1>10. ConsumedOnce'
  <2>1. \A p \in Requests : IsIssuing(p)' /\ request'[p].from # NoToken
           => request'[p].from # row.from
    BY <1>3, <1>9 DEF SessionInv, ConsumedOnce
  <2> QED
    BY <2>1, <1>7, <1>8, <1>9 DEF SessionInv, ConsumedOnce
<1>11. RenewedRevoked'
  <2>1. row.from # NoToken =>
           row.from \in Stored /\ tokens[row.from].revoked
    BY <1>3 DEF SessionInv, ConsumedOnce
  <2> QED
    BY <2>1, <1>7, <1>8 DEF SessionInv, RenewedRevoked
<1>12. RenewedOnce'
  <2>1. \A s \in Stored : row.from # NoToken => tokens[s].from # row.from
    BY <1>3 DEF SessionInv, ConsumedOnce
  <2> QED
    BY <2>1, <1>7, <1>8 DEF SessionInv, RenewedOnce
<1>13. StragglersMarked'
  BY <1>1, <1>9 DEF SessionInv, StragglersMarked
<1>14. OnlyStragglersSurvive'
  <2>1. row.era >= settled[row.user] \/ row.overtaken
    BY <1>3 DEF SessionInv, StragglersMarked
  <2> QED
    BY <2>1, <1>1, <1>7, <1>8 DEF SessionInv, OnlyStragglersSurvive, Live
<1>15. LateMarked'
  BY <1>1, <1>2 DEF SessionInv, LateMarked, Idle
<1>16. DeactivationBites'
  <2>1. ~active[pass.user] => pass.late
    BY <1>1 DEF SessionInv, LateMarked
  <2> QED
    BY <2>1, <1>1 DEF SessionInv, DeactivationBites
<1> QED
  BY <1>6, <1>10, <1>11, <1>12, <1>13, <1>14, <1>15, <1>16 DEF SessionInv

\* A revocation of u's sessions; requests may end with it.
LEMMA RevocationStep ==
    ASSUME SessionInv, NEW u \in Users,
           tokens' = Revoked(u),
           request' \in [Requests -> {Idle} \cup SessionRequests
                                          \cup ChangeRequests],
           \A p \in Requests : request'[p] \in {Overtaken(u)[p], Idle},
           settled' = [settled EXCEPT ![u] = era[u]],
           UNCHANGED <<active, era, passes, since>>
    PROVE  SessionInv'
<1>0. TypeOK
  BY DEF SessionInv
<1>1. /\ tokens \in [TokenIds -> TokenRows \cup {NoToken}]
      /\ settled \in [Users -> Eras] /\ era \in [Users -> Eras]
  BY <1>0 DEF TypeOK
<1>2. \A t \in TokenIds :
         \/ t \notin Stored /\ tokens'[t] = NoToken
         \/ /\ t \in Stored
            /\ tokens'[t] \in TokenRows /\ tokens'[t] # NoToken
            /\ tokens'[t].user = tokens[t].user
            /\ tokens'[t].era = tokens[t].era
            /\ tokens'[t].from = tokens[t].from
            /\ tokens'[t].overtaken = tokens[t].overtaken
            /\ tokens'[t].left = tokens[t].left
            /\ tokens[t].revoked => tokens'[t].revoked
            /\ tokens[t].user = u => tokens'[t].revoked
  <2> SUFFICES ASSUME NEW t \in TokenIds, t \in Stored
               PROVE  /\ tokens'[t] \in TokenRows /\ tokens'[t] # NoToken
                      /\ tokens'[t].user = tokens[t].user
                      /\ tokens'[t].era = tokens[t].era
                      /\ tokens'[t].from = tokens[t].from
                      /\ tokens'[t].overtaken = tokens[t].overtaken
                      /\ tokens'[t].left = tokens[t].left
                      /\ tokens[t].revoked => tokens'[t].revoked
                      /\ tokens[t].user = u => tokens'[t].revoked
    BY DEF Revoked, Stored
  <2>1. tokens[t] \in TokenRows
    BY <1>0, StoredRow
  <2>2. CASE tokens[t].user = u
    <3>1. tokens'[t] = [tokens[t] EXCEPT !.revoked = TRUE]
      BY <2>2 DEF Revoked
    <3> QED
      BY <3>1, <2>1, RevokeRow, NoTokenAssumption
  <2>3. CASE tokens[t].user # u
    BY <2>1, <2>3 DEF Revoked, Stored
  <2> QED
    BY <2>2, <2>3
<1>3. Stored' = Stored
  BY <1>2 DEF Stored
<1>4. \A p \in Requests : IsIssuing(p)' =>
         /\ IsIssuing(p)
         /\ request'[p].op = request[p].op
         /\ request'[p].user = request[p].user
         /\ request'[p].era = request[p].era
         /\ request'[p].from = request[p].from
         /\ request'[p].late = request[p].late
         /\ request[p].overtaken => request'[p].overtaken
         /\ request[p].user = u => request'[p].overtaken
  <2> SUFFICES ASSUME NEW p \in Requests, IsIssuing(p)'
               PROVE  /\ IsIssuing(p)
                      /\ request'[p].op = request[p].op
                      /\ request'[p].user = request[p].user
                      /\ request'[p].era = request[p].era
                      /\ request'[p].from = request[p].from
                      /\ request'[p].late = request[p].late
                      /\ request[p].overtaken => request'[p].overtaken
                      /\ request[p].user = u => request'[p].overtaken
    OBVIOUS
  <2>1. request'[p] = Overtaken(u)[p]
    BY DEF IsIssuing, Idle
  <2>2. CASE IsIssuing(p) /\ request[p].user = u
    <3>1. request'[p] = [request[p] EXCEPT !.overtaken = TRUE]
      BY <2>1, <2>2 DEF Overtaken
    <3> QED
      BY <3>1, <2>2, <1>0, Issuing, MarkRequest
  <2>3. CASE ~(IsIssuing(p) /\ request[p].user = u)
    <3>1. request'[p] = request[p]
      BY <2>1, <2>3 DEF Overtaken
    <3> QED
      BY <3>1, <2>3 DEF IsIssuing
  <2> QED
    BY <2>2, <2>3
<1>5. TypeOK'
  <2>1. tokens' \in [TokenIds -> TokenRows \cup {NoToken}]
    BY <1>2 DEF Revoked
  <2> QED
    BY <1>0, <1>1, <2>1 DEF TypeOK
<1>6. ConsumedOnce'
  BY <1>2, <1>3, <1>4 DEF SessionInv, ConsumedOnce, Stored
<1>7. RenewedRevoked'
  BY <1>2, <1>3 DEF SessionInv, RenewedRevoked, Stored
<1>8. RenewedOnce'
  BY <1>2, <1>3 DEF SessionInv, RenewedOnce, Stored
<1>9. \A v \in Users : settled'[v] = IF v = u THEN era[u] ELSE settled[v]
  BY <1>1
<1>10. StragglersMarked'
  <2>1. \A v \in Users : settled'[v] <= era'[v]
    BY <1>1, <1>9, SMT DEF SessionInv, StragglersMarked, Eras
  <2>2. ASSUME NEW p \in Requests, IsIssuing(p)'
        PROVE  request'[p].era >= settled'[request'[p].user]
               \/ request'[p].overtaken
    <3>1. request[p].user \in Users
      BY <2>2, <1>0, <1>4, Issuing
    <3> QED
      BY <2>2, <3>1, <1>4, <1>9 DEF SessionInv, StragglersMarked
  <2> QED
    BY <2>1, <2>2 DEF StragglersMarked
<1>11. OnlyStragglersSurvive'
  <2>1. ASSUME NEW t \in Stored', Live(t)'
        PROVE  tokens'[t].era >= settled'[tokens'[t].user]
               \/ tokens'[t].overtaken
    <3>1. t \in Stored /\ t \in TokenIds /\ tokens[t].user \in Users
      BY <1>0, <1>3, StoredRow DEF Stored
    <3>2. tokens[t].user # u /\ Live(t)
      BY <2>1, <3>1, <1>2 DEF Live
    <3> QED
      BY <3>1, <3>2, <1>2, <1>9 DEF SessionInv, OnlyStragglersSurvive
  <2> QED
    BY <2>1 DEF OnlyStragglersSurvive
<1>12. LateMarked'
  BY <1>4 DEF SessionInv, LateMarked, IsIssuing
<1>13. DeactivationBites'
  BY DEF SessionInv, DeactivationBites
<1> QED
  BY <1>5, <1>6, <1>7, <1>8, <1>10, <1>11, <1>12, <1>13 DEF SessionInv

\* What Overtaken makes of the requests is again requests.
LEMMA OvertakenType ==
    ASSUME TypeOK, NEW u \in Users
    PROVE  Overtaken(u) \in [Requests -> {Idle} \cup SessionRequests
                                              \cup ChangeRequests]
<1> SUFFICES ASSUME NEW p \in Requests
             PROVE  Overtaken(u)[p] \in {Idle} \cup SessionRequests
                                             \cup ChangeRequests
  BY DEF Overtaken
<1>1. CASE IsIssuing(p)
  BY <1>1, Issuing, MarkRequest DEF Overtaken
<1>2. CASE ~IsIssuing(p)
  BY <1>2 DEF Overtaken, TypeOK
<1> QED
  BY <1>1, <1>2

LEMMA LogoutStep ==
    ASSUME SessionInv, NEW u \in Users, Logout(u)
    PROVE  SessionInv'
<1>1. TypeOK
  BY DEF SessionInv
<1>2. Overtaken(u) \in [Requests -> {Idle} \cup SessionRequests
                                         \cup ChangeRequests]
  BY <1>1, OvertakenType
<1> QED
  BY <1>2, RevocationStep DEF Logout

LEMMA RevokeOthersStep ==
    ASSUME SessionInv, NEW q \in Requests, RevokeOthers(q)
    PROVE  SessionInv'
<1> DEFINE u == request[q].user
<1>1. TypeOK /\ u \in Users
  BY Issuing DEF SessionInv, RevokeOthers
<1>2. Overtaken(u) \in [Requests -> {Idle} \cup SessionRequests
                                         \cup ChangeRequests]
  BY <1>1, OvertakenType
<1>3. request' = [Overtaken(u) EXCEPT ![q] = Idle]
  BY DEF RevokeOthers
<1>4. /\ request' \in [Requests -> {Idle} \cup SessionRequests
                                       \cup ChangeRequests]
      /\ \A p \in Requests : request'[p] \in {Overtaken(u)[p], Idle}
  BY <1>2, <1>3
<1> QED
  BY <1>1, <1>4, RevocationStep DEF RevokeOthers

LEMMA ChangeStep ==
    ASSUME SessionInv, NEW q \in Requests,
           (\E u \in Users : ChangeStart(q, u)) \/ SetPassword(q) \/ Abort(q)
    PROVE  SessionInv'
<1>0. TypeOK
  BY DEF SessionInv
<1>1. era \in [Users -> Eras] /\ \A u \in Users : era[u] <= era[u]
  BY <1>0, SMT DEF TypeOK, Eras
<1>2. CASE \E u \in Users : ChangeStart(q, u)
  <2>1. PICK u \in Users : ChangeStart(q, u)
    BY <1>2
  <2>2. [op |-> "changing", user |-> u] \in ChangeRequests
    BY DEF ChangeRequests
  <2>3. /\ request' = [request EXCEPT ![q] = [op |-> "changing", user |-> u]]
        /\ UNCHANGED <<active, era, tokens, passes, settled, since>>
    BY <2>1 DEF ChangeStart, Move
  <2> QED
    BY <1>1, <2>2, <2>3, QuietStep
<1>3. CASE SetPassword(q)
  <2> DEFINE u == request[q].user
  <2>1. /\ u \in Users /\ era[u] < MaxChanges
        /\ era' = [era EXCEPT ![u] = @ + 1]
        /\ request' = [request EXCEPT ![q] = [op |-> "changed", user |-> u]]
        /\ UNCHANGED <<active, tokens, passes, settled, since>>
    BY <1>0, <1>3, Issuing DEF SetPassword, Move
  <2>2. [op |-> "changed", user |-> u] \in ChangeRequests
    BY <2>1 DEF ChangeRequests
  <2>3. era' \in [Users -> Eras] /\ \A v \in Users : era[v] <= era'[v]
    BY <1>1, <2>1, SessionAssumption, SMT DEF Eras
  <2> QED
    BY <2>1, <2>2, <2>3, QuietStep
<1>4. CASE Abort(q)
  BY <1>1, <1>4, QuietStep DEF Abort, Move
<1> QED
  BY <1>2, <1>3, <1>4

LEMMA DeactivateStep ==
    ASSUME SessionInv, NEW u \in Users, Deactivate(u)
    PROVE  SessionInv'
<1>0. TypeOK
  BY DEF SessionInv
<1>1. /\ active[u]
      /\ active' = [active EXCEPT ![u] = FALSE]
      /\ UNCHANGED <<era, tokens, passes, settled, since>>
  BY DEF Deactivate
<1>2. active \in [Users -> BOOLEAN] /\ since \in [Users -> 0..AccessTTL]
  BY <1>0 DEF TypeOK
<1>3. \A p \in Requests :
         /\ request'[p] \in {Idle} \cup SessionRequests \cup ChangeRequests
         /\ request'[p].op = request[p].op
         /\ request[p].op = "verified" =>
               /\ request'[p].user = request[p].user
               /\ request[p].late => request'[p].late
               /\ request[p].user = u => request'[p].late
         /\ IsIssuing(p) => /\ request'[p].user = request[p].user
                            /\ request'[p].era = request[p].era
                            /\ request'[p].from = request[p].from
                            /\ request'[p].overtaken = request[p].overtaken
  <2> TAKE p \in Requests
  <2>1. CASE request[p].op = "verified" /\ request[p].user = u
    <3>1. request'[p] = [request[p] EXCEPT !.late = TRUE]
      BY <2>1 DEF Deactivate
    <3>2. request[p] \in SessionRequests
      BY <1>0, <2>1, Issuing DEF IsIssuing
    <3>3. /\ request'[p] \in SessionRequests
          /\ request'[p].op = request[p].op
          /\ request'[p].user = request[p].user
          /\ request'[p].era = request[p].era
          /\ request'[p].from = request[p].from
          /\ request'[p].overtaken = request[p].overtaken
          /\ request'[p].late
      BY <3>1, <3>2 DEF SessionRequests
    <3> QED
      BY <3>3
  <2>2. CASE ~(request[p].op = "verified" /\ request[p].user = u)
    <3>1. request'[p] = request[p]
      BY <2>2 DEF Deactivate
    <3>2. request[p] \in {Idle} \cup SessionRequests \cup ChangeRequests
      BY <1>0 DEF TypeOK
    <3> QED
      BY <2>2, <3>1, <3>2
  <2> QED
    BY <2>1, <2>2
<1>4. TypeOK'
  <2>1. request' \in [Requests -> {Idle} \cup SessionRequests \cup ChangeRequests]
    BY <1>3 DEF Deactivate
  <2> QED
    BY <1>0, <1>1, <2>1 DEF TypeOK
<1>5. Stored' = Stored
  BY <1>1 DEF Stored
<1>6. \A p \in Requests : IsIssuing(p)' <=> IsIssuing(p)
  BY <1>3 DEF IsIssuing
<1>7. ConsumedOnce'
  BY <1>1, <1>3, <1>5, <1>6 DEF SessionInv, ConsumedOnce
<1>8. StragglersMarked'
  BY <1>1, <1>3, <1>6 DEF SessionInv, StragglersMarked
<1>9. LateMarked'
  <2>1. \A p \in Requests : request'[p].op = "verified" =>
            /\ request[p].op = "verified"
            /\ request[p].user \in Users
    BY <1>0, <1>3, Issuing DEF IsIssuing
  <2> QED
    BY <2>1, <1>1, <1>2, <1>3 DEF SessionInv, LateMarked
<1>10. DeactivationBites'
  <2>1. ASSUME NEW p \in passes, ~active'[p.user]
        PROVE  p.late \/ p.left + since[p.user] <= AccessTTL
    <3>1. p.user \in Users /\ p.left \in 1..AccessTTL
      BY <1>0 DEF TypeOK, Passes
    <3>2. CASE p.user = u
      <4>1. since[u] = 0
        BY <1>1 DEF SessionInv, LateMarked
      <4> QED
        BY <3>1, <3>2, <4>1, SessionAssumption
    <3>3. CASE p.user # u
      BY <2>1, <3>1, <3>3, <1>1, <1>2 DEF SessionInv, DeactivationBites
    <3> QED
      BY <3>2, <3>3
  <2> QED
    BY <2>1, <1>1 DEF DeactivationBites
<1>11. RenewedRevoked' /\ RenewedOnce' /\ OnlyStragglersSurvive'
  BY <1>1, <1>5 DEF SessionInv, RenewedRevoked, RenewedOnce,
                    OnlyStragglersSurvive, Live
<1> QED
  BY <1>4, <1>7, <1>8, <1>9, <1>10, <1>11 DEF SessionInv

LEMMA TickStep ==
    ASSUME SessionInv, Tick
    PROVE  SessionInv'
<1>0. TypeOK
  BY DEF SessionInv
<1>1. UNCHANGED <<active, era, request, settled>>
  BY DEF Tick
<1>2. \A t \in TokenIds :
         \/ t \notin Stored /\ tokens'[t] = NoToken
         \/ /\ t \in Stored
            /\ tokens'[t] \in TokenRows /\ tokens'[t] # NoToken
            /\ tokens'[t].user = tokens[t].user
            /\ tokens'[t].era = tokens[t].era
            /\ tokens'[t].from = tokens[t].from
            /\ tokens'[t].overtaken = tokens[t].overtaken
            /\ tokens'[t].revoked = tokens[t].revoked
            /\ tokens'[t].left > 0 => tokens[t].left > 0
  <2> TAKE t \in TokenIds
  <2>1. CASE t \in Stored /\ tokens[t].left > 0
    <3>1. tokens'[t] = [tokens[t] EXCEPT !.left = @ - 1]
      BY <2>1 DEF Tick
    <3>2. tokens[t] \in TokenRows
      BY <1>0, <2>1, StoredRow
    <3> QED
      BY <2>1, <3>1, <3>2, AgeRow, NoTokenAssumption
  <2>2. CASE ~(t \in Stored /\ tokens[t].left > 0)
    <3>1. tokens'[t] = tokens[t]
      BY <2>2 DEF Tick
    <3> QED
      BY <1>0, <3>1, StoredRow DEF Stored
  <2> QED
    BY <2>1, <2>2
<1>3. \A p \in passes' : \E r \in passes :
         /\ p \in Passes
         /\ p.user = r.user /\ p.late = r.late /\ p.left = r.left - 1
  <2> TAKE p \in passes'
  <2>1. PICK r \in passes : r.left > 1 /\ p = [r EXCEPT !.left = @ - 1]
    BY DEF Tick
  <2> QED
    BY <1>0, <2>1, AgePass DEF TypeOK
<1>4. /\ since' \in [Users -> 0..AccessTTL]
      /\ \A u \in Users : /\ active[u] => since'[u] = since[u]
                          /\ since'[u] <= since[u] + 1
  <2>1. since \in [Users -> 0..AccessTTL]
    BY <1>0 DEF TypeOK
  <2>2. \A u \in Users :
           since'[u] = IF ~active[u] /\ since[u] < AccessTTL
                       THEN since[u] + 1 ELSE since[u]
    BY DEF Tick
  <2>3. since' = [u \in Users |-> since'[u]]
    BY DEF Tick
  <2>4. \A u \in Users : /\ since'[u] \in 0..AccessTTL
                         /\ active[u] => since'[u] = since[u]
                         /\ since'[u] <= since[u] + 1
    BY <2>1, <2>2, SessionAssumption
  <2> QED
    BY <2>3, <2>4
<1>5. TypeOK'
  <2>1. tokens' \in [TokenIds -> TokenRows \cup {NoToken}]
    BY <1>2 DEF Tick
  <2> QED
    BY <1>0, <1>1, <1>3, <1>4, <2>1 DEF TypeOK
<1>6. Stored' = Stored
  BY <1>2 DEF Stored
<1>7. ConsumedOnce'
  BY <1>1, <1>2, <1>6 DEF SessionInv, ConsumedOnce, IsIssuing, Stored
<1>8. RenewedRevoked' /\ RenewedOnce'
  BY <1>2, <1>6 DEF SessionInv, RenewedRevoked, RenewedOnce, Stored
<1>9. OnlyStragglersSurvive'
  BY <1>1, <1>2, <1>6 DEF SessionInv, OnlyStragglersSurvive, Live, Stored
<1>10. StragglersMarked'
  BY <1>1 DEF SessionInv, StragglersMarked, IsIssuing
<1>11. LateMarked'
  BY <1>1, <1>4 DEF SessionInv, LateMarked
<1>12. DeactivationBites'
  <2>1. ASSUME NEW p \in passes', ~active[p.user]
        PROVE  p.late \/ p.left + since'[p.user] <= AccessTTL
    <3>1. PICK r \in passes : /\ p.user = r.user /\ p.late = r.late
                              /\ p.left = r.left - 1
      BY <1>3
    <3>2. r.late \/ r.left + since[r.user] <= AccessTTL
      BY <2>1, <3>1 DEF SessionInv, DeactivationBites
    <3>3. r.user \in Users /\ r.left \in 1..AccessTTL
      BY <1>0 DEF TypeOK, Passes
    <3>4. since[r.user] \in 0..AccessTTL /\ since'[r.user] \in 0..AccessTTL
      BY <1>0, <1>4, <3>3 DEF TypeOK
    <3>5. since'[r.user] <= since[r.user] + 1
      BY <1>4, <3>3
    <3> QED
      BY <3>1, <3>2, <3>3, <3>4, <3>5, SessionAssumption
  <2> QED
    BY <2>1, <1>1 DEF DeactivationBites
<1> QED
  BY <1>5, <1>7, <1>8, <1>9, <1>10, <1>11, <1>12 DEF SessionInv

-----------------------------------------------------------------------------
(* Theorems *)

LEMMA SessionInit == Init => SessionInv
<1> SUFFICES ASSUME Init PROVE SessionInv
  OBVIOUS
<1>1. Stored = {}
  BY DEF Init, Stored
<1>2. \A q \in Requests : request[q] = Idle
  BY DEF Init
<1>3. \A q \in Requests : ~IsIssuing(q) /\ request[q].op = "idle"
  BY <1>2 DEF IsIssuing, Idle
<1>4. TypeOK
  <2>1. 0 \in Eras /\ 0 \in 0..AccessTTL
    BY SessionAssumption DEF Eras
  <2> QED
    BY <2>1 DEF Init, TypeOK
<1>5. StragglersMarked /\ LateMarked
  BY <1>3 DEF Init, StragglersMarked, LateMarked
<1> QED
  BY <1>1, <1>3, <1>4, <1>5
     DEF Init, SessionInv, ConsumedOnce, RenewedRevoked, RenewedOnce,
         OnlyStragglersSurvive, DeactivationBites

LEMMA SessionNext == SessionInv /\ [Next]_vars => SessionInv'
<1> SUFFICES ASSUME SessionInv, [Next]_vars PROVE SessionInv'
  OBVIOUS
<1>1. CASE Next
  <2>1. CASE \E q \in Requests :
                \/ \E u \in Users : Login(q, u) \/ ChangeStart(q, u)
                \/ \E t \in TokenIds : Consume(q, t)
                \/ Proceed(q)
    <3>1. PICK q \in Requests :
                \/ \E u \in Users : Login(q, u) \/ ChangeStart(q, u)
                \/ \E t \in TokenIds : Consume(q, t)
                \/ Proceed(q)
      BY <2>1
    <3> QED
      BY <3>1, LoginStep, ConsumeStep, ReadUserStep, StoreSessionStep,
         ChangeStep, RevokeOthersStep DEF Proceed
  <2>2. CASE \E u \in Users : Logout(u) \/ Deactivate(u)
    BY <2>2, LogoutStep, DeactivateStep
  <2>3. CASE Tick
    BY <2>3, TickStep
  <2> QED
    BY <1>1, <2>1, <2>2, <2>3 DEF Next
<1>2. CASE UNCHANGED vars
  BY <1>2 DEF vars, SessionInv, TypeOK, ConsumedOnce, RenewedRevoked,
              RenewedOnce, StragglersMarked, OnlyStragglersSurvive,
              LateMarked, DeactivationBites, Stored, Live, IsIssuing
<1> QED
  BY <1>1, <1>2

\* The inductive invariant of the session handlers.
THEOREM SessionInvariant == Spec => []SessionInv
  BY SessionInit, SessionNext, PTL DEF Spec

\* Accounts, sessions, passes and requests keep their types, for any number of
\* them and any lifetimes.
THEOREM SessionTypes == Spec => []TypeOK
<1>1. SessionInv => TypeOK
  BY DEF SessionInv
<1> QED
  BY <1>1, SessionInvariant, PTL

\* A refresh token buys at most one session (ConsumeRefreshToken's UPDATE is
\* the only thing that decides who), and is dead from then on.
THEOREM SessionSingleUse == Spec => []RefreshSingleUse
<1>1. SessionInv => RefreshSingleUse
  BY DEF SessionInv, RefreshSingleUse, RenewedRevoked, RenewedOnce, Live
<1> QED
  BY <1>1, SessionInvariant, PTL

\* changePassword and logout leave alive only what was on its way.
THEOREM SessionStragglers == Spec => []OnlyStragglersSurvive
<1>1. SessionInv => OnlyStragglersSurvive
  BY DEF SessionInv
<1> QED
  BY <1>1, SessionInvariant, PTL

\* A deactivated account is out within the lifetime of one access token.
THEOREM SessionDeactivation == Spec => []DeactivationBites
<1>1. SessionInv => DeactivationBites
  BY DEF SessionInv
<1> QED
  BY <1>1, SessionInvariant, PTL

-----------------------------------------------------------------------------
(* The limiter *)

\* The attempts of this very moment.
New(log) == {a \in log : a.age = 0}

\* What counts was granted, and what was granted this very moment is on record.
Matched ==
    \A key \in Keys :
        /\ IsFiniteSet(granted[key])
        /\ Kept(key) \subseteq granted[key]
        /\ New(granted[key]) \subseteq hits[key]

\* What a key was granted within the shorter window counts against it: no
\* sweep's window is shorter still, and so none takes it.
FreshCounts ==
    \A key \in Keys :
        /\ \A a \in granted[key] : a.age < Window(key)
        /\ Fresh(key) \subseteq Kept(key)
        /\ Cardinality(Fresh(key)) <= Budget(key)

LimitsInv == LimiterTypeOK /\ Matched /\ FreshCounts

\* The budgets and windows are positive, and no age exceeds the horizon.
LEMMA Numbers ==
    ASSUME ThrottleAssumption
    PROVE  /\ RefreshKeys \subseteq Keys
           /\ \A key \in Keys : /\ Budget(key) \in Nat \ {0} /\ Window(key) \in Nat \ {0}
                                /\ RefreshWindow <= Window(key)
           /\ \A key \in RefreshKeys : /\ Window(key) = RefreshWindow
                                       /\ Budget(key) = RefreshAttempts
           /\ \A key \in LoginKeys : key \in Keys /\ Budget(key) = LoginAttempts
           /\ RefreshWindow \in Nat \ {0} /\ Horizon \in Nat /\ LoginWindow <= Horizon
           /\ 0 \in Ages /\ Ages \subseteq Nat
<1>1. \A key \in LoginKeys : key \notin RefreshKeys
  BY DEF LoginKeys, RefreshKeys, ClientKey, EmailKey, RefreshKey
<1> QED
  BY <1>1 DEF ThrottleAssumption, Budget, Window, Horizon, Ages, Keys

\* Nothing is on record when the server starts.
LEMMA LimitsInit == ASSUME ThrottleAssumption, LimiterInit PROVE LimitsInv
<1>1. \A key \in Keys : Budget(key) \in Nat
  BY Numbers
<1>2. \A key \in Keys : granted[key] = {} /\ hits[key] = {} /\ Kept(key) = {}
  BY DEF LimiterInit, Kept, Within
<1>3. LimiterTypeOK
  BY <1>2 DEF LimiterInit, LimiterTypeOK
<1>4. Matched
  BY <1>2, FS_EmptySet DEF Matched, New
<1>5. FreshCounts
  <2>1. Cardinality({}) = 0 /\ \A key \in Keys : Fresh(key) = {}
    BY <1>2, FS_EmptySet DEF Fresh
  <2> QED
    BY <1>1, <1>2, <2>1 DEF FreshCounts
<1> QED
  BY <1>3, <1>4, <1>5 DEF LimitsInv

\* Recording adds one attempt that was not there.
LEMMA RecordingAdds ==
    ASSUME ThrottleAssumption, NEW log \in SUBSET Attempts, IsFiniteSet(log),
           \A a \in log : a.age = 0 => a.nth <= Cardinality(New(log))
    PROVE  \E a \in Attempts :
              /\ a.age = 0 /\ a \notin log /\ a.nth = Cardinality(New(log)) + 1
              /\ Recorded(log) = log \cup {a}
<1>1. IsFiniteSet(New(log)) /\ Cardinality(New(log)) \in Nat
  BY FS_Subset, FS_CardinalityType DEF New
<1>2. PICK a : a = [age |-> 0, nth |-> Cardinality(New(log)) + 1]
  OBVIOUS
<1>3. a \in Attempts /\ a.age = 0 /\ a.nth = Cardinality(New(log)) + 1
  BY <1>1, <1>2, Numbers DEF Attempts
<1>4. Recorded(log) = log \cup {a}
  BY <1>2 DEF Recorded, New
<1>5. a \notin log
  BY <1>1, <1>3
<1> QED
  BY <1>3, <1>4, <1>5

\* A sweep leaves a key alone, or drops it with nothing in the window.
LEMMA SweepDrops ==
    ASSUME NEW map, DOMAIN map = Keys, NEW window, NEW k \in Keys
    PROVE  \/ Swept(map, window)[k] = map[k]
           \/ Swept(map, window)[k] = {} /\ \A a \in map[k] : a.age > window
BY DEF Swept

\* What a sweep leaves is a map of logs.
LEMMA SweptType ==
    ASSUME NEW map \in [Keys -> SUBSET Attempts], NEW window
    PROVE  Swept(map, window) \in [Keys -> SUBSET Attempts]
BY DEF Swept

\* An attempt allowed, and the sweep that goes with it, keep the invariant:
\* whichever window the sweep uses, a key it drops has nothing fresh.
LEMMA AllowKeeps ==
    ASSUME ThrottleAssumption, LimitsInv, NEW key \in Keys, Allow(key),
           signIn' \in [Callers -> {NoSignIn} \cup SignIns]
    PROVE  LimitsInv'
<1>1. LimiterTypeOK /\ Matched /\ FreshCounts
  BY DEF LimitsInv
<1>2. /\ \A k \in Keys : /\ Budget(k) \in Nat \ {0} /\ Window(k) \in Nat \ {0}
                         /\ RefreshWindow <= Window(k)
      /\ RefreshWindow \in Nat \ {0}
      /\ \A a \in Attempts : a.age \in Nat
  BY Numbers DEF Attempts
<1>3. PICK a \in Attempts :
         /\ a.age = 0 /\ a \notin granted[key] /\ a.nth = Cardinality(New(granted[key])) + 1
         /\ Recorded(granted[key]) = granted[key] \cup {a}
  <2>1. /\ granted[key] \in SUBSET Attempts /\ IsFiniteSet(granted[key])
        /\ \A b \in granted[key] : b.age = 0 => b.nth <= Cardinality(New(granted[key]))
    BY <1>1 DEF LimiterTypeOK, Matched, New
  <2> QED
    BY <2>1, RecordingAdds
<1>4. New(Kept(key)) = New(granted[key])
  BY <1>1, <1>2 DEF Matched, New, Kept, Within, LimiterTypeOK
<1>5. Recorded(Kept(key)) = Kept(key) \cup {a}
  <2>1. a = [age |-> 0, nth |-> Cardinality(New(granted[key])) + 1]
    BY <1>3 DEF Attempts
  <2> QED
    BY <1>4, <2>1 DEF Recorded, New
<1>6. PICK log : log = Kept(key) \cup {a}
  OBVIOUS
<1>7. PICK map : map = [hits EXCEPT ![key] = log]
  OBVIOUS
<1>8. /\ map \in [Keys -> SUBSET Attempts] /\ DOMAIN map = Keys
      /\ map[key] = log /\ \A k \in Keys \ {key} : map[k] = hits[k]
  BY <1>1, <1>3, <1>6, <1>7 DEF LimiterTypeOK, Kept, Within
<1>9. hits' = Swept(map, Window(key)) /\ HasBudget(key)
  BY <1>5, <1>6, <1>7 DEF Allow
<1>10. hits' \in [Keys -> SUBSET Attempts]
  BY <1>8, <1>9, SweptType
<1>11. hits'[key] = log
  <2>1. a \in map[key] /\ ~(a.age > Window(key))
    BY <1>2, <1>3, <1>6, <1>8
  <2> QED
    BY <1>8, <1>9, <2>1, SweepDrops
<1>12. \A k \in Keys \ {key} :
          \/ hits'[k] = hits[k]
          \/ hits'[k] = {} /\ \A b \in hits[k] : b.age > Window(key)
  BY <1>8, <1>9, SweepDrops
<1>13. /\ granted'[key] = granted[key] \cup {a}
       /\ \A k \in Keys \ {key} : granted'[k] = granted[k]
       /\ granted' \in [Keys -> SUBSET Attempts]
  BY <1>1, <1>3 DEF Allow, LimiterTypeOK
<1>14. IsFiniteSet(granted[key]) /\ Cardinality(granted[key]) \in Nat
  BY <1>1, FS_CardinalityType DEF Matched
<1>15. IsFiniteSet(granted'[key]) /\ Cardinality(granted'[key]) = Cardinality(granted[key]) + 1
  <2>1. PICK was : was = granted[key]
    OBVIOUS
  <2>2. IsFiniteSet(was \cup {a}) /\ Cardinality(was \cup {a}) = Cardinality(was) + 1
    BY <1>3, <1>14, <2>1, FS_AddElement
  <2> QED
    BY <1>13, <2>1, <2>2
<1>16. Kept(key)' = Kept(key) \cup {a}
  BY <1>2, <1>3, <1>6, <1>11 DEF Kept, Within
<1>17. LimiterTypeOK'
  <2>1. New(granted'[key]) = New(granted[key]) \cup {a} /\ a \notin New(granted[key])
    BY <1>3, <1>13 DEF New
  <2>2. IsFiniteSet(New(granted[key])) /\ Cardinality(New(granted[key])) \in Nat
    BY <1>14, FS_Subset, FS_CardinalityType DEF New
  <2>3. Cardinality(New(granted'[key])) = Cardinality(New(granted[key])) + 1
    BY <2>1, <2>2, FS_AddElement
  <2>4. ASSUME NEW b \in granted'[key], b.age = 0
        PROVE  b.nth <= Cardinality(New(granted'[key]))
    <3>1. CASE b = a
      BY <1>3, <2>2, <2>3, <3>1
    <3>2. CASE b # a
      <4>1. b \in granted[key] /\ b.nth <= Cardinality(New(granted[key]))
        BY <1>1, <1>13, <2>4, <3>2 DEF LimiterTypeOK, New
      <4>2. b.nth \in Nat
        BY <1>1, <4>1 DEF LimiterTypeOK, Attempts
      <4> QED
        BY <2>2, <2>3, <4>1, <4>2
    <3> QED
      BY <3>1, <3>2
  <2>5. ASSUME NEW k \in Keys, NEW b \in granted'[k], b.age = 0
        PROVE  b.nth <= Cardinality({c \in granted'[k] : c.age = 0})
    <3>1. CASE k = key
      BY <2>4, <2>5, <3>1 DEF New
    <3>2. CASE k # key
      BY <1>1, <1>13, <2>5, <3>2 DEF LimiterTypeOK
    <3> QED
      BY <3>1, <3>2
  <2> QED
    BY <1>10, <1>13, <2>5 DEF LimiterTypeOK
<1>18. Matched'
  <2>1. ASSUME NEW k \in Keys \ {key}
        PROVE  Kept(k)' \subseteq Kept(k) /\ New(granted[k]) \subseteq hits'[k]
    <3>1. CASE hits'[k] = hits[k]
      BY <1>1, <3>1 DEF Matched, Kept, Within
    <3>2. CASE hits'[k] = {} /\ \A b \in hits[k] : b.age > Window(key)
      BY <1>1, <1>2, <3>2 DEF Matched, Kept, Within, New
    <3> QED
      BY <1>12, <3>1, <3>2
  <2>2. New(granted'[key]) \subseteq hits'[key]
    BY <1>4, <1>6, <1>11, <1>13 DEF New
  <2>3. Kept(key)' \subseteq granted'[key]
    BY <1>1, <1>13, <1>16 DEF Matched
  <2>4. ASSUME NEW k \in Keys \ {key}
        PROVE  /\ IsFiniteSet(granted'[k]) /\ Kept(k)' \subseteq granted'[k]
               /\ New(granted'[k]) \subseteq hits'[k]
    BY <1>1, <1>13, <2>1 DEF Matched
  <2> QED
    BY <1>15, <2>2, <2>3, <2>4 DEF Matched
<1>19. FreshCounts'
  <2>1. ASSUME NEW k \in Keys \ {key}
        PROVE  Fresh(k)' = Fresh(k) /\ Fresh(k) \subseteq Kept(k)'
    <3>1. Fresh(k)' = Fresh(k) /\ Fresh(k) \subseteq Kept(k)
      BY <1>1, <1>13 DEF Fresh, FreshCounts
    <3>2. CASE hits'[k] = hits[k]
      BY <3>1, <3>2 DEF Kept, Within
    <3>3. CASE \A b \in hits[k] : b.age > Window(key)
      <4>1. \A b \in Fresh(k) : b.age <= RefreshWindow /\ b \in hits[k] /\ b \in Attempts
        BY <1>1, <3>1 DEF Fresh, Kept, Within, LimiterTypeOK
      <4>2. Fresh(k) = {}
        BY <1>2, <3>3, <4>1
      <4> QED
        BY <3>1, <4>2
    <3> QED
      BY <1>12, <3>1, <3>2, <3>3
  <2>2. ASSUME NEW k \in Keys \ {key}
        PROVE  /\ \A b \in granted'[k] : b.age < Window(k)
               /\ Fresh(k)' \subseteq Kept(k)' /\ Cardinality(Fresh(k)') <= Budget(k)
    BY <1>1, <1>13, <2>1 DEF FreshCounts
  <2>3. Fresh(key)' = Fresh(key) \cup {a} /\ a \notin Fresh(key)
    BY <1>2, <1>3, <1>13 DEF Fresh
  <2>4. Fresh(key) \subseteq Kept(key) /\ IsFiniteSet(Kept(key))
    BY <1>1, FS_Subset DEF FreshCounts, Matched
  <2>5. /\ IsFiniteSet(Fresh(key)) /\ Cardinality(Fresh(key)) <= Cardinality(Kept(key))
        /\ Cardinality(Fresh(key)) \in Nat /\ Cardinality(Kept(key)) \in Nat
    BY <2>4, FS_Subset, FS_CardinalityType
  <2>6. Cardinality(Fresh(key)') = Cardinality(Fresh(key)) + 1
    BY <2>3, <2>5, FS_AddElement
  <2>7. Cardinality(Fresh(key)') <= Budget(key)
    BY <1>2, <1>9, <2>5, <2>6 DEF HasBudget
  <2>8. \A b \in granted'[key] : b.age < Window(key)
    BY <1>1, <1>2, <1>3, <1>13 DEF FreshCounts
  <2>9. Fresh(key)' \subseteq Kept(key)'
    BY <1>16, <2>3, <2>4
  <2> QED
    BY <2>2, <2>7, <2>8, <2>9 DEF FreshCounts, Budget, Window
<1> QED
  BY <1>17, <1>18, <1>19 DEF LimitsInv

\* So does an attempt turned away.
LEMMA DenyKeeps ==
    ASSUME ThrottleAssumption, LimitsInv, NEW key \in Keys, Deny(key),
           signIn' \in [Callers -> {NoSignIn} \cup SignIns]
    PROVE  LimitsInv'
<1>1. LimiterTypeOK /\ Matched /\ FreshCounts
  BY DEF LimitsInv
<1>2. UNCHANGED granted
  BY DEF Deny
<1>3. /\ hits'[key] = Kept(key) /\ \A k \in Keys \ {key} : hits'[k] = hits[k]
      /\ hits' \in [Keys -> SUBSET Attempts]
  BY <1>1 DEF Deny, LimiterTypeOK, Kept, Within
<1>4. \A k \in Keys : Kept(k)' = Kept(k)
  BY <1>3 DEF Kept, Within
<1>5. \A k \in Keys : New(granted[k]) \subseteq hits'[k]
  <2>1. New(granted[key]) \subseteq Kept(key)
    <3>1. 0 < Window(key)
      BY Numbers
    <3> QED
      BY <1>1, <3>1 DEF Matched, New, Kept, Within
  <2> QED
    BY <1>1, <1>3, <2>1 DEF Matched
<1>6. LimiterTypeOK'
  BY <1>1, <1>2, <1>3 DEF LimiterTypeOK
<1>7. Matched'
  BY <1>1, <1>2, <1>4, <1>5 DEF Matched, New
<1>8. FreshCounts'
  BY <1>1, <1>2, <1>4 DEF FreshCounts, Fresh, Budget, Window
<1> QED
  BY <1>6, <1>7, <1>8 DEF LimitsInv

\* So does a successful sign-in, which forgets.
LEMMA ForgetKeeps ==
    ASSUME ThrottleAssumption, LimitsInv, NEW key \in Keys, Forget(key),
           signIn' \in [Callers -> {NoSignIn} \cup SignIns]
    PROVE  LimitsInv'
<1>1. LimiterTypeOK /\ Matched /\ FreshCounts
  BY DEF LimitsInv
<1>2. /\ hits'[key] = {} /\ \A k \in Keys \ {key} : hits'[k] = hits[k]
      /\ hits' \in [Keys -> SUBSET Attempts]
      /\ granted'[key] = {} /\ \A k \in Keys \ {key} : granted'[k] = granted[k]
      /\ granted' \in [Keys -> SUBSET Attempts]
  BY <1>1 DEF Forget, LimiterTypeOK
<1>3. Kept(key)' = {} /\ \A k \in Keys \ {key} : Kept(k)' = Kept(k)
  BY <1>2 DEF Kept, Within
<1>4. LimiterTypeOK'
  BY <1>1, <1>2 DEF LimiterTypeOK
<1>5. Matched'
  BY <1>1, <1>2, <1>3, FS_EmptySet DEF Matched, New
<1>6. FreshCounts'
  <2>1. Cardinality({}) = 0 /\ \A k \in Keys : Budget(k) \in Nat
    BY Numbers, FS_EmptySet
  <2>2. Fresh(key)' = {} /\ \A k \in Keys \ {key} : Fresh(k)' = Fresh(k)
    BY <1>2 DEF Fresh
  <2>3. ASSUME NEW k \in Keys
        PROVE  /\ \A a \in granted'[k] : a.age < Window(k)
               /\ Fresh(k)' \subseteq Kept(k)' /\ Cardinality(Fresh(k)') <= Budget(k)
    <3>1. CASE k = key
      BY <1>2, <2>1, <2>2, <3>1
    <3>2. CASE k # key
      BY <1>1, <1>2, <1>3, <2>2, <3>2 DEF FreshCounts
    <3> QED
      BY <3>1, <3>2
  <2> QED
    BY <2>3 DEF FreshCounts, Budget, Window
<1> QED
  BY <1>4, <1>5, <1>6 DEF LimitsInv

\* Growing older makes no attempts.
LEMMA OlderIsNoMore ==
    ASSUME NEW log, IsFiniteSet(log)
    PROVE  IsFiniteSet(Older(log)) /\ Cardinality(Older(log)) <= Cardinality(log)
<1> DEFINE f == [a \in log |-> [a EXCEPT !.age = IF @ < Horizon THEN @ + 1 ELSE Horizon]]
<1>1. f \in Surjection(log, Older(log))
  BY DEF Surjection, Older
<1> HIDE DEF f
<1> QED
  BY <1>1, FS_Surjection

\* So does the passing of time: attempts of different ages may become one,
\* on record and in the history alike, and none becomes new.
LEMMA TimeKeeps ==
    ASSUME ThrottleAssumption, LimitsInv, TimePasses PROVE LimitsInv'
<1> DEFINE older(a) == [a EXCEPT !.age = IF a.age < Horizon THEN a.age + 1 ELSE Horizon]
<1>1. LimiterTypeOK /\ Matched /\ FreshCounts
  BY DEF LimitsInv
<1>2. /\ \A k \in Keys : Window(k) \in Nat \ {0} /\ Window(k) <= Horizon
      /\ Horizon \in Nat
  BY Numbers DEF Window, ThrottleAssumption
<1>3. \A a \in Attempts : /\ older(a) \in Attempts /\ older(a).age \in Nat /\ older(a).age # 0
                          /\ a.age \in Nat /\ older(a).age >= a.age
  BY <1>2 DEF Attempts, Ages, Horizon, ThrottleAssumption
<1>4. \A log : Older(log) = {older(a) : a \in log}
  BY DEF Older
<1> HIDE DEF older
<1>5. ASSUME NEW k \in Keys
      PROVE  /\ hits'[k] = {older(a) : a \in hits[k]}
             /\ granted'[k] = {b \in {older(a) : a \in granted[k]} : b.age < Window(k)}
  BY <1>1, <1>4 DEF TimePasses, LimiterTypeOK, Within
<1>6. ASSUME NEW k \in Keys
      PROVE  /\ hits'[k] \subseteq Attempts /\ granted'[k] \subseteq Attempts
             /\ New(granted'[k]) = {}
  BY <1>1, <1>3, <1>5 DEF LimiterTypeOK, New
<1>7. LimiterTypeOK'
  <2>1. hits' \in [Keys -> SUBSET Attempts] /\ granted' \in [Keys -> SUBSET Attempts]
    BY <1>6 DEF TimePasses
  <2> QED
    BY <1>1, <1>6, <2>1 DEF LimiterTypeOK, TimePasses, New
<1>8. ASSUME NEW k \in Keys PROVE IsFiniteSet(granted'[k])
  <2>1. IsFiniteSet(granted[k])
    BY <1>1 DEF Matched
  <2>2. IsFiniteSet({older(a) : a \in granted[k]})
    BY <1>4, <2>1, OlderIsNoMore
  <2> QED
    BY <1>5, <2>2, FS_Subset
<1>9. ASSUME NEW k \in Keys PROVE Kept(k)' \subseteq granted'[k]
  <2>1. ASSUME NEW b \in Kept(k)' PROVE b \in granted'[k]
    <3>1. PICK a \in hits[k] : b = older(a) /\ b.age < Window(k)
      BY <1>5 DEF Kept, Within
    <3>2. a.age < Window(k)
      BY <1>1, <1>2, <1>3, <3>1 DEF LimiterTypeOK
    <3>3. a \in granted[k]
      BY <1>1, <3>2 DEF Matched, Kept, Within
    <3> QED
      BY <1>5, <3>1, <3>3
  <2> QED
    BY <2>1
<1>10. Matched'
  BY <1>6, <1>8, <1>9 DEF Matched
<1>11. ASSUME NEW k \in Keys
       PROVE  /\ \A b \in granted'[k] : b.age < Window(k)
              /\ Fresh(k)' \subseteq Kept(k)' /\ Cardinality(Fresh(k)') <= Budget(k)
  <2> DEFINE T == {older(a) : a \in Fresh(k)}
  <2>1. /\ Fresh(k) \subseteq hits[k] /\ Cardinality(Fresh(k)) <= Budget(k)
        /\ Budget(k) \in Nat /\ IsFiniteSet(Fresh(k))
    BY <1>1, <1>2, Numbers, FS_Subset DEF FreshCounts, Kept, Within, Fresh, Matched
  <2>2. Fresh(k)' \subseteq T
    BY <1>1, <1>3, <1>5, Numbers DEF Fresh, LimiterTypeOK
  <2>3. IsFiniteSet(T) /\ Cardinality(T) <= Cardinality(Fresh(k))
    BY <1>4, <2>1, OlderIsNoMore
  <2>4. T \subseteq hits'[k]
    BY <1>5, <2>1
  <2>5. \A b \in granted'[k] : b.age < Window(k)
    BY <1>5
  <2>6. Fresh(k)' \subseteq Kept(k)'
    BY <2>2, <2>4, <2>5 DEF Kept, Within, Fresh
  <2> HIDE DEF T
  <2>7. /\ Cardinality(Fresh(k)') <= Cardinality(T) /\ Cardinality(Fresh(k)') \in Nat
        /\ Cardinality(T) \in Nat /\ Cardinality(Fresh(k)) \in Nat
    BY <2>1, <2>2, <2>3, FS_Subset, FS_CardinalityType
  <2> QED
    BY <2>1, <2>3, <2>5, <2>6, <2>7
<1>12. FreshCounts'
  BY <1>11 DEF FreshCounts, Budget, Window
<1> QED
  BY <1>7, <1>10, <1>12 DEF LimitsInv

\* A sign-in in flight has a client and an address, and stays a sign-in.
LEMMA SignInType ==
    ASSUME LimiterTypeOK, NEW q \in Callers, signIn[q] # NoSignIn
    PROVE  /\ signIn[q].client \in Clients /\ signIn[q].email \in Emails
           /\ \A op \in {"client", "email", "verify", "proved"} :
                 Goto(q, op) => signIn' \in [Callers -> {NoSignIn} \cup SignIns]
<1>1. signIn[q] \in SignIns
  BY DEF LimiterTypeOK
<1>2. \A op \in {"client", "email", "verify", "proved"} : [signIn[q] EXCEPT !.op = op] \in SignIns
  BY <1>1 DEF SignIns
<1>3. ASSUME NEW op \in {"client", "email", "verify", "proved"}, Goto(q, op)
      PROVE  signIn' = [signIn EXCEPT ![q] = [signIn[q] EXCEPT !.op = op]]
  BY <1>3 DEF Goto
<1> QED
  BY <1>1, <1>2, <1>3 DEF SignIns, LimiterTypeOK

\* A step that leaves the log and the history alone keeps the invariant.
LEMMA LimitsStand ==
    ASSUME ThrottleAssumption, LimitsInv, UNCHANGED <<hits, granted>>,
           signIn' \in [Callers -> {NoSignIn} \cup SignIns]
    PROVE  LimitsInv'
<1>1. LimiterTypeOK' 
  BY DEF LimitsInv, LimiterTypeOK
<1>2. \A k \in Keys : Kept(k)' = Kept(k)
  BY DEF Kept
<1>3. Matched' /\ FreshCounts'
  BY <1>2 DEF LimitsInv, Matched, FreshCounts, Fresh, Budget, Window
<1> QED
  BY <1>1, <1>3 DEF LimitsInv

\* Every step of a sign-in keeps it.
LEMMA SignInKeeps ==
    ASSUME ThrottleAssumption, LimitsInv, NEW q \in Callers, SignIn(q) PROVE LimitsInv'
<1>1. LimiterTypeOK
  BY DEF LimitsInv
<1>2. End(q) => signIn' \in [Callers -> {NoSignIn} \cup SignIns]
  BY <1>1 DEF End, LimiterTypeOK
<1>3. ASSUME NEW c \in Clients, NEW m \in Emails, Arrive(q, c, m) PROVE LimitsInv'
  <2>1. [op |-> "client", client |-> c, email |-> m] \in SignIns
    BY DEF SignIns
  <2> QED
    BY <1>1, <1>3, <2>1, LimitsStand DEF Arrive, LimiterTypeOK
<1>4. signIn[q] # NoSignIn =>
         /\ ClientKey(signIn[q].client) \in Keys /\ EmailKey(signIn[q].email) \in Keys
         /\ \A op \in {"client", "email", "verify", "proved"} :
               Goto(q, op) => signIn' \in [Callers -> {NoSignIn} \cup SignIns]
  <2>1. ASSUME signIn[q] # NoSignIn
        PROVE  /\ signIn[q].client \in Clients /\ signIn[q].email \in Emails
               /\ \A op \in {"client", "email", "verify", "proved"} :
                     Goto(q, op) => signIn' \in [Callers -> {NoSignIn} \cup SignIns]
    BY <1>1, <2>1, SignInType
  <2> QED
    BY <2>1 DEF Keys, LoginKeys
<1>5. CASE ChargeClient(q)
  <2>1. signIn[q] # NoSignIn
    BY <1>5 DEF ChargeClient, NoSignIn
  <2> QED
    BY <1>2, <1>4, <1>5, <2>1, AllowKeeps, DenyKeeps DEF ChargeClient
<1>6. CASE ChargeEmail(q)
  <2>1. signIn[q] # NoSignIn
    BY <1>6 DEF ChargeEmail, NoSignIn
  <2> QED
    BY <1>2, <1>4, <1>6, <2>1, AllowKeeps, DenyKeeps DEF ChargeEmail
<1>7. CASE Verify(q)
  <2>1. signIn[q] # NoSignIn
    BY <1>7 DEF Verify, NoSignIn
  <2> QED
    BY <1>2, <1>4, <1>7, <2>1, ForgetKeeps, LimitsStand DEF Verify
<1>8. CASE ForgetEmail(q)
  <2>1. signIn[q] # NoSignIn
    BY <1>8 DEF ForgetEmail, NoSignIn
  <2> QED
    BY <1>2, <1>4, <1>8, <2>1, ForgetKeeps DEF ForgetEmail
<1> QED
  BY <1>3, <1>5, <1>6, <1>7, <1>8 DEF SignIn

\* The invariant holds throughout.
LEMMA LimitsAlways == LimiterSpec => []LimitsInv
<1>1. LimiterInit => LimitsInv
  BY LimitsInit, ThrottleAssumption
<1>2. LimitsInv /\ [LimiterNext]_limiterVars => LimitsInv'
  <2> SUFFICES ASSUME LimitsInv, [LimiterNext]_limiterVars PROVE LimitsInv'
    OBVIOUS
  <2>1. LimiterTypeOK
    BY DEF LimitsInv
  <2>2. ASSUME NEW c \in Clients, Refresh(c) PROVE LimitsInv'
    <3>1. RefreshKey(c) \in Keys
      BY DEF Keys, RefreshKeys
    <3>2. signIn' \in [Callers -> {NoSignIn} \cup SignIns]
      BY <2>1, <2>2 DEF Refresh, LimiterTypeOK
    <3> QED
      BY <2>2, <3>1, <3>2, AllowKeeps, DenyKeeps, ThrottleAssumption DEF Refresh
  <2>3. CASE UNCHANGED limiterVars
    BY <2>1, <2>3, LimitsStand, ThrottleAssumption DEF limiterVars, LimiterTypeOK
  <2> QED
    BY <2>2, <2>3, SignInKeeps, TimeKeeps, ThrottleAssumption DEF LimiterNext
<1> QED
  BY <1>1, <1>2, PTL DEF LimiterSpec

(***************************************************************************)
(* Nobody is turned away for attempts that were not made: what counts      *)
(* against a key was granted to it, in its window and since its last       *)
(* success, whatever sweeps and sign-ins in flight do.                     *)
(***************************************************************************)
THEOREM NobodyIsPhantom == LimiterSpec => []NoPhantomAttempts
<1>1. LimitsInv => NoPhantomAttempts
  <2> SUFFICES ASSUME LimitsInv, NEW key \in Keys
               PROVE  Cardinality(Kept(key)) <= Cardinality(granted[key])
    BY DEF NoPhantomAttempts
  <2>1. IsFiniteSet(granted[key]) /\ Kept(key) \subseteq granted[key]
    BY DEF LimitsInv, Matched
  <2> QED
    BY <2>1, FS_Subset
<1>2. LimiterSpec => []LimitsInv
  BY LimitsAlways
<1> QED
  BY <1>1, <1>2, PTL

(***************************************************************************)
(* No client gets more than a budget's worth of refreshes in a window,     *)
(* although every sign-in may sweep the keys refreshes are counted by.     *)
(***************************************************************************)
THEOREM RefreshesKeepBudget == LimiterSpec => []RefreshBudgetKept
<1>1. LimitsInv => RefreshBudgetKept
  <2> SUFFICES ASSUME LimitsInv, NEW key \in RefreshKeys
               PROVE  Cardinality(granted[key]) <= Budget(key)
    BY DEF RefreshBudgetKept, BudgetKept
  <2>1. key \in Keys /\ Window(key) = RefreshWindow /\ RefreshWindow \in Nat
        /\ \A a \in Attempts : a.age \in Nat
    BY Numbers, ThrottleAssumption DEF Attempts
  <2>2. granted[key] = Fresh(key)
    <3>1. \A a \in granted[key] : a \in Attempts /\ a.age < Window(key)
      BY <2>1 DEF LimitsInv, LimiterTypeOK, FreshCounts
    <3>2. \A a \in granted[key] : a.age <= RefreshWindow
      BY <2>1, <3>1
    <3> QED
      BY <3>2 DEF Fresh
  <2> QED
    BY <2>1, <2>2 DEF LimitsInv, FreshCounts
<1>2. LimiterSpec => []LimitsInv
  BY LimitsAlways
<1> QED
  BY <1>1, <1>2, PTL

(***************************************************************************)
(* However many clients and addresses there are and however often the map  *)
(* is swept for them, no client and no address gets more than              *)
(* LoginAttempts sign-ins through within the shorter window between two    *)
(* successes: every sweep spares a key whose latest attempt lies within    *)
(* it.  Over the longer window that is false once MaxKeys is exceeded,     *)
(* because a refresh sweeps by its own window.                             *)
(***************************************************************************)
THEOREM LoginsDoNotBurst == LimiterSpec => []LoginBurstKept
<1>1. LimitsInv => LoginBurstKept
  BY Numbers, ThrottleAssumption DEF LimitsInv, FreshCounts, LoginBurstKept
<1>2. LimiterSpec => []LimitsInv
  BY LimitsAlways
<1> QED
  BY <1>1, <1>2, PTL
=============================================================================
