------------------------------ MODULE MCSessions ------------------------------
(***************************************************************************)
(* Small instances of the session handlers.                                *)
(***************************************************************************)
EXTENDS Sessions, TLC

Interchangeable ==
    Permutations(Users) \cup Permutations(TokenIds) \cup Permutations(Requests)

(***************************************************************************)
(* No handler deletes a session, so with finitely many ids a behaviour     *)
(* runs out of them, and nothing could refresh for ever.  For the liveness *)
(* property the id of a dead session that no request holds is used again;  *)
(* no handler ever looks at such a row (Live).                             *)
(***************************************************************************)
Recycle(t) ==
    /\ t \in Stored /\ ~Live(t)
    /\ \A q \in Requests : IsIssuing(q) => request[q].from # t
    /\ tokens' = [s \in TokenIds |->
                     IF s = t THEN NoToken
                     ELSE IF s \in Stored /\ tokens[s].from = t
                          THEN [tokens[s] EXCEPT !.from = NoToken]
                          ELSE tokens[s]]
    /\ UNCHANGED <<active, era, passes, request, settled, since>>

EndlessSpec ==
    Init /\ [][Next \/ \E t \in TokenIds : Recycle(t)]_vars /\ Fairness
=============================================================================
