----------------------------- MODULE TicketPromise -----------------------------
(***************************************************************************)
(* What a raised query promises its owner, without requests, transactions  *)
(* or tenants: a ticket comes into being with the words that raise it;     *)
(* what was said on it stays said; it is settled at one moment, which      *)
(* stands until the ticket is reopened.                                    *)
(***************************************************************************)

CONSTANTS Tickets, NoTicket,
          Utterances, NoUtterance,
          People,
          Moments, Never

VARIABLES ticket,   \* by whom, and since when it is settled
          said      \* on which ticket, and by whom

Init ==
    /\ ticket = [t \in Tickets |-> NoTicket]
    /\ said = [u \in Utterances |-> NoUtterance]

Say(t, u) ==
    /\ said[u] = NoUtterance
    /\ said'[u] \in [on: {t}, by: People]
    /\ said' = [said EXCEPT ![u] = said'[u]]

\* Whoever raises a ticket says the first words on it.
Raise(t, u) ==
    /\ ticket[t] = NoTicket
    /\ Say(t, u)
    /\ ticket' = [ticket EXCEPT ![t] = [by |-> said'[u].by, settled |-> Never]]

Add(t, u) ==
    /\ ticket[t] # NoTicket
    /\ Say(t, u)
    /\ UNCHANGED ticket

Settle(t) ==
    /\ ticket[t] # NoTicket
    /\ ticket[t].settled = Never
    /\ ticket'[t].settled \in Moments
    /\ ticket' = [ticket EXCEPT ![t].settled = ticket'[t].settled]
    /\ UNCHANGED said

Reopen(t) ==
    /\ ticket[t] # NoTicket
    /\ ticket' = [ticket EXCEPT ![t].settled = Never]
    /\ UNCHANGED said

Next ==
    \E t \in Tickets :
       \/ \E u \in Utterances : Raise(t, u) \/ Add(t, u)
       \/ Settle(t)
       \/ Reopen(t)

Spec == Init /\ [][Next]_<<ticket, said>>
=============================================================================
