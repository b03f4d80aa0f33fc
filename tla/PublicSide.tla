------------------------------- MODULE PublicSide -------------------------------
(***************************************************************************)
(* The guest's page (web/src/pages/Explore.tsx) over the two services it   *)
(* talks to: the listed project and its enquiry form (Leads), and, once    *)
(* the project is known, its latest updates (SiteUpdates).  The same       *)
(* browser may hold a token of some builder's office: it is then shown     *)
(* drafts, on this page and on the page of updates.  One clock drives both *)
(* services.                                                               *)
(***************************************************************************)
EXTENDS Leads, SiteUpdates

vars == <<leadVars, updateVars, now>>

Init == LeadsInit /\ UpdatesInit /\ now = 0

\* Explore: the updates of the society the page is about.
LoadFeed(g, caller) ==
    /\ guest[g].op = "page"
    /\ ReadPosts(g, guest[g].society, caller)

\* The page of updates, for an office; an owner's is like a guest's.
LoadUpdates(g, s, caller) == ReadPosts(g, s, caller)

Tick ==
    /\ now < MaxTime
    /\ now' = now + 1
    /\ UNCHANGED <<leadVars, updateVars>>

Next ==
    \/ LeadsNext /\ UNCHANGED <<updateVars, now>>
    \/ UpdatesNext /\ UNCHANGED <<leadVars, now>>
    \/ /\ \E g \in Guests :
             \/ \E caller \in Callers : LoadFeed(g, caller)
             \/ \E s \in Societies, caller \in Staff : LoadUpdates(g, s, caller)
       /\ UNCHANGED <<leadVars, now>>
    \/ Tick

Spec == Init /\ [][Next]_vars

\* Every variable of the two stays in its type.
TypeOK == LeadsTypeOK /\ UpdatesTypeOK /\ now \in Times
=============================================================================
