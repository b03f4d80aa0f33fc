----------------------------- MODULE OwnershipProofs -----------------------------
(***************************************************************************)
(* Proofs about invitations and the plot register, for any number of       *)
(* builders, plots, invitations and acceptances in flight.  The argument:  *)
(* an acceptance that has inserted its account holds the address of its    *)
(* invitation, which no account has; so of all who find an invitation only *)
(* one can commit, and from then on the address is taken.  An invitation   *)
(* is made by somebody entitled to it, and neither that person's account   *)
(* nor the society of the plot ever changes.                               *)
(***************************************************************************)
EXTENDS Ownership, TLAPS

\* Whoever accepts an invitation has found it in the table.
RequestsFound == \A q \in Requests : request[q] # Idle => request[q].invite \in Sent

\* An account that is inserted and not committed is nobody's yet, and neither
\* is its address.
InsertedIsNew ==
    \A q \in Requests : InTransaction(q) =>
        /\ request[q].user \in Users \ People
        /\ ~Taken(InviteIn(q).email)

\* Transactions hold different accounts and different addresses.
TransactionsApart ==
    \A q, r \in Requests : q # r /\ InTransaction(q) /\ InTransaction(r) =>
        /\ request[q].user # request[r].user
        /\ InviteIn(q).email # InviteIn(r).email

\* An account is what its invitation says, which is burned; those that were
\* there before are not owners.
AccountsInvited ==
    \A u \in People :
        LET i == accounts[u].via
        IN  /\ i = NoInvite => accounts[u].role # "owner"
            /\ i # NoInvite =>
                  /\ i \in Sent /\ invites[i].accepted
                  /\ accounts[u].email = invites[i].email
                  /\ accounts[u].role = invites[i].role
                  /\ accounts[u].builder = invites[i].builder

\* Invitation i stems from somebody who may give what it gives.
Entitled(i) ==
    LET by == invites[i].by
    IN  /\ by \in People
        /\ IF invites[i].role = "owner"
           THEN /\ invites[i].plot \in Listed
                /\ Permits(Identity(by), TenantOf(invites[i].plot))
           ELSE /\ CanManageBuilder(accounts[by].role)
                /\ invites[i].builder = accounts[by].builder
                /\ invites[i].plot = NoPlot

InvitesEntitled == \A i \in Sent : Entitled(i)

\* A plot's owner was invited to it.
OwnersInvited ==
    \A p \in Listed : plots[p].owner # NoAccount =>
        LET u == plots[p].owner
        IN  /\ u \in People
            /\ accounts[u].via \in Sent
            /\ invites[accounts[u].via].plot = p
            /\ invites[accounts[u].via].role = "owner"

OwnershipInv ==
    /\ TypeOK /\ RequestsFound /\ InsertedIsNew /\ TransactionsApart
    /\ AccountsInvited /\ InvitesEntitled /\ OwnersInvited
    /\ InviteOnce /\ StrandedByRivalsOnly

-----------------------------------------------------------------------------
(* Types *)

LEMMA TypesInit == ASSUME OwnershipAssumption, Init PROVE TypeOK
<1>1. accounts \in [Users -> AccountRows \cup {NoAccount}]
  BY DEF Init, OwnershipAssumption
<1> QED
  BY <1>1 DEF Init, TypeOK

LEMMA RegisterTypes ==
    ASSUME OwnershipAssumption, NoPlotAssumption, TypeOK, Register PROVE TypeOK'
<1>1. ASSUME NEW u \in Users, NEW p \in Plots, NEW s \in Societies, NEW no \in Numbers,
             NEW status \in Statuses, CreatePlot(u, p, s, no, status)
      PROVE  TypeOK'
  <2> DEFINE row == [society |-> s, no |-> no, status |-> status,
                     notes |-> p \in Noted, owner |-> NoAccount]
  <2>1. row \in PlotRows
    BY DEF PlotRows
  <2> HIDE DEF row
  <2>2. plots' = [plots EXCEPT ![p] = row] /\ UNCHANGED <<accounts, invites, page, request>>
    BY <1>1 DEF CreatePlot, row
  <2> QED
    BY <2>1, <2>2 DEF TypeOK
<1>2. ASSUME NEW c \in Clerks, LoadPage(c) PROVE TypeOK'
  <2> DEFINE loaded == [p \in Plots |-> IF p \in Listed
                           THEN [no |-> plots[p].no, status |-> plots[p].status] ELSE NoPlot]
  <2>1. \A p \in Listed : plots[p] \in PlotRows
    BY DEF TypeOK, Listed
  <2>2. loaded \in [Plots -> [no: Numbers, status: Statuses] \cup {NoPlot}]
    BY <2>1 DEF PlotRows
  <2> HIDE DEF loaded
  <2>3. page' = [page EXCEPT ![c] = loaded] /\ UNCHANGED <<accounts, invites, plots, request>>
    BY <1>2 DEF LoadPage, loaded
  <2> QED
    BY <2>2, <2>3 DEF TypeOK
<1>3. ASSUME NEW c \in Clerks, NEW p \in Plots, NEW next \in Statuses,
             SetPlotStatus(c, p, next)
      PROVE  TypeOK'
  <2> DEFINE old  == plots[p]
             seen == page[c][p]
             row  == [old EXCEPT !.no = seen.no, !.status = next, !.notes = FALSE]
  <2>1. old \in PlotRows
    BY <1>3, NoBuilderAssumption DEF SetPlotStatus, TenantOf, Permits, Listed, TypeOK
  <2>2. seen \in [no: Numbers, status: Statuses]
    BY <1>3 DEF SetPlotStatus, TypeOK
  <2>3. row \in PlotRows /\ [seen EXCEPT !.status = next] \in [no: Numbers, status: Statuses]
    BY <2>1, <2>2 DEF PlotRows
  <2>4. plots' = [plots EXCEPT ![p] = row]
    BY <1>3 DEF SetPlotStatus, TypeOK
  <2>5. page' = [page EXCEPT ![c] = [page[c] EXCEPT ![p] = [seen EXCEPT !.status = next]]]
    BY <1>3 DEF SetPlotStatus, TypeOK
  <2>6. UNCHANGED <<accounts, invites, request>>
    BY <1>3 DEF SetPlotStatus
  <2> HIDE DEF row, old
  <2>7. plots' \in [Plots -> PlotRows \cup {NoPlot}]
    BY <2>3, <2>4 DEF TypeOK
  <2>8. page[c] \in [Plots -> [no: Numbers, status: Statuses] \cup {NoPlot}]
    BY DEF TypeOK
  <2>9. page' \in [Clerks -> [Plots -> [no: Numbers, status: Statuses] \cup {NoPlot}]]
    <3> DEFINE after == [page[c] EXCEPT ![p] = [seen EXCEPT !.status = next]]
    <3>1. after \in [Plots -> [no: Numbers, status: Statuses] \cup {NoPlot}]
      BY <2>3, <2>8
    <3> HIDE DEF after
    <3> QED
      BY <2>5, <3>1 DEF TypeOK, after
  <2> QED
    BY <2>6, <2>7, <2>9 DEF TypeOK
<1> QED
  BY <1>1, <1>2, <1>3 DEF Register

LEMMA InvitationTypes ==
    ASSUME OwnershipAssumption, NoInviteAssumption, NoPlotAssumption, TypeOK,
           \/ \E u \in Users, i \in Invites, email \in Emails, p \in Plots,
                 role \in {"builder_admin", "builder_staff", "owner"} :
                    CreateInvite(u, i, email, role, p)
           \/ Tick
    PROVE  TypeOK'
<1>1. ASSUME NEW u \in Users, NEW i \in Invites, NEW email \in Emails, NEW p \in Plots,
             NEW role \in {"builder_admin", "builder_staff", "owner"},
             CreateInvite(u, i, email, role, p)
      PROVE  TypeOK'
  <2> DEFINE row == [email |-> email, role |-> role,
                     builder |-> IF role = "owner" THEN NoBuilder ELSE accounts[u].builder,
                     plot |-> IF role = "owner" THEN p ELSE NoPlot,
                     by |-> u, left |-> InviteTTL, accepted |-> FALSE]
  <2>1. accounts[u] \in AccountRows
    BY <1>1 DEF CreateInvite, MayInvite, IsStaffMember, People, TypeOK
  <2>2. row \in InviteRows
    BY <2>1 DEF InviteRows, AccountRows, OwnershipAssumption
  <2> HIDE DEF row
  <2>3. invites' = [invites EXCEPT ![i] = row] /\ UNCHANGED <<accounts, plots, page, request>>
    BY <1>1 DEF CreateInvite, row
  <2> QED
    BY <2>2, <2>3 DEF TypeOK
<1>2. CASE Tick
  <2>1. ASSUME NEW i \in Sent, invites[i].left > 0
        PROVE  [invites[i] EXCEPT !.left = @ - 1] \in InviteRows
    <3>1. invites[i] \in InviteRows
      BY DEF Sent, TypeOK
    <3>2. invites[i].left - 1 \in 0..InviteTTL
      BY <2>1, <3>1 DEF InviteRows, OwnershipAssumption
    <3> QED
      BY <3>1, <3>2 DEF InviteRows
  <2>2. invites' \in [Invites -> InviteRows \cup {NoInvite}]
    BY <1>2, <2>1 DEF Tick, TypeOK
  <2> QED
    BY <1>2, <2>2 DEF Tick, TypeOK
<1> QED
  BY <1>1, <1>2

\* An acceptance goes on by itself.
LEMMA AcceptanceTypes ==
    ASSUME OwnershipAssumption, NoInviteAssumption, NoPlotAssumption, TypeOK, RequestsFound,
           InvitesEntitled, NEW q \in Requests, Acceptance(q)
    PROVE  TypeOK'
<1>1. request[q] \in {Idle} \cup Acceptances
  BY DEF TypeOK
<1>2. ASSUME NEW new \in {Idle} \cup Acceptances, request' = [request EXCEPT ![q] = new],
             UNCHANGED <<accounts, invites, plots, page>>
      PROVE  TypeOK'
  BY <1>2 DEF TypeOK
<1>3. ASSUME NEW i \in Invites, FindInvite(q, i) PROVE TypeOK'
  <2>1. [op |-> "invited", invite |-> i, user |-> NoAccount] \in Acceptances
    BY DEF Acceptances
  <2> QED
    BY <1>2, <1>3, <2>1 DEF FindInvite
<1>4. ASSUME NEW u \in Users, InsertUser(q, u) PROVE TypeOK'
  <2>1. request[q] \in Acceptances
    BY <1>1, <1>4 DEF InsertUser, Idle
  <2>2. [request[q] EXCEPT !.op = "created", !.user = u] \in Acceptances
    BY <2>1 DEF Acceptances
  <2>3. \E new \in {Idle, [request[q] EXCEPT !.op = "created", !.user = u]} :
           request' = [request EXCEPT ![q] = new]
    BY <1>4 DEF InsertUser
  <2> QED
    BY <1>2, <1>4, <2>2, <2>3 DEF InsertUser
<1>5. CASE LinkPlot(q)
  <2>1. request[q] \in Acceptances
    BY <1>1, <1>5 DEF LinkPlot, Idle
  <2>2. [request[q] EXCEPT !.op = "linked"] \in Acceptances
    BY <2>1 DEF Acceptances
  <2> QED
    BY <1>2, <1>5, <2>2 DEF LinkPlot
<1>6. CASE Accept(q)
  <2> DEFINE i == request[q].invite
             u == request[q].user
  <2>1. request[q] \in Acceptances /\ i \in Sent
    BY <1>1, <1>6 DEF Accept, Idle, RequestsFound
  <2>2. i \in Invites /\ u \in Users \cup {NoAccount} /\ invites[i] \in InviteRows
    BY <2>1 DEF Acceptances, Sent, TypeOK
  <2>3. NewAccount(i) \in AccountRows /\ [invites[i] EXCEPT !.accepted = TRUE] \in InviteRows
    BY <2>2 DEF NewAccount, InviteRows, AccountRows, Roles
  <2>4. /\ accounts' = [accounts EXCEPT ![u] = NewAccount(i)]
        /\ plots' = Linked(invites[i].plot, u)
        /\ invites' = [invites EXCEPT ![i] = [invites[i] EXCEPT !.accepted = TRUE]]
        /\ request' = [request EXCEPT ![q] = Idle]
        /\ page' = page
    BY <1>6, <2>2 DEF Accept, TypeOK
  <2>5. accounts' \in [Users -> AccountRows \cup {NoAccount}]
    BY <2>3, <2>4 DEF TypeOK
  <2>6. invites' \in [Invites -> InviteRows \cup {NoInvite}]
    BY <2>2, <2>3, <2>4 DEF TypeOK
  <2>7. plots' \in [Plots -> PlotRows \cup {NoPlot}]
    <3> DEFINE p == invites[i].plot
               row == [plots[p] EXCEPT !.owner = u, !.status = "sold"]
    <3>1. CASE p = NoPlot
      BY <2>4, <3>1 DEF Linked, TypeOK
    <3>2. CASE p # NoPlot
      <4>1. plots[p] \in PlotRows /\ p \in Plots
        BY <2>1, <3>2 DEF InvitesEntitled, Entitled, Listed, TypeOK
      <4>2. row \in PlotRows
        BY <4>1, <2>2 DEF PlotRows, OwnershipAssumption
      <4>3. plots' = [plots EXCEPT ![p] = row]
        BY <2>4, <3>2, <4>1 DEF Linked, TypeOK
      <4> HIDE DEF row, p
      <4> QED
        BY <4>1, <4>2, <4>3 DEF TypeOK
    <3> QED
      BY <3>1, <3>2
  <2> QED
    BY <2>4, <2>5, <2>6, <2>7 DEF TypeOK
<1>7. CASE Abort(q)
  BY <1>2, <1>7 DEF Abort
<1> QED
  BY <1>3, <1>4, <1>5, <1>6, <1>7 DEF Acceptance

-----------------------------------------------------------------------------
(* The register: plots come and change, under the owners they have *)

\* What a step on the register does to what the proofs speak of.
LEMMA RegisterSteps ==
    ASSUME TypeOK, NoPlotAssumption, Register
    PROVE  /\ UNCHANGED <<accounts, invites, request>>
           /\ Listed \subseteq Listed'
           /\ \A p \in Listed : /\ plots'[p].society = plots[p].society
                                /\ plots'[p].owner = plots[p].owner
           /\ \A p \in Listed' \ Listed : plots'[p].owner = NoAccount
<1>1. ASSUME NEW u \in Users, NEW p \in Plots, NEW s \in Societies, NEW no \in Numbers,
             NEW status \in Statuses, CreatePlot(u, p, s, no, status)
      PROVE  /\ UNCHANGED <<accounts, invites, request>>
             /\ p \notin Listed
             /\ \A r \in Plots \ {p} : plots'[r] = plots[r]
             /\ plots'[p] # NoPlot /\ plots'[p].owner = NoAccount
  <2> DEFINE row == [society |-> s, no |-> no, status |-> status,
                     notes |-> p \in Noted, owner |-> NoAccount]
  <2>1. row \in PlotRows /\ row.owner = NoAccount
    BY DEF PlotRows
  <2>2. row # NoPlot
    BY <2>1, NoPlotAssumption
  <2>3. p \notin Listed /\ plots' = [plots EXCEPT ![p] = row]
        /\ UNCHANGED <<accounts, invites, request>>
    BY <1>1 DEF CreatePlot
  <2> HIDE DEF row
  <2> QED
    BY <2>1, <2>2, <2>3 DEF TypeOK
<1>2. ASSUME NEW c \in Clerks, LoadPage(c)
      PROVE  UNCHANGED <<accounts, invites, request, plots>>
  BY <1>2 DEF LoadPage
<1>3. ASSUME NEW c \in Clerks, NEW p \in Plots, NEW next \in Statuses,
             SetPlotStatus(c, p, next)
      PROVE  /\ UNCHANGED <<accounts, invites, request>>
             /\ p \in Listed
             /\ \A r \in Plots \ {p} : plots'[r] = plots[r]
             /\ plots'[p] # NoPlot
             /\ plots'[p].society = plots[p].society /\ plots'[p].owner = plots[p].owner
  <2> DEFINE old == plots[p]
             row == [old EXCEPT !.no = page[c][p].no, !.status = next, !.notes = FALSE]
  <2>1. p \in Listed
    BY <1>3, NoBuilderAssumption DEF SetPlotStatus, TenantOf, Permits
  <2>2. old \in PlotRows
    BY <2>1 DEF Listed, TypeOK
  <2>3. DOMAIN row = DOMAIN old /\ row.society = old.society /\ row.owner = old.owner
    BY <2>2 DEF PlotRows
  <2>4. page[c][p] \in [no: Numbers, status: Statuses]
    BY <1>3 DEF SetPlotStatus, TypeOK
  <2>5. row \in PlotRows
    BY <2>2, <2>4 DEF PlotRows
  <2>6. plots' = [plots EXCEPT ![p] = row] /\ UNCHANGED <<accounts, invites, request>>
    BY <1>3 DEF SetPlotStatus, TypeOK
  <2> HIDE DEF row
  <2> QED
    BY <2>1, <2>3, <2>5, <2>6, NoPlotAssumption DEF TypeOK
<1>4. CASE UNCHANGED <<accounts, invites, request, plots>>
  BY <1>4 DEF Listed
<1> QED
  BY <1>1, <1>2, <1>3, <1>4 DEF Register, Listed

\* What is not about plots depends on accounts, invitations and acceptances.
LEMMA SamePeople ==
    ASSUME OwnershipInv, UNCHANGED <<accounts, invites, request>>
    PROVE  /\ RequestsFound' /\ InsertedIsNew' /\ TransactionsApart'
           /\ AccountsInvited' /\ InviteOnce'
BY DEF OwnershipInv, RequestsFound, InsertedIsNew, TransactionsApart, AccountsInvited,
       InviteOnce, InTransaction, InviteIn, Taken, People, Sent

LEMMA RegisterKeeps ==
    ASSUME OwnershipAssumption, NoPlotAssumption, OwnershipInv, Register
    PROVE  OwnershipInv'
<1>1. /\ UNCHANGED <<accounts, invites, request>>
      /\ Listed \subseteq Listed'
      /\ \A p \in Listed : /\ plots'[p].society = plots[p].society
                           /\ plots'[p].owner = plots[p].owner
      /\ \A p \in Listed' \ Listed : plots'[p].owner = NoAccount
  BY RegisterSteps DEF OwnershipInv
<1>2. TypeOK'
  BY RegisterTypes DEF OwnershipInv
<1>3. People' = People /\ Sent' = Sent
  BY <1>1 DEF People, Sent
<1>4. \A p \in Listed : TenantOf(p)' = TenantOf(p)
  BY <1>1 DEF TenantOf
<1>5. \A u \in Users : Identity(u)' = Identity(u)
  BY <1>1 DEF Identity
<1>6. InvitesEntitled'
  <2>1. ASSUME NEW i \in Sent PROVE Entitled(i)'
    <3>1. Entitled(i)
      BY DEF OwnershipInv, InvitesEntitled
    <3>2. CASE invites[i].role = "owner"
      <4>1. /\ invites[i].by \in Users /\ invites[i].plot \in Listed
            /\ Permits(Identity(invites[i].by), TenantOf(invites[i].plot))
        BY <3>1, <3>2 DEF Entitled, People
      <4>2. Permits(Identity(invites[i].by), TenantOf(invites[i].plot))'
        BY <1>1, <1>4, <1>5, <4>1 DEF Permits
      <4> QED
        BY <1>1, <1>3, <3>1, <3>2, <4>1, <4>2 DEF Entitled
    <3>3. CASE invites[i].role # "owner"
      BY <1>1, <1>3, <3>1, <3>3 DEF Entitled
    <3> QED
      BY <3>2, <3>3
  <2> QED
    BY <1>3, <2>1 DEF InvitesEntitled
<1>7. OwnersInvited'
  BY <1>1, <1>3 DEF OwnershipInv, OwnersInvited
<1>8. StrandedByRivalsOnly'
  <2>1. ASSUME NEW u \in People, accounts[u].role = "owner"
        PROVE  invites[accounts[u].via].plot \in Listed
    BY <2>1 DEF OwnershipInv, AccountsInvited, InvitesEntitled, Entitled
  <2> QED
    BY <1>1, <1>3, <2>1 DEF OwnershipInv, StrandedByRivalsOnly
<1> QED
  BY <1>1, <1>2, <1>6, <1>7, <1>8, SamePeople DEF OwnershipInv

-----------------------------------------------------------------------------
(* Invitations are sent and grow old *)

\* What an invitation says, its age left aside.
Says(i) == [email |-> invites[i].email, role |-> invites[i].role,
            builder |-> invites[i].builder, plot |-> invites[i].plot,
            by |-> invites[i].by, accepted |-> invites[i].accepted]

\* A new invitation is not burned, and made by somebody entitled to make it.
LEMMA CreateInviteEntitled ==
    ASSUME OwnershipAssumption, NoInviteAssumption, OwnershipInv,
           NEW u \in Users, NEW i \in Invites, NEW email \in Emails, NEW p \in Plots,
           NEW role \in {"builder_admin", "builder_staff", "owner"},
           CreateInvite(u, i, email, role, p)
    PROVE  /\ UNCHANGED <<accounts, plots, request>>
           /\ Sent' = Sent \cup {i} /\ i \notin Sent
           /\ \A j \in Sent : Says(j)' = Says(j)
           /\ ~invites'[i].accepted /\ Entitled(i)'
<1> DEFINE row == [email |-> email, role |-> role,
                   builder |-> IF role = "owner" THEN NoBuilder ELSE accounts[u].builder,
                   plot |-> IF role = "owner" THEN p ELSE NoPlot,
                   by |-> u, left |-> InviteTTL, accepted |-> FALSE]
<1>1. accounts[u] \in AccountRows /\ u \in People
  BY DEF CreateInvite, MayInvite, IsStaffMember, People, OwnershipInv, TypeOK
<1>2. row \in InviteRows
  BY <1>1 DEF InviteRows, AccountRows, OwnershipAssumption
<1>3. role = "owner" => p \in Listed
  BY NoBuilderAssumption DEF CreateInvite, MayInvite, TenantOf, Permits
<1>4. /\ ~row.accepted /\ row.by = u /\ row.role = role
      /\ row.role = "owner" => row.plot = p
      /\ row.role # "owner" => row.plot = NoPlot /\ row.builder = accounts[u].builder
  OBVIOUS
<1> HIDE DEF row
<1>5. /\ invites' = [invites EXCEPT ![i] = row] /\ i \notin Sent
      /\ UNCHANGED <<accounts, plots, page, request>>
  BY DEF CreateInvite, row
<1>6. invites'[i] = row /\ \A j \in Invites \ {i} : invites'[j] = invites[j]
  BY <1>5 DEF OwnershipInv, TypeOK
<1>7. Sent' = Sent \cup {i}
  BY <1>2, <1>6, NoInviteAssumption DEF Sent
<1>8. \A j \in Sent : Says(j)' = Says(j)
  BY <1>5, <1>6 DEF Says, Sent
<1>9. Entitled(i)'
  <2>1. People' = People /\ Listed' = Listed
    BY <1>5 DEF People, Listed
  <2>2. CASE role = "owner"
    <3>1. Permits(Identity(u), TenantOf(p))
      BY <2>2 DEF CreateInvite, MayInvite
    <3>2. Permits(Identity(u), TenantOf(p))'
      BY <1>5, <2>1, <3>1 DEF Permits, Identity, TenantOf
    <3> QED
      BY <1>1, <1>3, <1>4, <1>6, <2>1, <2>2, <3>2 DEF Entitled
  <2>3. CASE role # "owner"
    BY <1>1, <1>4, <1>5, <1>6, <2>1, <2>3 DEF Entitled, CreateInvite, MayInvite
  <2> QED
    BY <2>2, <2>3
<1> QED
  BY <1>4, <1>5, <1>6, <1>7, <1>8, <1>9

LEMMA TickKeepsWords ==
    ASSUME OwnershipAssumption, NoInviteAssumption, TypeOK, Tick
    PROVE  /\ UNCHANGED <<accounts, plots, request>>
           /\ Sent' = Sent
           /\ \A i \in Sent : Says(i)' = Says(i)
<1>1. ASSUME NEW i \in Sent
      PROVE  invites'[i] # NoInvite /\ Says(i)' = Says(i)
  <2> DEFINE old == invites[i]
             aged == [old EXCEPT !.left = @ - 1]
  <2>1. old \in InviteRows
    BY DEF Sent, TypeOK
  <2>2. /\ aged.email = old.email /\ aged.role = old.role /\ aged.builder = old.builder
        /\ aged.plot = old.plot /\ aged.by = old.by /\ aged.accepted = old.accepted
    BY <2>1 DEF InviteRows
  <2>3. invites'[i] = IF old.left > 0 THEN aged ELSE old
    BY DEF Tick, Sent
  <2>4. invites'[i] # NoInvite
    <3>1. CASE old.left > 0
      <4>1. old.left - 1 \in 0..InviteTTL
        BY <2>1, <3>1 DEF InviteRows, OwnershipAssumption
      <4>2. aged \in InviteRows
        BY <2>1, <4>1 DEF InviteRows
      <4> QED
        BY <2>3, <3>1, <4>2, NoInviteAssumption
    <3>2. CASE ~(old.left > 0)
      BY <2>1, <2>3, <3>2, NoInviteAssumption
    <3> QED
      BY <3>1, <3>2
  <2> HIDE DEF aged
  <2> QED
    BY <2>2, <2>3, <2>4 DEF Says
<1>2. \A i \in Invites \ Sent : invites'[i] = NoInvite
  BY DEF Tick, Sent
<1>3. Sent' = Sent
  BY <1>1, <1>2 DEF Sent
<1> QED
  BY <1>1, <1>3 DEF Tick

\* Invitations that keep what they say, and new ones that nobody has found,
\* leave everything as it is.
LEMMA InvitationsKeep ==
    ASSUME OwnershipAssumption, NoPlotAssumption, NoInviteAssumption, OwnershipInv,
           \/ \E u \in Users, i \in Invites, email \in Emails, p \in Plots,
                 role \in {"builder_admin", "builder_staff", "owner"} :
                    CreateInvite(u, i, email, role, p)
           \/ Tick
    PROVE  OwnershipInv'
<1>1. /\ UNCHANGED <<accounts, plots, request>>
      /\ Sent \subseteq Sent'
      /\ \A i \in Sent : Says(i)' = Says(i)
      /\ \A i \in Sent' \ Sent : ~invites'[i].accepted /\ Entitled(i)'
  BY TickKeepsWords, CreateInviteEntitled DEF OwnershipInv
<1>2. TypeOK'
  BY InvitationTypes DEF OwnershipInv
<1>3. People' = People /\ Listed' = Listed
  BY <1>1 DEF People, Listed
<1>4. \A i \in Sent : /\ invites'[i].email = invites[i].email
                      /\ invites'[i].role = invites[i].role
                      /\ invites'[i].builder = invites[i].builder
                      /\ invites'[i].plot = invites[i].plot
                      /\ invites'[i].by = invites[i].by
                      /\ invites'[i].accepted = invites[i].accepted
  BY <1>1 DEF Says
<1>5. \A q \in Requests : InTransaction(q) =>
         request[q].invite \in Sent /\ InviteIn(q)'.email = InviteIn(q).email
  BY <1>1, <1>4 DEF OwnershipInv, RequestsFound, InTransaction, InviteIn, Idle
<1>6. RequestsFound' /\ InsertedIsNew' /\ TransactionsApart'
  BY <1>1, <1>3, <1>5
     DEF OwnershipInv, RequestsFound, InsertedIsNew, TransactionsApart, InTransaction, Taken
<1>7. AccountsInvited' /\ OwnersInvited'
  BY <1>1, <1>3, <1>4 DEF OwnershipInv, AccountsInvited, OwnersInvited
<1>8. InvitesEntitled'
  <2>1. ASSUME NEW i \in Sent PROVE Entitled(i)'
    BY <1>1, <1>3, <1>4
       DEF OwnershipInv, InvitesEntitled, Entitled, Permits, Identity, TenantOf
  <2> QED
    BY <1>1, <2>1 DEF InvitesEntitled
<1>9. InviteOnce'
  <2>1. \A i \in Sent' \ Sent, u \in People : accounts[u].via # i
    BY NoInviteAssumption, OwnershipAssumption
       DEF OwnershipInv, AccountsInvited, OwnershipAssumption, Sent
  <2> QED
    BY <1>1, <1>3, <1>4, <2>1 DEF OwnershipInv, InviteOnce
<1>10. StrandedByRivalsOnly'
  <2>1. \A u \in People : accounts[u].role = "owner" => accounts[u].via \in Sent
    BY DEF OwnershipInv, AccountsInvited
  <2>2. ASSUME NEW u \in People, accounts[u].role = "owner"
        PROVE  LET p == invites'[accounts[u].via].plot
               IN  \/ plots[p].owner = u
                   \/ \E v \in People \ {u} :
                         plots[p].owner = v /\ invites'[accounts[v].via].plot = p
    <3> DEFINE p == invites[accounts[u].via].plot
    <3>1. p = invites'[accounts[u].via].plot /\ p \in Listed
      BY <1>4, <2>1, <2>2 DEF OwnershipInv, AccountsInvited, InvitesEntitled, Entitled
    <3>2. CASE plots[p].owner = u
      BY <3>1, <3>2
    <3>3. ASSUME NEW v \in People \ {u}, plots[p].owner = v
          PROVE  invites'[accounts[v].via].plot = p
      BY <1>4, <3>1, <3>3 DEF OwnershipInv, OwnersInvited, TypeOK, People
    <3> QED
      BY <2>2, <3>1, <3>2, <3>3 DEF OwnershipInv, StrandedByRivalsOnly
  <2> QED
    BY <1>1, <1>3, <2>2 DEF StrandedByRivalsOnly
<1> QED
  BY <1>2, <1>6, <1>7, <1>8, <1>9, <1>10 DEF OwnershipInv

-----------------------------------------------------------------------------
(* Acceptances *)

\* An acceptance that goes on by itself, holding what nobody has or holds.
LEMMA RequestKeeps ==
    ASSUME OwnershipInv, TypeOK', NEW q \in Requests, NEW new,
           UNCHANGED <<accounts, invites, plots>>, request' = [request EXCEPT ![q] = new],
           new # Idle => new.invite \in Sent,
           new.op \in {"created", "linked"} =>
              /\ new.user \in Users \ People
              /\ ~Taken(invites[new.invite].email)
              /\ \A r \in Requests \ {q} : InTransaction(r) =>
                    /\ request[r].user # new.user
                    /\ InviteIn(r).email # invites[new.invite].email
    PROVE  OwnershipInv'
<1>1. request'[q] = new /\ \A r \in Requests \ {q} : request'[r] = request[r]
  BY DEF OwnershipInv, TypeOK
<1>2. People' = People /\ Sent' = Sent /\ Listed' = Listed
  BY DEF People, Sent, Listed
<1>3. \A r \in Requests \ {q} : InTransaction(r)' = InTransaction(r)
  BY <1>1 DEF InTransaction
<1>4. InTransaction(q)' => new.op \in {"created", "linked"}
  BY <1>1 DEF InTransaction
<1>5. /\ \A r \in Requests \ {q} : InviteIn(r)' = InviteIn(r)
      /\ InviteIn(q)' = invites[new.invite]
  BY <1>1 DEF InviteIn
<1>6. \A e : Taken(e)' = Taken(e)
  BY <1>2 DEF Taken
<1>7. RequestsFound'
  BY <1>1, <1>2 DEF OwnershipInv, RequestsFound
<1>8. InsertedIsNew'
  BY <1>1, <1>2, <1>3, <1>4, <1>5, <1>6 DEF OwnershipInv, InsertedIsNew
<1>9. TransactionsApart'
  BY <1>1, <1>3, <1>4, <1>5 DEF OwnershipInv, TransactionsApart
<1>10. AccountsInvited' /\ OwnersInvited' /\ InviteOnce' /\ StrandedByRivalsOnly'
  BY <1>2 DEF OwnershipInv, AccountsInvited, OwnersInvited, InviteOnce, StrandedByRivalsOnly
<1>11. InvitesEntitled'
  BY <1>2 DEF OwnershipInv, InvitesEntitled, Entitled, Permits, Identity, TenantOf
<1> QED
  BY <1>7, <1>8, <1>9, <1>10, <1>11 DEF OwnershipInv

LEMMA FindingKeeps ==
    ASSUME OwnershipInv, TypeOK', NEW q \in Requests,
           \/ \E i \in Invites : FindInvite(q, i)
           \/ \E u \in Users : InsertUser(q, u)
           \/ LinkPlot(q) \/ Abort(q)
    PROVE  OwnershipInv'
<1>1. ASSUME request' = [request EXCEPT ![q] = Idle], UNCHANGED <<accounts, invites, plots>>
      PROVE  OwnershipInv'
  <2>1. Idle.op \notin {"created", "linked"}
    BY DEF Idle
  <2> QED
    BY <1>1, <2>1, RequestKeeps
<1>2. ASSUME NEW i \in Invites, FindInvite(q, i) PROVE OwnershipInv'
  <2> DEFINE new == [op |-> "invited", invite |-> i, user |-> NoAccount]
  <2>1. new.invite = i /\ new.op = "invited"
    OBVIOUS
  <2>2. i \in Sent /\ request' = [request EXCEPT ![q] = new]
        /\ UNCHANGED <<accounts, invites, plots>>
    BY <1>2 DEF FindInvite
  <2> HIDE DEF new
  <2> QED
    BY <2>1, <2>2, RequestKeeps
<1>3. ASSUME NEW u \in Users, InsertUser(q, u) PROVE OwnershipInv'
  <2> DEFINE e == InviteIn(q).email
             new == [request[q] EXCEPT !.op = "created", !.user = u]
  <2>0. request[q].op = "invited"
    BY <1>3 DEF InsertUser
  <2>1. request[q] \in Acceptances /\ request[q] # Idle
    BY <2>0 DEF OwnershipInv, TypeOK, Idle
  <2>2. new.op = "created" /\ new.user = u /\ new.invite = request[q].invite
    BY <2>1 DEF Acceptances
  <2>3. UNCHANGED <<accounts, invites, plots>>
    BY <1>3 DEF InsertUser
  <2>4. CASE request' = [request EXCEPT ![q] = Idle]
    BY <1>1, <2>3, <2>4
  <2>5. CASE request' = [request EXCEPT ![q] = new] /\ ~Taken(e)
    <3>1. u \in Users \ People /\ \A r \in Requests : InTransaction(r) => request[r].user # u
      BY <1>3 DEF InsertUser
    <3>2. \A r \in Requests : InTransaction(r) => InviteIn(r).email # e
      BY <1>3 DEF InsertUser, HeldEmails
    <3>3. request[q].invite \in Sent
      BY <2>1 DEF OwnershipInv, RequestsFound
    <3>4. e = invites[new.invite].email
      BY <2>2 DEF InviteIn
    <3> HIDE DEF new, e
    <3> QED
      BY <2>2, <2>3, <2>5, <3>1, <3>2, <3>3, <3>4, RequestKeeps
  <2> QED
    BY <1>3, <2>4, <2>5 DEF InsertUser
<1>4. CASE LinkPlot(q)
  <2> DEFINE new == [request[q] EXCEPT !.op = "linked"]
  <2>1. request[q] \in Acceptances /\ request[q] # Idle /\ InTransaction(q)
    BY <1>4 DEF LinkPlot, OwnershipInv, TypeOK, Idle, InTransaction
  <2>2. new.user = request[q].user /\ new.invite = request[q].invite
    BY <2>1 DEF Acceptances
  <2>3. UNCHANGED <<accounts, invites, plots>> /\ request' = [request EXCEPT ![q] = new]
    BY <1>4 DEF LinkPlot
  <2>4. request[q].invite \in Sent
    BY <2>1 DEF OwnershipInv, RequestsFound
  <2>5. request[q].user \in Users \ People /\ ~Taken(invites[new.invite].email)
    BY <2>1, <2>2 DEF OwnershipInv, InsertedIsNew, InviteIn
  <2>6. \A r \in Requests \ {q} : InTransaction(r) =>
           /\ request[r].user # request[q].user
           /\ InviteIn(r).email # invites[new.invite].email
    BY <2>1, <2>2 DEF OwnershipInv, TransactionsApart, InviteIn
  <2> HIDE DEF new
  <2> QED
    BY <2>2, <2>3, <2>4, <2>5, <2>6, RequestKeeps
<1>5. CASE Abort(q)
  BY <1>1, <1>5 DEF Abort
<1> QED
  BY <1>2, <1>3, <1>4, <1>5

\* What the commit changes.
LEMMA AcceptSteps ==
    ASSUME OwnershipAssumption, NoPlotAssumption, NoInviteAssumption, OwnershipInv,
           NEW q \in Requests, Accept(q),
           NEW i, i = request[q].invite, NEW u, u = request[q].user
    PROVE  /\ i \in Sent /\ u \in Users \ People /\ ~Taken(invites[i].email)
           /\ accounts'[u] = NewAccount(i) /\ People' = People \cup {u}
           /\ \A v \in People : accounts'[v] = accounts[v]
           /\ Sent' = Sent
           /\ \A j \in Sent \ {i} : invites'[j] = invites[j]
           /\ invites'[i].accepted
           /\ invites'[i].email = invites[i].email /\ invites'[i].role = invites[i].role
           /\ invites'[i].builder = invites[i].builder
           /\ invites'[i].plot = invites[i].plot /\ invites'[i].by = invites[i].by
           /\ request' = [request EXCEPT ![q] = Idle]
<1>1. request[q] \in Acceptances /\ request[q] # Idle /\ InTransaction(q)
  BY DEF Accept, OwnershipInv, TypeOK, Idle, InTransaction
<1>2. i \in Sent /\ u \in Users \ People /\ ~Taken(invites[i].email)
  BY <1>1 DEF OwnershipInv, RequestsFound, InsertedIsNew, InviteIn
<1>3. i \in Invites /\ invites[i] \in InviteRows
  BY <1>2 DEF Sent, OwnershipInv, TypeOK
<1>4. NewAccount(i) # NoAccount
  <2>1. NewAccount(i) \in AccountRows
    BY <1>3 DEF NewAccount, InviteRows, AccountRows, Roles
  <2> QED
    BY <2>1 DEF OwnershipAssumption
<1>5. /\ accounts' = [accounts EXCEPT ![u] = NewAccount(i)]
      /\ invites' = [invites EXCEPT ![i] = [invites[i] EXCEPT !.accepted = TRUE]]
      /\ request' = [request EXCEPT ![q] = Idle]
  BY <1>3 DEF Accept, OwnershipInv, TypeOK
<1>6. /\ accounts'[u] = NewAccount(i) /\ \A v \in Users \ {u} : accounts'[v] = accounts[v]
  BY <1>2, <1>5 DEF OwnershipInv, TypeOK
<1>7. People' = People \cup {u} /\ \A v \in People : accounts'[v] = accounts[v]
  BY <1>2, <1>4, <1>6 DEF People
<1> DEFINE burned == [invites[i] EXCEPT !.accepted = TRUE]
<1>8. /\ burned \in InviteRows /\ burned.accepted /\ burned.email = invites[i].email
      /\ burned.role = invites[i].role /\ burned.builder = invites[i].builder
      /\ burned.plot = invites[i].plot /\ burned.by = invites[i].by
  BY <1>3 DEF InviteRows
<1> HIDE DEF burned
<1>9. invites'[i] = burned /\ \A j \in Invites \ {i} : invites'[j] = invites[j]
  BY <1>3, <1>5 DEF OwnershipInv, TypeOK, burned
<1>10. Sent' = Sent /\ \A j \in Sent \ {i} : invites'[j] = invites[j]
  BY <1>2, <1>8, <1>9, NoInviteAssumption DEF Sent
<1> QED
  BY <1>2, <1>5, <1>6, <1>7, <1>8, <1>9, <1>10

LEMMA AcceptPlots ==
    ASSUME OwnershipAssumption, NoPlotAssumption, OwnershipInv,
           NEW q \in Requests, Accept(q),
           NEW i \in Sent, i = request[q].invite,
           NEW u \in Users, u = request[q].user
    PROVE  /\ Listed' = Listed
           /\ \A p \in Listed : /\ plots'[p].society = plots[p].society
                                /\ p # invites[i].plot => plots'[p].owner = plots[p].owner
           /\ invites[i].plot # NoPlot =>
                 /\ invites[i].plot \in Listed /\ plots'[invites[i].plot].owner = u
                 /\ invites[i].role = "owner"
<1> DEFINE p == invites[i].plot
<1>1. plots' = Linked(p, u)
  BY DEF Accept
<1>2. p # NoPlot => p \in Listed /\ invites[i].role = "owner"
  BY DEF OwnershipInv, InvitesEntitled, Entitled
<1> HIDE DEF p
<1>3. CASE p = NoPlot
  <2>1. plots' = plots
    BY <1>1, <1>3 DEF Linked
  <2> QED
    BY <1>3, <2>1 DEF Listed, p
<1>4. CASE p # NoPlot
  <2> DEFINE old == plots[p]
             row == [old EXCEPT !.owner = u, !.status = "sold"]
  <2>1. p \in Plots /\ old \in PlotRows
    BY <1>2, <1>4 DEF Listed, OwnershipInv, TypeOK
  <2>2. row \in PlotRows /\ row.owner = u /\ row.society = old.society
    BY <2>1 DEF PlotRows, OwnershipAssumption
  <2>3. plots' = [plots EXCEPT ![p] = row]
    BY <1>1, <1>4, <2>1 DEF Linked, OwnershipInv, TypeOK
  <2> HIDE DEF row
  <2>4. plots'[p] = row /\ \A r \in Plots \ {p} : plots'[r] = plots[r]
    BY <2>1, <2>3 DEF OwnershipInv, TypeOK
  <2>5. Listed' = Listed
    BY <1>2, <1>4, <2>2, <2>4, NoPlotAssumption DEF Listed
  <2> QED
    BY <1>2, <1>4, <2>2, <2>4, <2>5 DEF Listed, p
<1> QED
  BY <1>3, <1>4

LEMMA AcceptKeeps ==
    ASSUME OwnershipAssumption, NoPlotAssumption, NoInviteAssumption, OwnershipInv, TypeOK',
           NEW q \in Requests, Accept(q)
    PROVE  OwnershipInv'
<1> DEFINE i == request[q].invite
           u == request[q].user
<1>1. /\ i \in Sent /\ u \in Users \ People /\ ~Taken(invites[i].email)
      /\ accounts'[u] = NewAccount(i) /\ People' = People \cup {u}
      /\ \A v \in People : accounts'[v] = accounts[v]
      /\ Sent' = Sent
      /\ \A j \in Sent \ {i} : invites'[j] = invites[j]
      /\ invites'[i].accepted
      /\ invites'[i].email = invites[i].email /\ invites'[i].role = invites[i].role
      /\ invites'[i].builder = invites[i].builder
      /\ invites'[i].plot = invites[i].plot /\ invites'[i].by = invites[i].by
      /\ request' = [request EXCEPT ![q] = Idle]
  BY AcceptSteps
<1>2. /\ Listed' = Listed
      /\ \A p \in Listed : /\ plots'[p].society = plots[p].society
                           /\ p # invites[i].plot => plots'[p].owner = plots[p].owner
      /\ invites[i].plot # NoPlot =>
            /\ invites[i].plot \in Listed /\ plots'[invites[i].plot].owner = u
            /\ invites[i].role = "owner"
  BY <1>1, AcceptPlots
<1>3. /\ request'[q] = Idle /\ \A r \in Requests \ {q} : request'[r] = request[r]
      /\ InTransaction(q)
  BY <1>1 DEF OwnershipInv, TypeOK, Accept, InTransaction
<1>4. /\ accounts'[u].email = invites[i].email /\ accounts'[u].role = invites[i].role
      /\ accounts'[u].builder = invites[i].builder /\ accounts'[u].via = i
  BY <1>1 DEF NewAccount
<1>5. i # NoInvite /\ \A j \in Sent : j # NoInvite
  BY <1>1 DEF Sent, OwnershipAssumption
<1>6. \A v \in People : accounts[v].via # i
  BY <1>1, <1>5 DEF OwnershipInv, AccountsInvited, Taken
<1>7. \A j \in Sent : /\ invites'[j].email = invites[j].email
                      /\ invites'[j].role = invites[j].role
                      /\ invites'[j].builder = invites[j].builder
                      /\ invites'[j].plot = invites[j].plot
                      /\ invites'[j].by = invites[j].by
                      /\ j # i => invites'[j].accepted = invites[j].accepted
  BY <1>1
<1>8. InviteIn(q) = invites[i]
  BY DEF InviteIn
<1> HIDE DEF i, u
<1>9. RequestsFound'
  BY <1>1, <1>3 DEF OwnershipInv, RequestsFound
<1>10. \A r \in Requests : InTransaction(r)' =>
          /\ r # q /\ InTransaction(r) /\ request'[r] = request[r]
          /\ request[r].invite \in Sent /\ InviteIn(r)'.email = InviteIn(r).email
  <2>1. ASSUME NEW r \in Requests, InTransaction(r)'
        PROVE  r # q /\ InTransaction(r) /\ request'[r] = request[r]
    BY <1>3, <2>1 DEF InTransaction, Idle
  <2>2. ASSUME NEW r \in Requests, InTransaction(r) PROVE request[r].invite \in Sent
    BY <2>2 DEF OwnershipInv, RequestsFound, InTransaction, Idle
  <2> QED
    BY <1>7, <2>1, <2>2 DEF InviteIn
<1>11. InsertedIsNew'
  <2>1. ASSUME NEW r \in Requests, InTransaction(r)'
        PROVE  request'[r].user \in Users \ People' /\ ~(Taken(InviteIn(r).email)')
    <3>1. /\ request[r].user # u /\ InviteIn(r).email # invites[i].email
          /\ request[r].user \in Users \ People /\ ~Taken(InviteIn(r).email)
      BY <1>3, <1>8, <1>10, <2>1 DEF OwnershipInv, TransactionsApart, InsertedIsNew, u
    <3>2. ~(Taken(InviteIn(r).email)')
      BY <1>1, <1>4, <1>10, <2>1, <3>1 DEF Taken
    <3> QED
      BY <1>1, <1>10, <2>1, <3>1, <3>2
  <2> QED
    BY <2>1 DEF InsertedIsNew
<1>12. TransactionsApart'
  BY <1>10 DEF OwnershipInv, TransactionsApart
<1>13. AccountsInvited'
  BY <1>1, <1>4, <1>5, <1>7 DEF OwnershipInv, AccountsInvited
<1>14. InvitesEntitled'
  <2>1. ASSUME NEW j \in Sent PROVE Entitled(j)'
    BY <1>1, <1>2, <1>7
       DEF OwnershipInv, InvitesEntitled, Entitled, Permits, Identity, TenantOf
  <2> QED
    BY <1>1, <2>1 DEF InvitesEntitled
<1>15. OwnersInvited'
  <2>1. ASSUME NEW p \in Listed, plots'[p].owner # NoAccount
        PROVE  LET v == plots'[p].owner
               IN  /\ v \in People'
                   /\ accounts'[v].via \in Sent
                   /\ invites'[accounts'[v].via].plot = p
                   /\ invites'[accounts'[v].via].role = "owner"
    <3>1. CASE p = invites[i].plot
      <4>1. p # NoPlot
        BY DEF Listed, OwnershipAssumption
      <4> QED
        BY <1>1, <1>2, <1>4, <3>1, <4>1
    <3>2. CASE p # invites[i].plot
      BY <1>1, <1>2, <1>7, <2>1, <3>2 DEF OwnershipInv, OwnersInvited
    <3> QED
      BY <3>1, <3>2
  <2> QED
    BY <1>1, <1>2, <2>1 DEF OwnersInvited
<1>16. InviteOnce'
  <2>1. \A v, w \in People' :
           accounts'[v].via = accounts'[w].via /\ accounts'[v].via # NoInvite => v = w
    BY <1>1, <1>4, <1>6 DEF OwnershipInv, InviteOnce
  <2>2. \A j \in Sent : invites'[j].accepted <=> \E v \in People' : accounts'[v].via = j
    BY <1>1, <1>4, <1>6, <1>7 DEF OwnershipInv, InviteOnce
  <2> QED
    BY <1>1, <2>1, <2>2 DEF InviteOnce
<1>17. StrandedByRivalsOnly'
  <2>1. ASSUME NEW v \in People', accounts'[v].role = "owner"
        PROVE  LET p == invites'[accounts'[v].via].plot
               IN  \/ plots'[p].owner = v
                   \/ \E w \in People' \ {v} :
                         plots'[p].owner = w /\ invites'[accounts'[w].via].plot = p
    <3> DEFINE p == invites'[accounts'[v].via].plot
    <3>1. accounts'[v].via \in Sent /\ p \in Listed
      BY <1>1, <1>2, <1>13, <1>14, <2>1 DEF AccountsInvited, InvitesEntitled, Entitled
    <3>2. CASE p = invites[i].plot
      <4>1. p # NoPlot
        BY <3>1 DEF Listed, OwnershipAssumption
      <4> QED
        BY <1>1, <1>2, <1>4, <3>2, <4>1
    <3>3. CASE p # invites[i].plot
      <4>1. v \in People /\ accounts'[v] = accounts[v]
        BY <1>1, <1>4, <2>1, <3>3
      <4>2. p = invites[accounts[v].via].plot /\ plots'[p].owner = plots[p].owner
        BY <1>2, <1>7, <3>1, <3>3, <4>1
      <4>3. ASSUME NEW w \in People \ {v}, plots[p].owner = w
            PROVE  invites'[accounts'[w].via].plot = invites[accounts[w].via].plot
        <5>1. accounts[w].via \in Sent
          BY <3>1, <4>3 DEF OwnershipInv, OwnersInvited, TypeOK, People
        <5> QED
          BY <1>1, <1>7, <5>1
      <4>4. \/ plots[p].owner = v
            \/ \E w \in People \ {v} :
                  plots[p].owner = w /\ invites[accounts[w].via].plot = p
        <5>1. v \in People /\ accounts[v].role = "owner"
          BY <2>1, <4>1
        <5>2. LET r == invites[accounts[v].via].plot
              IN  \/ plots[r].owner = v
                  \/ \E w \in People \ {v} :
                        plots[r].owner = w /\ invites[accounts[w].via].plot = r
          BY <5>1 DEF OwnershipInv, StrandedByRivalsOnly
        <5> HIDE DEF p
        <5> QED
          BY <4>2, <5>2
      <4> QED
        BY <1>1, <4>2, <4>3, <4>4
    <3> QED
      BY <3>2, <3>3
  <2> QED
    BY <1>1, <2>1 DEF StrandedByRivalsOnly
<1> QED
  BY <1>9, <1>11, <1>12, <1>13, <1>14, <1>15, <1>16, <1>17 DEF OwnershipInv

-----------------------------------------------------------------------------

LEMMA OwnershipStep ==
    ASSUME OwnershipAssumption, NoPlotAssumption, NoInviteAssumption,
           OwnershipInv, [Next]_vars
    PROVE  OwnershipInv'
<1>1. ASSUME NEW q \in Requests, Acceptance(q) PROVE OwnershipInv'
  <2>1. TypeOK'
    BY <1>1, AcceptanceTypes DEF OwnershipInv
  <2> QED
    BY <1>1, <2>1, FindingKeeps, AcceptKeeps DEF Acceptance
<1>2. CASE UNCHANGED vars
  <2>1. TypeOK' /\ OwnersInvited' /\ StrandedByRivalsOnly'
    BY <1>2 DEF vars, OwnershipInv, TypeOK, OwnersInvited, StrandedByRivalsOnly, People, Sent,
                Listed
  <2>2. InvitesEntitled'
    BY <1>2 DEF vars, OwnershipInv, InvitesEntitled, Entitled, Permits, Identity, TenantOf,
                People, Sent, Listed
  <2> QED
    BY <1>2, <2>1, <2>2, SamePeople DEF vars, OwnershipInv
<1> QED
  BY <1>1, <1>2, RegisterKeeps, InvitationsKeep DEF Next

LEMMA OwnershipInit ==
    ASSUME OwnershipAssumption, Init PROVE OwnershipInv
<1>1. TypeOK
  BY TypesInit
<1>2. Sent = {} /\ Listed = {} /\ \A q \in Requests : request[q].op = "idle"
  BY DEF Init, Sent, Listed, Idle
<1>3. \A u \in People : accounts[u].via = NoInvite /\ accounts[u].role # "owner"
  BY DEF Init, People, OwnershipAssumption
<1>4. RequestsFound /\ InsertedIsNew /\ TransactionsApart
  BY <1>2 DEF Init, RequestsFound, InsertedIsNew, TransactionsApart, InTransaction
<1>5. AccountsInvited /\ InvitesEntitled /\ OwnersInvited
  BY <1>2, <1>3 DEF AccountsInvited, InvitesEntitled, OwnersInvited
<1>6. InviteOnce /\ StrandedByRivalsOnly
  BY <1>2, <1>3 DEF InviteOnce, StrandedByRivalsOnly
<1> QED
  BY <1>1, <1>4, <1>5, <1>6 DEF OwnershipInv

LEMMA OwnershipAlways == Spec => []OwnershipInv
<1>1. Init => OwnershipInv
  BY OwnershipInit, OwnershipAssumption
<1>2. OwnershipInv /\ [Next]_vars => OwnershipInv'
  BY OwnershipStep, OwnershipAssumption, NoPlotAssumption, NoInviteAssumption
<1> QED
  BY <1>1, <1>2, PTL DEF Spec

\* Every variable stays in its type (createInvite, acceptInvite, the register).
THEOREM OwnershipTypes == Spec => []TypeOK
<1>1. OwnershipInv => TypeOK
  BY DEF OwnershipInv
<1> QED
  BY <1>1, OwnershipAlways, PTL

\* However many people follow an invitation's link at the same time, one account
\* comes of it, and then it is burned (acceptInvite's lookup, INSERT and UPDATE).
THEOREM AcceptedOnce == Spec => []InviteOnce
<1>1. OwnershipInv => InviteOnce
  BY DEF OwnershipInv
<1> QED
  BY <1>1, OwnershipAlways, PTL

\* Every owner of a plot, and everybody invited to an office, was invited to it
\* by somebody entitled to (createInvite's checks, and nothing since undoes them).
THEOREM EntitledHold == Spec => []HeldByInvitation
<1>1. OwnershipInv => HeldByInvitation
  <2> SUFFICES ASSUME OwnershipInv PROVE HeldByInvitation
    OBVIOUS
  <2>1. ASSUME NEW p \in Listed, plots[p].owner # NoAccount
        PROVE  LET u == plots[p].owner
                   i == accounts[u].via
               IN  /\ u \in People /\ i \in Sent
                   /\ invites[i].plot = p /\ invites[i].role = "owner"
                   /\ Permits(Identity(invites[i].by), TenantOf(p))
    <3> DEFINE u == plots[p].owner
               i == accounts[u].via
    <3>1. u \in People /\ i \in Sent /\ invites[i].plot = p /\ invites[i].role = "owner"
      BY <2>1 DEF OwnershipInv, OwnersInvited
    <3>2. Permits(Identity(invites[i].by), TenantOf(p))
      BY <3>1 DEF OwnershipInv, InvitesEntitled, Entitled
    <3> QED
      BY <3>1, <3>2
  <2>2. ASSUME NEW u \in People, accounts[u].via # NoInvite, IsStaff(accounts[u].role)
        PROVE  LET by == invites[accounts[u].via].by
               IN  /\ CanManageBuilder(accounts[by].role)
                   /\ accounts[by].builder = accounts[u].builder
    <3>1. accounts[u].role # "owner"
      BY <2>2 DEF IsStaff
    <3> QED
      BY <2>2, <3>1 DEF OwnershipInv, AccountsInvited, InvitesEntitled, Entitled
  <2> QED
    BY <2>1, <2>2 DEF HeldByInvitation
<1> QED
  BY <1>1, OwnershipAlways, PTL

\* Whoever accepted an invitation to a plot owns it, unless another accepted one
\* too: no crash, timeout or edit of the register comes between (acceptInvite).
THEOREM OnlyRivalsStrand == Spec => []StrandedByRivalsOnly
<1>1. OwnershipInv => StrandedByRivalsOnly
  BY DEF OwnershipInv
<1> QED
  BY <1>1, OwnershipAlways, PTL

=============================================================================
