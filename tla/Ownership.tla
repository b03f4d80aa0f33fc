------------------------------- MODULE Ownership -------------------------------
(***************************************************************************)
(* How people come to have accounts and plots come to have owners: the     *)
(* invitations of internal/auth and the plot register of internal/plot,    *)
(* over the tables users, invites and plots, with the register's page      *)
(* web/src/pages/admin/Plots.tsx.                                          *)
(*                                                                         *)
(* Accepting an invitation is one transaction of three statements.  What   *)
(* it has written is invisible until it commits, and locked: an INSERT     *)
(* waits for another that has inserted the same e-mail address, an UPDATE  *)
(* for another that has updated the same plot.  Hence the stages           *)
(*   invited   the invitation was found, in a statement before             *)
(*   created   the account is inserted, its address locked                 *)
(*   linked    the plot is updated, its row locked                         *)
(* A transaction may be rolled back at any of them.                        *)
(***************************************************************************)
EXTENDS Integers, FiniteSets, Access

CONSTANTS Societies,
          BuilderOf,   \* societies.builder_id
          Plots,       \* bounds the rows of the table plots
          Noted,       \* those the site office keeps notes about
          Statuses,    \* of plots.status; "sold" is one of them
          Numbers,     \* plots.plot_no, and with it what else describes a plot
          NoPlot,
          Emails,
          Invites,     \* bounds the rows of the table invites
          NoInvite,
          InviteTTL,   \* lifetime of an invitation, in ticks
          First,       \* the accounts there are to begin with
          NoAccount,
          Clerks,      \* accounts at whose desks the register's page is open
          Requests     \* bounds the acceptances in flight

AccountRows == [email: Emails, role: Roles, builder: Builders \cup {NoBuilder},
                via: Invites \cup {NoInvite}]

\* The CHECK constraint staff_needs_builder.
StaffHasBuilder(role, builder) ==
    role \in {"owner", "super_admin"} \/ builder # NoBuilder

ASSUME OwnershipAssumption ==
    /\ BuilderOf \in [Societies -> Builders]
    /\ Noted \subseteq Plots
    /\ "sold" \in Statuses
    /\ NoPlot \notin Plots
    /\ NoInvite \notin Invites
    /\ InviteTTL \in Nat \ {0}
    /\ NoAccount \notin Users \cup AccountRows
    /\ Clerks \subseteq Users
    /\ First \in [Users -> AccountRows \cup {NoAccount}]
    /\ \A u, v \in Users : First[u] # NoAccount =>
          /\ First[u].via = NoInvite
          /\ StaffHasBuilder(First[u].role, First[u].builder)
          /\ First[u].role # "owner"
          /\ First[v] # NoAccount /\ First[u].email = First[v].email => u = v

VARIABLES accounts,  \* the table users; via is history: whence the account
          invites,   \* the table invites
          plots,     \* the table plots
          page,      \* the rows each clerk's page has loaded
          request    \* where each acceptance stands

vars == <<accounts, invites, plots, page, request>>

PlotRows == [society: Societies, no: Numbers, status: Statuses,
             notes: BOOLEAN, owner: Users \cup {NoAccount}]

ASSUME NoPlotAssumption == NoPlot \notin PlotRows

InviteRows == [email    : Emails,
               role     : {"builder_admin", "builder_staff", "owner"},
               builder  : Builders \cup {NoBuilder},
               plot     : Plots \cup {NoPlot},
               by       : Users,
               left     : 0..InviteTTL,
               accepted : BOOLEAN]

ASSUME NoInviteAssumption == NoInvite \notin InviteRows

Idle == [op |-> "idle"]

Acceptances == [op: {"invited", "created", "linked"}, invite: Invites,
                user: Users \cup {NoAccount}]

-----------------------------------------------------------------------------

People == {u \in Users : accounts[u] # NoAccount}
Sent   == {i \in Invites : invites[i] # NoInvite}
Listed == {p \in Plots : plots[p] # NoPlot}

\* The claims of u's access token: no code changes a role or a builder.
Identity(u) == [user |-> u, role |-> accounts[u].role,
                builder |-> accounts[u].builder]

IsStaffMember(u) == u \in People /\ IsStaff(accounts[u].role)

\* The builder Guard.Plot finds.
TenantOf(p) == IF p \in Listed THEN BuilderOf[plots[p].society] ELSE NoBuilder

InTransaction(q) == request[q].op \in {"created", "linked"}

InviteIn(q) == invites[request[q].invite]

\* Addresses and plots some transaction has written and not committed.
HeldEmails == {InviteIn(q).email : q \in {r \in Requests : InTransaction(r)}}

HeldPlots == {InviteIn(q).plot : q \in {r \in Requests : request[r].op = "linked"}}

Taken(email) == \E u \in People : accounts[u].email = email

\* UNIQUE (society_id, plot_no).
NumberTaken(p, s, no) ==
    \E r \in Listed \ {p} : plots[r].society = s /\ plots[r].no = no

-----------------------------------------------------------------------------

Init ==
    /\ accounts = First
    /\ invites = [i \in Invites |-> NoInvite]
    /\ plots = [p \in Plots |-> NoPlot]
    /\ page = [c \in Clerks |-> [p \in Plots |-> NoPlot]]
    /\ request = [q \in Requests |-> Idle]

(***************************************************************************)
(* The register                                                            *)
(***************************************************************************)

\* Handler.create of internal/plot; a number already taken is refused.
CreatePlot(u, p, s, no, status) ==
    /\ IsStaffMember(u)
    /\ Permits(Identity(u), BuilderOf[s])
    /\ p \notin Listed
    /\ ~NumberTaken(p, s, no)
    /\ plots' = [plots EXCEPT ![p] =
          [society |-> s, no |-> no, status |-> status,
           notes |-> p \in Noted, owner |-> NoAccount]]
    /\ UNCHANGED <<accounts, invites, page, request>>

\* The page loads the map's rows, which carry neither owners nor notes.
LoadPage(c) ==
    /\ IsStaffMember(c)
    /\ page' = [page EXCEPT ![c] = [p \in Plots |->
          IF p \in Listed THEN [no |-> plots[p].no, status |-> plots[p].status]
                          ELSE NoPlot]]
    /\ UNCHANGED <<accounts, invites, plots, request>>

\* setPlotStatus and Handler.update: the whole row goes out as it was loaded,
\* with the new status and without notes, and replaces what is there, except
\* for the owner, which no form carries.
SetPlotStatus(c, p, next) ==
    /\ IsStaffMember(c)
    /\ page[c][p] # NoPlot /\ page[c][p].status # next
    /\ Permits(Identity(c), TenantOf(p))
    /\ p \notin HeldPlots
    /\ ~NumberTaken(p, plots[p].society, page[c][p].no)
    /\ plots' = [plots EXCEPT ![p].no = page[c][p].no,
                              ![p].status = next,
                              ![p].notes = FALSE]
    /\ page' = [page EXCEPT ![c][p].status = next]
    /\ UNCHANGED <<accounts, invites, request>>

(***************************************************************************)
(* Invitations                                                             *)
(***************************************************************************)

\* Mutant of MayInvite: whoever is staff may appoint staff.
MayInviteAny(u, role, p) ==
    /\ IsStaffMember(u)
    /\ role = "owner" => Permits(Identity(u), TenantOf(p))

\* What createInvite lets through.
MayInvite(u, role, p) ==
    /\ IsStaffMember(u)
    /\ role # "owner" => CanManageBuilder(accounts[u].role)
    /\ role = "owner" => Permits(Identity(u), TenantOf(p))

\* An owner is bound to a plot, staff to the caller's builder.
CreateInvite(u, i, email, role, p) ==
    /\ MayInvite(u, role, p)
    /\ i \notin Sent
    /\ invites' = [invites EXCEPT ![i] =
          [email    |-> email,
           role     |-> role,
           builder  |-> IF role = "owner" THEN NoBuilder ELSE accounts[u].builder,
           plot     |-> IF role = "owner" THEN p ELSE NoPlot,
           by       |-> u,
           left     |-> InviteTTL,
           accepted |-> FALSE]]
    /\ UNCHANGED <<accounts, plots, page, request>>

\* acceptInvite up to the transaction: InviteByTokenHash.
FindInvite(q, i) ==
    /\ request[q] = Idle
    /\ i \in Sent /\ ~invites[i].accepted /\ invites[i].left > 0
    /\ request' = [request EXCEPT ![q] =
          [op |-> "invited", invite |-> i, user |-> NoAccount]]
    /\ UNCHANGED <<accounts, invites, plots, page>>

\* Mutant of InsertUser: users.email is not UNIQUE.
InsertUserAgain(q, u) ==
    /\ request[q].op = "invited"
    /\ u \notin People
    /\ \A r \in Requests : InTransaction(r) => request[r].user # u
    /\ request' = [request EXCEPT ![q].op = "created", ![q].user = u]
    /\ UNCHANGED <<accounts, invites, plots, page>>

\* INSERT INTO users: it waits for an uncommitted row with its address, and
\* fails, and the acceptance with it, on one that is there or on the CHECK.
InsertUser(q, u) ==
    /\ request[q].op = "invited"
    /\ u \notin People
    /\ \A r \in Requests : InTransaction(r) => request[r].user # u
    /\ InviteIn(q).email \notin HeldEmails
    /\ request' = [request EXCEPT ![q] =
          IF \/ Taken(InviteIn(q).email)
             \/ ~StaffHasBuilder(InviteIn(q).role, InviteIn(q).builder)
          THEN Idle
          ELSE [request[q] EXCEPT !.op = "created", !.user = u]]
    /\ UNCHANGED <<accounts, invites, plots, page>>

\* UPDATE plots, when the invitation names one.
LinkPlot(q) ==
    /\ request[q].op = "created"
    /\ InviteIn(q).plot = NoPlot \/ InviteIn(q).plot \notin HeldPlots
    /\ request' = [request EXCEPT ![q].op = "linked"]
    /\ UNCHANGED <<accounts, invites, plots, page>>

NewAccount(i) == [email |-> invites[i].email, role |-> invites[i].role,
                  builder |-> invites[i].builder, via |-> i]

\* The register with u as the owner of p.
Linked(p, u) ==
    IF p = NoPlot THEN plots
                  ELSE [plots EXCEPT ![p].owner = u, ![p].status = "sold"]

\* Mutant of Accept: the plot is linked outside the transaction, if it is free.
AcceptUnlinked(q) ==
    LET i == request[q].invite
        u == request[q].user
    IN  /\ request[q].op = "linked"
        /\ accounts' = [accounts EXCEPT ![u] = NewAccount(i)]
        /\ plots' = IF invites[i].plot # NoPlot /\ plots[invites[i].plot].status = "sold"
                    THEN plots ELSE Linked(invites[i].plot, u)
        /\ invites' = [invites EXCEPT ![i].accepted = TRUE]
        /\ request' = [request EXCEPT ![q] = Idle]
        /\ UNCHANGED page

\* UPDATE invites and COMMIT: everything becomes visible at once.
Accept(q) ==
    LET i == request[q].invite
        u == request[q].user
    IN  /\ request[q].op = "linked"
        /\ accounts' = [accounts EXCEPT ![u] = NewAccount(i)]
        /\ plots' = Linked(invites[i].plot, u)
        /\ invites' = [invites EXCEPT ![i].accepted = TRUE]
        /\ request' = [request EXCEPT ![q] = Idle]
        /\ UNCHANGED page

\* The client has gone or the process has died: ROLLBACK.
Abort(q) ==
    /\ request[q] # Idle
    /\ request' = [request EXCEPT ![q] = Idle]
    /\ UNCHANGED <<accounts, invites, plots, page>>

\* Time passes, down to invites.expires_at.
Tick ==
    /\ invites' = [i \in Invites |->
                      IF i \in Sent /\ invites[i].left > 0
                      THEN [invites[i] EXCEPT !.left = @ - 1]
                      ELSE invites[i]]
    /\ UNCHANGED <<accounts, plots, page, request>>

Register ==
    \/ \E u \in Users, p \in Plots, s \in Societies, no \in Numbers,
          status \in Statuses : CreatePlot(u, p, s, no, status)
    \/ \E c \in Clerks :
          \/ LoadPage(c)
          \/ \E p \in Plots, next \in Statuses : SetPlotStatus(c, p, next)

Acceptance(q) ==
    \/ \E i \in Invites : FindInvite(q, i)
    \/ \E u \in Users : InsertUser(q, u)
    \/ LinkPlot(q)
    \/ Accept(q)
    \/ Abort(q)

Next ==
    \/ Register
    \/ \E u \in Users, i \in Invites, email \in Emails, p \in Plots,
          role \in {"builder_admin", "builder_staff", "owner"} :
             CreateInvite(u, i, email, role, p)
    \/ \E q \in Requests : Acceptance(q)
    \/ Tick

Spec == Init /\ [][Next]_vars

-----------------------------------------------------------------------------
(* Properties *)

\* Every variable stays in its type.
TypeOK ==
    /\ accounts \in [Users -> AccountRows \cup {NoAccount}]
    /\ invites \in [Invites -> InviteRows \cup {NoInvite}]
    /\ plots \in [Plots -> PlotRows \cup {NoPlot}]
    /\ page \in [Clerks -> [Plots -> [no: Numbers, status: Statuses] \cup {NoPlot}]]
    /\ request \in [Requests -> {Idle} \cup Acceptances]

\* "An invite is single use": though it is looked up in one statement and
\* burned, unconditionally, in another, no invitation makes two accounts, and
\* it makes one exactly if it is burned.
InviteOnce ==
    /\ \A u, v \in People :
          accounts[u].via = accounts[v].via /\ accounts[u].via # NoInvite => u = v
    /\ \A i \in Sent :
          invites[i].accepted <=> \E u \in People : accounts[u].via = i

\* Nobody owns a plot or holds an office but by a chain of people entitled to
\* give it: an owner was invited to that very plot by staff of its builder,
\* staff by an admin of their own builder.
HeldByInvitation ==
    /\ \A p \in Listed : plots[p].owner # NoAccount =>
          /\ plots[p].owner \in People
          /\ LET i == accounts[plots[p].owner].via
             IN  /\ i \in Sent
                 /\ invites[i].plot = p
                 /\ invites[i].role = "owner"
                 /\ Permits(Identity(invites[i].by), TenantOf(p))
    /\ \A u \in People : accounts[u].via # NoInvite /\ IsStaff(accounts[u].role) =>
          LET by == invites[accounts[u].via].by
          IN  /\ CanManageBuilder(accounts[by].role)
              /\ accounts[by].builder = accounts[u].builder

\* "a half-accepted invite would strand the owner": whoever accepted an
\* invitation to a plot owns it, unless somebody else accepted one as well.
StrandedByRivalsOnly ==
    \A u \in People : accounts[u].role = "owner" =>
        LET p == invites[accounts[u].via].plot
        IN  \/ plots[p].owner = u
            \/ \E v \in People \ {u} :
                  /\ plots[p].owner = v
                  /\ invites[accounts[v].via].plot = p

\* "the invite binds that person to that plot": no owner is left without one.
NobodyStranded ==
    \A u \in People : accounts[u].role = "owner" =>
        \E p \in Listed : plots[p].owner = u

\* "an unsold plot has nobody to bill".
UnsoldHasNoOwner ==
    \A p \in Listed : plots[p].status # "sold" => plots[p].owner = NoAccount

\* CanManageBuilder "covers inviting staff": whom createInvite invites, the
\* table users accepts.
InvitedStaffFit ==
    \A i \in Sent : StaffHasBuilder(invites[i].role, invites[i].builder)

\* "Editing it inline": to change a plot's status is not to erase the site
\* office's notes about it.
NotesKept == \A p \in Listed \cap Noted : plots[p].notes
=============================================================================
