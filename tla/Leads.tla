--------------------------------- MODULE Leads ---------------------------------
(***************************************************************************)
(* What a guest can do without an account, and the board it lands on:      *)
(* internal/lead over the tables societies and enquiries, and its limiter. *)
(*                                                                         *)
(* A guest asks for the listed project, sends an enquiry from its page and *)
(* is turned away after too many.  Each SQL statement is a transaction of  *)
(* its own; the landing page, the form and the board take two each, and    *)
(* anything can happen in between.  Nothing under src/ lists a society or  *)
(* takes it off the list: the operator does, at any moment.                *)
(***************************************************************************)
EXTENDS Projects

CONSTANTS EnquiryIds, NoEnquiry,   \* bound the rows ever written
          Progress,      \* validEnquiryStatus, as many as are used
          MaxEnquiries,  \* 5
          Window,        \* 1 hour
          MaxKeys,       \* 4096
          BoardLimit     \* the board's limit

ASSUME LeadsAssumption ==
    /\ "new" \in Progress
    /\ Progress \subseteq {"new", "contacted", "visit_scheduled", "converted", "lost"}
    /\ EnquiryIds \subseteq Nat
    /\ MaxEnquiries \in Nat \ {0} /\ Window \in Nat \ {0} /\ MaxKeys \in Nat
    /\ BoardLimit \in Nat \ {0}

VARIABLES listed,     \* societies.public_listing
          enquiries,  \* the table enquiries, by id; sent is history: when the
                      \* form was let through
          hits,       \* Handler.limiter: per guest, the attempts on record
          guest,      \* where each guest stands
          board       \* the answer to a request for the leads board

leadVars == <<listed, enquiries, hits, guest, board>>

Rows == [society: Societies, by: Guests, status: Progress, handler: Users \cup {NoBuilder},
         sent: Times]

ASSUME NoEnquiryAssumption == NoEnquiry \notin Rows

\* The attempts of one moment are told apart by number; a log is oldest first,
\* so a set of them says all there is to it.
Attempts == [at: Times, nth: Nat \ {0}]

Away == [op |-> "away"]

\* "slug": FirstPublic has read a slug; "page": the project's page is shown;
\* "form": the limiter let an enquiry through; "known": its society is listed.
Visits == [op: {"slug", "page", "form", "known"}, society: Societies, since: Times]

NoBoard == [op |-> "none"]

Boards == [op: {"listed", "counted"}, society: Societies, rows: SUBSET EnquiryIds, total: Nat]

-----------------------------------------------------------------------------

Listed == {s \in Societies : listed[s]}

Stored == {e \in EnquiryIds : enquiries[e] # NoEnquiry}

EnquiriesOf(s) == {e \in Stored : enquiries[e].society = s}

\* t.After(cutoff).
Recent(g) == {a \in hits[g] : a.at > now - Window}

\* append(kept, time.Now()).
Recorded(log) == log \cup {[at |-> now, nth |-> Cardinality({a \in log : a.at = now}) + 1]}

\* Mutant of HasBudget: one attempt too many.
HasBudgetAndOne(g) == Cardinality(Recent(g)) <= MaxEnquiries

HasBudget(g) == Cardinality(Recent(g)) < MaxEnquiries

\* Limiter.Allow records the attempt and, past MaxKeys keys, drops those whose
\* latest attempt lies outside the window.  No log stands for no key.
Swept(map) ==
    IF Cardinality({g \in Guests : map[g] # {}}) > MaxKeys
    THEN [g \in Guests |->
            IF \A a \in map[g] : a.at < now - Window THEN {} ELSE map[g]]
    ELSE map

Goto(g, op) == guest' = [guest EXCEPT ![g].op = op]

Leave(g) == guest' = [guest EXCEPT ![g] = Away]

-----------------------------------------------------------------------------
(* The guest *)

LeadsInit ==
    /\ listed \in [Societies -> BOOLEAN]
    /\ enquiries = [e \in EnquiryIds |-> NoEnquiry]
    /\ hits = [g \in Guests |-> {}]
    /\ guest = [g \in Guests |-> Away]
    /\ board = NoBoard

\* The operator, in SQL.
SetListing(s) ==
    /\ listed' = [listed EXCEPT ![s] = ~@]
    /\ UNCHANGED <<enquiries, hits, guest, board>>

\* FirstPublic: the slug of the oldest listed project.
FirstPublic(g) ==
    /\ guest[g] = Away
    /\ \E s \in Listed :
          /\ \A o \in Listed : s <= o
          /\ guest' = [guest EXCEPT ![g] = [op |-> "slug", society |-> s, since |-> now]]
    /\ UNCHANGED <<listed, enquiries, hits, board>>

\* PublicBySlug, which FirstPublic ends with and an address with a slug is.
PublicBySlug(g) ==
    /\ guest[g].op = "slug"
    /\ IF listed[guest[g].society] THEN Goto(g, "page") ELSE Leave(g)
    /\ UNCHANGED <<listed, enquiries, hits, board>>

FollowLink(g, s) ==
    /\ guest[g] = Away
    /\ listed[s]
    /\ guest' = [guest EXCEPT ![g] = [op |-> "page", society |-> s, since |-> now]]
    /\ UNCHANGED <<listed, enquiries, hits, board>>

\* createEnquiry begins with the limiter; what is wrong with the form is seen
\* only then.
Submit(g, isValid) ==
    /\ guest[g].op = "page"
    /\ HasBudget(g)
    /\ hits' = Swept([hits EXCEPT ![g] = Recorded(Recent(g))])
    /\ IF isValid THEN guest' = [guest EXCEPT ![g].op = "form", ![g].since = now]
                  ELSE UNCHANGED guest
    /\ UNCHANGED <<listed, enquiries, board>>

\* "You have sent a few enquiries already."
TurnAway(g) ==
    /\ guest[g].op = "page"
    /\ ~HasBudget(g)
    /\ hits' = [hits EXCEPT ![g] = Recent(g)]
    /\ UNCHANGED <<listed, enquiries, guest, board>>

CheckListed(g) ==
    /\ guest[g].op = "form"
    /\ IF listed[guest[g].society] THEN Goto(g, "known") ELSE Goto(g, "page")
    /\ UNCHANGED <<listed, enquiries, hits, board>>

\* Store.Create.
NewEnquiry(g) ==
    [society |-> guest[g].society, by |-> g, status |-> "new", handler |-> NoBuilder,
     sent |-> guest[g].since]

\* The INSERT, and thanks.
Insert(g) ==
    /\ guest[g].op = "known"
    /\ \E e \in EnquiryIds \ Stored :
          /\ e = Min(EnquiryIds \ Stored)
          /\ enquiries' = [enquiries EXCEPT ![e] = NewEnquiry(g)]
    /\ Goto(g, "page")
    /\ UNCHANGED <<listed, hits, board>>

\* The guest goes, or the call is cut short.
Quit(g) ==
    /\ guest[g] # Away
    /\ Leave(g)
    /\ UNCHANGED <<listed, enquiries, hits, board>>

-----------------------------------------------------------------------------
(* The office *)

\* One UPDATE of status, notes and handled_by together.
Handled(row, caller, status) == [row EXCEPT !.status = status, !.handler = caller.user]

\* updateEnquiry.
SetStatus(caller, e, status) ==
    /\ e \in Stored
    /\ Permits(caller, BuilderOf[enquiries[e].society])
    /\ enquiries' = [enquiries EXCEPT ![e] = Handled(@, caller, status)]
    /\ UNCHANGED <<listed, hits, guest, board>>

\* The newest BoardLimit rows of society s with one of the statuses asked for.
Latest(s, asked) ==
    LET S == {e \in EnquiriesOf(s) : enquiries[e].status \in asked}
    IN  {e \in S : Cardinality({o \in S : o > e}) < BoardLimit}

\* listEnquiries: the rows of one status or of all ...
ListEnquiries(caller, s, asked) ==
    /\ Permits(caller, BuilderOf[s])
    /\ board' = [op |-> "listed", society |-> s, total |-> 0, rows |-> Latest(s, asked)]
    /\ UNCHANGED <<listed, enquiries, hits, guest>>

\* Mutant of Count: what is still new.
CountNew ==
    /\ board.op = "listed"
    /\ board' = [board EXCEPT !.op = "counted",
                              !.total = Cardinality({e \in EnquiriesOf(board.society) :
                                                        enquiries[e].status = "new"})]
    /\ UNCHANGED <<listed, enquiries, hits, guest>>

\* ... and Counts, whose sum heads the page.
Count ==
    /\ board.op = "listed"
    /\ board' = [board EXCEPT !.op = "counted",
                              !.total = Cardinality(EnquiriesOf(board.society))]
    /\ UNCHANGED <<listed, enquiries, hits, guest>>

LeadsNext ==
    \/ \E s \in Societies : SetListing(s)
    \/ \E g \in Guests :
          \/ FirstPublic(g) \/ \E s \in Societies : FollowLink(g, s)
          \/ \E isValid \in BOOLEAN : Submit(g, isValid)
          \/ TurnAway(g)
          \/ PublicBySlug(g) \/ CheckListed(g) \/ Insert(g)
          \/ Quit(g)
    \/ \E caller \in Staff :
          \/ \E e \in EnquiryIds, status \in Progress : SetStatus(caller, e, status)
          \/ \E s \in Societies, asked \in {Progress} \cup {{status} : status \in Progress} :
                ListEnquiries(caller, s, asked)
    \/ Count

-----------------------------------------------------------------------------
(* Properties *)

LeadsTypeOK ==
    /\ listed \in [Societies -> BOOLEAN]
    /\ enquiries \in [EnquiryIds -> Rows \cup {NoEnquiry}]
    /\ hits \in [Guests -> SUBSET Attempts]
    /\ guest \in [Guests -> {Away} \cup Visits]
    /\ board \in {NoBoard} \cup Boards

\* However forms are sent, expire and are swept, no guest gets more than a
\* budget's worth of enquiries through in a window.
EnquiryBudgetKept ==
    \A g \in Guests, t \in Times :
        Cardinality({e \in Stored : /\ enquiries[e].by = g
                                    /\ enquiries[e].sent \in (t - Window + 1)..t}) <= MaxEnquiries

\* The board's total covers the leads under it, though enquiries arrive and
\* are moved between its two statements.
TotalCovers ==
    board.op = "counted" => Cardinality(board.rows) <= board.total

\* "You have sent a few enquiries already. The site office will call you
\* shortly.": who would be told so has sent one.
ToldTruly ==
    \A g \in Guests :
        guest[g].op = "page" /\ ~HasBudget(g) => \E e \in Stored : enquiries[e].by = g

\* "No project is publicly listed.": who is told so after a slug was found
\* could not have been shown another project.
NothingListed ==
    [][\A g \in Guests : PublicBySlug(g) /\ guest'[g] = Away => Listed = {}]_<<leadVars, now>>
=============================================================================
