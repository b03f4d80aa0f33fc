------------------------------ MODULE QueryThread ------------------------------
(***************************************************************************)
(* The owner's ticket system: internal/query over the tables queries and   *)
(* query_messages.                                                         *)
(*                                                                         *)
(* Raising a query and adding a message are transactions of two statements *)
(* each; the rest are single statements.  now() is the moment a            *)
(* transaction began, so rows are stamped with a time that may be past     *)
(* when they become visible.  An UPDATE waits while another transaction    *)
(* has changed the same row and not committed; the INSERT of a message     *)
(* takes no lock an UPDATE of the query would wait for.  The process and   *)
(* the database are taken to share one clock.  A call can be cut short     *)
(* between any two steps, and its open transaction rolls back.             *)
(*                                                                         *)
(* What only reads is no action: Inbox, Mine and Shown are the answers the *)
(* present rows allow, and the properties speak of all of them.            *)
(***************************************************************************)
EXTENDS Integers, FiniteSets, Access

CONSTANTS Societies, BuilderOf,
          Callers,       \* identities that send requests
          Statuses,      \* domain.ValidQueryStatus, as many as are used
          SLA,           \* domain.QuerySLA: what categories give, in ticks
          PageLimit,     \* rows of a listing
          QueryIds, MessageIds,   \* numbers, which bound the rows ever written
          NoQuery, NoMessage,
          Never,         \* a NULL timestamp
          MaxTime,       \* bounds the clock
          Calls          \* bounds the requests in flight

ASSUME QueryThreadAssumption ==
    /\ BuilderOf \in [Societies -> Builders]
    /\ Callers \subseteq Identities
    /\ \A a, b \in Callers : a.user = b.user => a = b   \* no code changes an account's claims
    /\ {"open", "resolved"} \subseteq Statuses
    /\ Statuses \subseteq {"open", "in_progress", "waiting_on_owner", "resolved", "closed"}
    /\ QueryIds \subseteq Nat /\ MessageIds \subseteq Nat
    /\ SLA \subseteq Nat /\ MaxTime \in Nat /\ PageLimit \in Nat \ {0}
    /\ Never \notin Int

VARIABLES queries,   \* the table queries, by id
          messages,  \* the table query_messages, by id
          call,      \* where each request stands
          now

vars == <<queries, messages, call, now>>

Times == 0..MaxTime

Final == {"resolved", "closed"}

QueryRows == [society: Societies, by: Callers, status: Statuses, due: Int,
              resolved: Times \cup {Never}, created: Times, updated: Times]

MessageRows == [query: QueryIds, by: Callers, internal: BOOLEAN, created: Times]

ASSUME NoRowAssumption ==
    /\ NoQuery \notin QueryRows \cup [by: Callers, settled: Times \cup {Never}]
    /\ NoMessage \notin MessageRows

Idle == [op |-> "idle"]

\* Which of a transaction's statements is next: "say" the INSERT of a message,
\* "touch" the UPDATE of the query, "commit" COMMIT.  row is the query's row, if
\* the transaction has inserted one.
Writing == [op: {"say", "touch", "commit"}, query: QueryIds, id: MessageIds,
            row: QueryRows \cup {NoQuery}, words: MessageRows]

Deciding == [op: {"decide"}, query: QueryIds, status: Statuses, start: Times]

-----------------------------------------------------------------------------

Raised == {k \in QueryIds : queries[k] # NoQuery}

Said == {i \in MessageIds : messages[i] # NoMessage}

Thread(k) == {i \in Said : messages[i].query = k}

\* Ids are random and never compared: the lowest that no other transaction has
\* drawn stands for all.
Drawn(field) == {call[c][field] : c \in {d \in Calls : call[d].op \in {"say", "touch", "commit"}}}

Draws(k, ids, taken) == k \in ids \ taken /\ \A l \in ids \ taken : k <= l

DrawsQuery(k) == Draws(k, QueryIds, Raised \cup Drawn("query"))

DrawsMessage(i) == Draws(i, MessageIds, Said \cup Drawn("id"))

\* Another transaction has changed query k and not committed.
Locked(k, c) ==
    \E d \in Calls \ {c} : call[d].op = "commit" /\ call[d].row = NoQuery /\ call[d].query = k

\* Mutant of MayOpen: any builder's staff.
MayOpenAnyStaff(caller, k) ==
    k \in Raised /\ (IsStaff(caller.role) \/ queries[k].by.user = caller.user)

\* Get, then Guard.Query for staff and raised_by for the others.  What they
\* read is never changed.
MayOpen(caller, k) ==
    /\ k \in Raised
    /\ IF IsStaff(caller.role) THEN Permits(caller, BuilderOf[queries[k].society])
                               ELSE queries[k].by.user = caller.user

Goto(c, op) == call' = [call EXCEPT ![c].op = op]

End(c) == call' = [call EXCEPT ![c] = Idle]

-----------------------------------------------------------------------------
(* Writing *)

Init ==
    /\ queries = [k \in QueryIds |-> NoQuery]
    /\ messages = [i \in MessageIds |-> NoMessage]
    /\ call = [c \in Calls |-> Idle]
    /\ now = 0

\* A new query, and the words that raise it.
NewRow(caller, s, sla) ==
    [society |-> s, by |-> caller, status |-> "open", due |-> now + sla,
     resolved |-> Never, created |-> now, updated |-> now]

NewWords(caller, k, isInternal) ==
    [query |-> k, by |-> caller, internal |-> isInternal, created |-> now]

\* Mutant of Create: the two rows are inserted on connections of their own.
CreateApart(c, caller, s, sla, k, i) ==
    /\ call[c] = Idle
    /\ DrawsQuery(k) /\ DrawsMessage(i)
    /\ queries' = [queries EXCEPT ![k] = NewRow(caller, s, sla)]
    /\ call' = [call EXCEPT ![c] =
          [op |-> "say", query |-> k, id |-> i, row |-> NewRow(caller, s, sla),
           words |-> NewWords(caller, k, FALSE)]]
    /\ UNCHANGED <<messages, now>>

\* Handler.create, for whoever is signed in: BEGIN and the INSERT of the query.
Create(c, caller, s, sla, k, i) ==
    /\ call[c] = Idle
    /\ DrawsQuery(k) /\ DrawsMessage(i)
    /\ call' = [call EXCEPT ![c] =
          [op |-> "say", query |-> k, id |-> i, row |-> NewRow(caller, s, sla),
           words |-> NewWords(caller, k, FALSE)]]
    /\ UNCHANGED <<queries, messages, now>>

\* Its INSERT of the opening message.
InsertOpening(c) ==
    /\ call[c].op = "say"
    /\ Goto(c, "commit")
    /\ UNCHANGED <<queries, messages, now>>

\* Mutant of AddMessage: anybody may ask for an internal note.
AddMessageAsAsked(c, caller, k, i, isInternal) ==
    /\ call[c] = Idle
    /\ DrawsMessage(i)
    /\ MayOpen(caller, k)
    /\ call' = [call EXCEPT ![c] =
          [op |-> "touch", query |-> k, id |-> i, row |-> NoQuery,
           words |-> NewWords(caller, k, isInternal)]]
    /\ UNCHANGED <<queries, messages, now>>

\* Handler.addMessage: BEGIN and the INSERT.  Only staff can leave an internal
\* note.
AddMessage(c, caller, k, i, isInternal) ==
    /\ call[c] = Idle
    /\ DrawsMessage(i)
    /\ MayOpen(caller, k)
    /\ call' = [call EXCEPT ![c] =
          [op |-> "touch", query |-> k, id |-> i, row |-> NoQuery,
           words |-> NewWords(caller, k, isInternal /\ IsStaff(caller.role))]]
    /\ UNCHANGED <<queries, messages, now>>

\* UPDATE queries SET updated_at.
Touch(c) ==
    /\ call[c].op = "touch"
    /\ ~Locked(call[c].query, c)
    /\ Goto(c, "commit")
    /\ UNCHANGED <<queries, messages, now>>

Commit(c) ==
    /\ call[c].op = "commit"
    /\ queries' = [queries EXCEPT ![call[c].query] =
                      IF call[c].row # NoQuery THEN call[c].row
                      ELSE [@ EXCEPT !.updated = call[c].words.created]]
    /\ messages' = [messages EXCEPT ![call[c].id] = call[c].words]
    /\ End(c)
    /\ UNCHANGED now

\* Handler.setStatus: the guard, then the UPDATE is sent.
SetStatus(c, caller, k, status) ==
    /\ call[c] = Idle
    /\ k \in Raised
    /\ IsStaff(caller.role) /\ Permits(caller, BuilderOf[queries[k].society])
    /\ call' = [call EXCEPT ![c] =
          [op |-> "decide", query |-> k, status |-> status, start |-> now]]
    /\ UNCHANGED <<queries, messages, now>>

\* Mutant of Decide: every final status is stamped anew.
DecideRestamping(c) ==
    /\ call[c].op = "decide"
    /\ ~Locked(call[c].query, c)
    /\ LET k == call[c].query IN
       queries' = [queries EXCEPT
          ![k].status   = call[c].status,
          ![k].resolved = IF call[c].status \notin Final THEN Never ELSE call[c].start,
          ![k].updated  = call[c].start]
    /\ End(c)
    /\ UNCHANGED <<messages, now>>

\* Its UPDATE, on the row as it is once nobody holds it: COALESCE keeps the
\* moment a query was first settled, and reopening forgets it.
Decide(c) ==
    /\ call[c].op = "decide"
    /\ ~Locked(call[c].query, c)
    /\ LET k == call[c].query IN
       queries' = [queries EXCEPT
          ![k].status   = call[c].status,
          ![k].resolved = IF call[c].status \notin Final THEN Never
                          ELSE IF @ = Never THEN call[c].start ELSE @,
          ![k].updated  = call[c].start]
    /\ End(c)
    /\ UNCHANGED <<messages, now>>

-----------------------------------------------------------------------------
(* Reading *)

\* Handler.get: the messages caller sees of query k.  Internal notes are for
\* staff.
Shown(caller, k) == {i \in Thread(k) : IsStaff(caller.role) \/ ~messages[i].internal}

\* What may be the first rows of S: those of F first, the newest first in each.
FirstRows(S, F) ==
    LET Precedes(k, l) == \/ k \in F /\ l \notin F
                          \/ (k \in F <=> l \in F) /\ queries[k].created > queries[l].created
    IN  {P \in SUBSET S :
            /\ Cardinality(P) = IF Cardinality(S) < PageLimit THEN Cardinality(S) ELSE PageLimit
            /\ \A k \in P, l \in S \ P : ~Precedes(l, k)}

\* Mutant of SortedFirst: every open query counts as late.
SortedFirstOpen(k) == queries[k].resolved = Never

\* resolved_at IS NULL AND sla_due_at < now().
SortedFirst(k) == queries[k].resolved = Never /\ queries[k].due < now

\* The pages the builder's inbox may be, of every status or of one.
Inbox(s, asked) ==
    LET S == {k \in Raised : queries[k].society = s /\ queries[k].status \in asked}
    IN  FirstRows(S, {k \in S : SortedFirst(k)})

\* The pages an owner's own list may be.
Mine(caller) == FirstRows({k \in Raised : queries[k].by.user = caller.user}, {})

\* isBreached, which scanQueries finds at some later time.
IsBreached(k, time) ==
    /\ queries[k].resolved = Never
    /\ queries[k].status \notin Final
    /\ time > queries[k].due

-----------------------------------------------------------------------------

\* An answer arrives, or a call is cut short.
Leave(c) ==
    /\ call[c] # Idle
    /\ End(c)
    /\ UNCHANGED <<queries, messages, now>>

Tick ==
    /\ now < MaxTime
    /\ now' = now + 1
    /\ UNCHANGED <<queries, messages, call>>

Ask(c) ==
    \E caller \in Callers :
       \/ \E s \in Societies, i \in MessageIds, k \in QueryIds, sla \in SLA :
             Create(c, caller, s, sla, k, i)
       \/ \E k \in QueryIds, i \in MessageIds, isInternal \in BOOLEAN :
             AddMessage(c, caller, k, i, isInternal)
       \/ \E k \in QueryIds, status \in Statuses : SetStatus(c, caller, k, status)

\* What a call does of itself.
Proceed(c) ==
    \/ InsertOpening(c) \/ Touch(c) \/ Commit(c)
    \/ Decide(c)

Next == (\E c \in Calls : Ask(c) \/ Proceed(c) \/ Leave(c)) \/ Tick

Spec == Init /\ [][Next]_vars

\* A statement that was sent is carried out; those that wait for a row are
\* served in turn, so that one that can go ahead again and again does.
FairSpec == Spec /\ \A c \in Calls : SF_vars(Proceed(c))

-----------------------------------------------------------------------------
(* Properties *)

\* Every variable stays in its type, and a query has a resolved_at exactly
\* while its status is a final one.
TypeOK ==
    /\ queries \in [QueryIds -> QueryRows \cup {NoQuery}]
    /\ messages \in [MessageIds -> MessageRows \cup {NoMessage}]
    /\ call \in [Calls -> {Idle} \cup Writing \cup Deciding]
    /\ now \in Times
    /\ \A k \in Raised : queries[k].status \in Final <=> queries[k].resolved # Never

\* "The opening message is the body, so the thread reads in one place": every
\* query has it, by who raised it, and nothing said on it is older, though
\* the two rows are written by two statements and stamped by one clock.
ThreadsOpen ==
    \A k \in Raised :
        \E i \in Thread(k) :
           /\ messages[i].by = queries[k].by /\ ~messages[i].internal
           /\ \A j \in Thread(k) : messages[j].created >= messages[i].created

\* An internal note is shown to staff only; "an owner marking one would
\* silently hide their own message from themselves": nobody's words on a query
\* they can open are hidden from them.
NotesStayInside ==
    \A caller \in Callers, k \in QueryIds :
        MayOpen(caller, k) =>
           /\ {i \in Thread(k) : messages[i].by.user = caller.user} \subseteq Shown(caller, k)
           /\ \A i \in Shown(caller, k) : messages[i].internal =>
                 IsStaff(caller.role) /\ IsStaff(messages[i].by.role)

\* A query is between who raised it and the builder of its society: nobody
\* else speaks on it; and an owner's own list holds no query but those the
\* owner can open, and leaves none out that there is room for.
SpeakersBelong ==
    /\ \A i \in Said :
          LET q == queries[messages[i].query]
          IN  \/ messages[i].by.user = q.by.user
              \/ IsStaff(messages[i].by.role) /\ Permits(messages[i].by, BuilderOf[q.society])
    /\ \A caller \in Callers : \A page \in Mine(caller) :
          /\ ~IsStaff(caller.role) => \A k \in page : MayOpen(caller, k)
          /\ Cardinality(page) < PageLimit =>
                \A k \in Raised : queries[k].by.user = caller.user => k \in page

\* "the inbox should surface what is late": no query the program would mark
\* as on time takes the place of one it marks as breached on a page that is
\* too short for all, whatever was resolved and reopened before, though the
\* database sorts by a test of its own.
InboxSurfacesLate ==
    \A s \in Societies : \A page \in Inbox(s, Statuses) : \A k \in Raised :
        IsBreached(k, now) /\ queries[k].society = s =>
           k \in page \/ \A l \in page : IsBreached(l, now)

\* A call that was begun ends, though others may hold its query's row.
CallsEnd == \A c \in Calls : call[c] # Idle
                                ~> call[c] = Idle

\* "last activity": no message is younger than its query's updated_at.
LastActivity == \A i \in Said : messages[i].created <= queries[messages[i].query].updated

-----------------------------------------------------------------------------
(* Refinement *)

TicketOf(k) ==
    IF k \in Raised THEN [by |-> queries[k].by, settled |-> queries[k].resolved] ELSE NoQuery

Utterance(i) ==
    IF i \in Said THEN [on |-> messages[i].query, by |-> messages[i].by] ELSE NoMessage

TicketBook == [k \in QueryIds |-> TicketOf(k)]

Protocol == [i \in MessageIds |-> Utterance(i)]

Promise == INSTANCE TicketPromise WITH
    Tickets <- QueryIds, NoTicket <- NoQuery,
    Utterances <- MessageIds, NoUtterance <- NoMessage,
    People <- Callers, Moments <- Times,
    ticket <- TicketBook, said <- Protocol

\* A query keeps the promise of a ticket: it is raised with its words, what
\* was said stays, and the moment it was settled stands until it is reopened.
KeepsPromise == Promise!Spec
=============================================================================
