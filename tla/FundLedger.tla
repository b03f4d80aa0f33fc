------------------------------ MODULE FundLedger ------------------------------
(***************************************************************************)
(* The society fund: internal/fund over the table fund_entries.            *)
(*                                                                         *)
(* A row is written once and never changed; a mistake is corrected by a    *)
(* second row, its mirror image, that points at the first.  Requests run   *)
(* concurrently, each on its own pooled connection under READ COMMITTED,   *)
(* and each SQL statement is a transaction of its own.  Hence:             *)
(*   - a plain INSERT and a SELECT are one step each;                      *)
(*   - the INSERT ... SELECT ... WHERE NOT EXISTS of Store.Reverse is two: *)
(*     it looks at the snapshot taken when it starts, and its row becomes  *)
(*     visible when it commits.  No index and no row lock makes two such   *)
(*     statements wait for each other.                                     *)
(* A request may be abandoned (client gone, process killed) between any    *)
(* two of its steps: its context is cancelled and what it had not          *)
(* committed is undone.  Meanwhile invitations are accepted, and plots,    *)
(* and with them the right to read a ledger, change hands.                 *)
(***************************************************************************)
EXTENDS Integers, FiniteSetsExt, Access

CONSTANTS Societies,   \* one ledger each
          BuilderOf,   \* societies.builder_id
          Owners,      \* whom invitations make owners: pairs <<user, society>>
          Callers,     \* identities that send requests
          Heads,       \* 'security', 'collections', ...
          Amounts,     \* what a client may send, in tenths of a paisa
          EntryIds,    \* bounds the number of rows ever written
          NoEntry,     \* no such row, and a NULL reverses_id
          Requests     \* bounds the requests in flight

ASSUME LedgerAssumption ==
    /\ BuilderOf \in [Societies -> Builders]
    /\ Owners \subseteq Users \X Societies
    /\ Callers \subseteq Identities
    /\ Amounts \subseteq Int
    /\ NoEntry \notin EntryIds

VARIABLES entries,    \* the table fund_entries, by id
          residents,  \* plots.owner_id: the pairs <<user, society>>
          former,     \* history: the pairs that were among them
          request     \* where each request in flight stands

vars == <<entries, residents, former, request>>

-----------------------------------------------------------------------------
(* The table *)

(***************************************************************************)
(* numeric(14,2): the third decimal of an amount is rounded half up when   *)
(* the row is stored.  Stored amounts are whole paise.                     *)
(***************************************************************************)
Numeric(amount) == (amount + 5) \div 10

\* saw is history: the rows that the statement which wrote this one looked at.
Rows == [society  : Societies,
         head     : Heads,
         credit   : Nat,
         debit    : Nat,
         reverses : EntryIds \cup {NoEntry},
         by       : Callers,
         saw      : SUBSET EntryIds]

ASSUME NoEntryAssumption == NoEntry \notin Rows

\* The CHECK constraint one_sided.
OneSided(row) == (row.credit > 0) # (row.debit > 0)

Written == {e \in EntryIds : entries[e] # NoEntry}

RowsOf(s) == {e \in Written : entries[e].society = s}

ReversalsOf(e) == {r \in Written : entries[r].reverses = e}

IsReversal(e) == entries[e].reverses # NoEntry

\* Mutant of Reversible: a reversal can be reversed.
ReversibleAnyway(e) == e \in Written /\ ReversalsOf(e) = {}

\* Mutant of Reversible: without NOT EXISTS.
ReversibleTwice(e) == e \in Written /\ ~IsReversal(e)

\* The WHERE clause of Store.Reverse.
Reversible(e) ==
    /\ e \in Written
    /\ ~IsReversal(e)
    /\ ReversalsOf(e) = {}

\* The columns its SELECT supplies.
Mirror(e, caller, saw) ==
    [society |-> entries[e].society, head |-> entries[e].head,
     credit |-> entries[e].debit, debit |-> entries[e].credit,
     reverses |-> e, by |-> caller, saw |-> saw]

-----------------------------------------------------------------------------
(* Requests *)

Idle == [op |-> "idle"]

\* What Handler.create accepts after parsing.
ValidAmounts(credit, debit) ==
    /\ credit >= 0 /\ debit >= 0
    /\ (credit > 0) # (debit > 0)

CreateRequests ==
    {c \in [op: {"create"}, caller: Callers, society: Societies, head: Heads,
            credit: Amounts, debit: Amounts] :
        ValidAmounts(c.credit, c.debit)}

\* "reverse" is authorised and validated, its statement not yet started;
\* "reversing" has found the entry reversible, in the rows it saw, and not yet
\* committed.
ReverseRequests == [op: {"reverse", "reversing"}, caller: Callers,
                    entry: EntryIds, saw: SUBSET EntryIds]

\* seen, counted and grouped are the rows the three statements of the
\* ledger page read: the listing, the totals and the breakdown by head.  gone
\* is history: who had moved out when the guard looked.
ListRequests == [op: {"list", "total", "group", "answered"},
                 caller: Callers, society: Societies,
                 seen: SUBSET EntryIds, counted: SUBSET EntryIds,
                 grouped: SUBSET EntryIds,
                 gone: SUBSET (Users \X Societies)]

\* The builder the guard finds for an entry.
TenantOf(e) == IF e \in Written THEN BuilderOf[entries[e].society]
                                ELSE NoBuilder

\* The guard of a page: for staff the builder, for others OwnerInSociety.
MayRead(caller, s) ==
    IF IsStaff(caller.role) THEN Permits(caller, BuilderOf[s])
                            ELSE <<caller.user, s>> \in residents

-----------------------------------------------------------------------------

Init ==
    /\ entries = [e \in EntryIds |-> NoEntry]
    /\ residents = {} /\ former = {}
    /\ request = [q \in Requests |-> Idle]

\* An invitation is accepted: a new account becomes the owner of a plot, in the
\* place of the owner it had, if it had one.
MoveIn(u, s) ==
    /\ <<u, s>> \in Owners
    /\ \A pair \in residents \cup former : pair[1] # u
    /\ \E out \in {{}} \cup {{pair} : pair \in {pair \in residents : pair[2] = s}} :
          /\ residents' = (residents \ out) \cup {<<u, s>>}
          /\ former' = former \cup out
    /\ UNCHANGED <<entries, request>>

\* Handler.create up to the INSERT: the guard, then the validation.
CreateStart(q, caller, s, head, credit, debit) ==
    /\ request[q] = Idle
    /\ CanManageSociety(caller.role)
    /\ Permits(caller, BuilderOf[s])
    /\ ValidAmounts(credit, debit)
    /\ request' = [request EXCEPT ![q] =
          [op |-> "create", caller |-> caller, society |-> s, head |-> head,
           credit |-> credit, debit |-> debit]]
    /\ UNCHANGED <<entries, residents, former>>

\* The row of the INSERT.
NewRow(c) ==
    [society |-> c.society, head |-> c.head, credit |-> Numeric(c.credit),
     debit |-> Numeric(c.debit), reverses |-> NoEntry, by |-> c.caller,
     saw |-> {}]

\* Store.Create.  A row the CHECK refuses is not written: the client gets 500.
CreateCommit(q, e) ==
    /\ request[q].op = "create"
    /\ e \in EntryIds \ Written
    /\ entries' = IF OneSided(NewRow(request[q]))
                  THEN [entries EXCEPT ![e] = NewRow(request[q])]
                  ELSE entries
    /\ request' = [request EXCEPT ![q] = Idle]
    /\ UNCHANGED <<residents, former>>

\* Mutant of ReverseStart: staff of any builder will do.
ReverseStartUnguarded(q, caller, e) ==
    /\ request[q] = Idle
    /\ CanManageSociety(caller.role)
    /\ request' = [request EXCEPT ![q] =
          [op |-> "reverse", caller |-> caller, entry |-> e, saw |-> {}]]
    /\ UNCHANGED <<entries, residents, former>>

\* Handler.reverse up to the statement.
ReverseStart(q, caller, e) ==
    /\ request[q] = Idle
    /\ CanManageSociety(caller.role)
    /\ Permits(caller, TenantOf(e))
    /\ request' = [request EXCEPT ![q] =
          [op |-> "reverse", caller |-> caller, entry |-> e, saw |-> {}]]
    /\ UNCHANGED <<entries, residents, former>>

\* The statement takes its snapshot and evaluates its WHERE clause.  When it
\* selects no row the client is told of a conflict.
ReverseSelect(q) ==
    /\ request[q].op = "reverse"
    /\ request' = [request EXCEPT ![q] =
          IF Reversible(request[q].entry)
          THEN [request[q] EXCEPT !.op = "reversing", !.saw = Written]
          ELSE Idle]
    /\ UNCHANGED <<entries, residents, former>>

\* The mirror row becomes visible.
ReverseCommit(q, e) ==
    /\ request[q].op = "reversing"
    /\ e \in EntryIds \ Written
    /\ entries' = [entries EXCEPT ![e] =
                      Mirror(request[q].entry, request[q].caller, request[q].saw)]
    /\ request' = [request EXCEPT ![q] = Idle]
    /\ UNCHANGED <<residents, former>>

\* Mutant of ListStart: who has ever been let in is remembered.
ListStartRemembering(q, caller, s) ==
    /\ request[q] = Idle
    /\ MayRead(caller, s) \/ <<caller.user, s>> \in former
    /\ request' = [request EXCEPT ![q] =
          [op |-> "list", caller |-> caller, society |-> s,
           seen |-> {}, counted |-> {}, grouped |-> {}, gone |-> former]]
    /\ UNCHANGED <<entries, residents, former>>

\* Handler.list up to its first read of the ledger.
ListStart(q, caller, s) ==
    /\ request[q] = Idle
    /\ MayRead(caller, s)
    /\ request' = [request EXCEPT ![q] =
          [op |-> "list", caller |-> caller, society |-> s,
           seen |-> {}, counted |-> {}, grouped |-> {}, gone |-> former]]
    /\ UNCHANGED <<entries, residents, former>>

\* Store.List.  (The page limit, 200 by default, is above any bound here.)
ListRows(q) ==
    /\ request[q].op = "list"
    /\ request' = [request EXCEPT ![q].op = "total",
                                  ![q].seen = RowsOf(request[q].society)]
    /\ UNCHANGED <<entries, residents, former>>

\* The first statement of Store.Balance: the two sums.
SumRows(q) ==
    /\ request[q].op = "total"
    /\ request' = [request EXCEPT ![q].op = "group",
                                  ![q].counted = RowsOf(request[q].society)]
    /\ UNCHANGED <<entries, residents, former>>

\* Mutant of GroupRows: corrections are no spending.
GroupOriginals(q) ==
    /\ request[q].op = "group"
    /\ request' = [request EXCEPT ![q].op = "answered",
                      ![q].grouped = {e \in RowsOf(request[q].society) :
                                         entries[e].debit > 0 /\ ~IsReversal(e)}]
    /\ UNCHANGED <<entries, residents, former>>

\* The second: debits by head.
GroupRows(q) ==
    /\ request[q].op = "group"
    /\ request' = [request EXCEPT ![q].op = "answered",
                      ![q].grouped = {e \in RowsOf(request[q].society) :
                                         entries[e].debit > 0}]
    /\ UNCHANGED <<entries, residents, former>>

\* The page is delivered, or a request at any other point is abandoned.
Leave(q) ==
    /\ request[q] # Idle
    /\ request' = [request EXCEPT ![q] = Idle]
    /\ UNCHANGED <<entries, residents, former>>

Create(q) ==
    \/ \E caller \in Callers, s \in Societies, head \in Heads,
          credit, debit \in Amounts :
             CreateStart(q, caller, s, head, credit, debit)
    \/ \E e \in EntryIds : CreateCommit(q, e)

Reverse(q) ==
    \/ \E caller \in Callers, e \in EntryIds : ReverseStart(q, caller, e)
    \/ ReverseSelect(q)
    \/ \E e \in EntryIds : ReverseCommit(q, e)

List(q) ==
    \/ \E caller \in Callers, s \in Societies : ListStart(q, caller, s)
    \/ ListRows(q)
    \/ SumRows(q)
    \/ GroupRows(q)

Next ==
    \/ \E q \in Requests : Create(q) \/ Reverse(q) \/ List(q) \/ Leave(q)
    \/ \E u \in Users, s \in Societies : MoveIn(u, s)

Spec == Init /\ [][Next]_vars

(***************************************************************************)
(* The ledger when no two reversal statements of the same entry are under  *)
(* way at once.  Nothing in the code enforces it; it is what a clerk who   *)
(* waits for each answer provides, and what a unique index on reverses_id  *)
(* would.                                                                  *)
(***************************************************************************)
OneReversalAtATime ==
    \A p, q \in Requests :
        /\ request[p].op = "reversing"
        /\ request[q].op = "reversing"
        /\ request[p].entry = request[q].entry
        => p = q

SerialSpec == Init /\ [][Next /\ OneReversalAtATime']_vars

-----------------------------------------------------------------------------
(* What the ledger page is computed from *)

SumCredit(rows) == MapThenSumSet(LAMBDA e : entries[e].credit, rows)

SumDebit(rows) == MapThenSumSet(LAMBDA e : entries[e].debit, rows)

\* Balance.Closing over the rows a totals statement read.
Closing(rows) == SumCredit(rows) - SumDebit(rows)

\* The keys of Balance.ByHead over the rows a grouping statement read.
SpendingHeads(rows) == {entries[e].head : e \in rows}

\* Rows that count: originals nobody has reversed.
Live == {e \in Written : ~IsReversal(e) /\ ReversalsOf(e) = {}}

-----------------------------------------------------------------------------
(* Properties *)

\* Every variable stays in its type; a stored row has exactly one side.
TypeOK ==
    /\ entries \in [EntryIds -> Rows \cup {NoEntry}]
    /\ \A e \in Written : OneSided(entries[e])
    /\ residents \in SUBSET (Users \X Societies)
    /\ former \in SUBSET (Users \X Societies)
    /\ request \in [Requests -> {Idle} \cup CreateRequests
                                 \cup ReverseRequests \cup ListRequests]

\* A correction corrects something: a reversal names an original (never
\* another reversal), lies in the same ledger under the same head, and is its
\* exact mirror image, however long ago its statement looked at the original.
ReversalsMirror ==
    \A r \in Written : IsReversal(r) =>
        LET o == entries[r].reverses
        IN  /\ o \in Written
            /\ ~IsReversal(o)
            /\ entries[r].society = entries[o].society
            /\ entries[r].head    = entries[o].head
            /\ entries[r].credit  = entries[o].debit
            /\ entries[r].debit   = entries[o].credit

\* Append-only: no request, finished, racing or abandoned, alters or removes a
\* row, and a step writes at most one.
AppendOnly ==
    [][ /\ \A e \in Written : entries'[e] = entries[e]
        /\ \A d, e \in Written' \ Written : d = e ]_vars

\* Nobody writes into another builder's ledger: the author of every row, the
\* reversals included, is staff entitled to the society the row lies in.
WritersAreTenants ==
    \A e \in Written :
        /\ CanManageSociety(entries[e].by.role)
        /\ Permits(entries[e].by, BuilderOf[entries[e].society])

Reading(q) == request[q].op \in {"list", "total", "group", "answered"}

\* Who could read the ledger of s when the guard looked, and still may or has
\* moved out since.
WasLetIn(q, s) ==
    LET caller == request[q].caller
    IN  MayRead(caller, s) \/ <<caller.user, s>> \in former \ request[q].gone

\* Nobody reads one either: whatever rows a page was computed from lie in a
\* ledger the caller may read, as staff of its builder or as a resident; a page
\* outlasts that right only if it was lost while the page was being read.
ReadersAreTenants ==
    \A q \in Requests : Reading(q) =>
        \A e \in request[q].seen \cup request[q].counted
                 \cup request[q].grouped : WasLetIn(q, entries[e].society)

\* The page is read in three statements, so they may disagree, but only in one
\* direction: a listed row is always counted in the totals, and a counted
\* debit always appears in the breakdown, so a page never lists a payment that
\* its own closing figure has not deducted.
PagesNest ==
    \A q \in Requests : request[q].op = "answered" =>
        /\ request[q].seen \subseteq request[q].counted
        /\ {e \in request[q].counted : entries[e].debit > 0}
              \subseteq request[q].grouped

\* "Reversing twice must not silently double-count" (fund_test.go): an entry
\* has at most one reversal.
SingleReversal ==
    \A e \in Written : \A r1, r2 \in ReversalsOf(e) : r1 = r2

\* What holds of it: of two reversals of one entry, neither's statement can have
\* seen the other's row.  An entry is reversed twice only by statements that
\* overlapped.
DoubledByOverlapOnly ==
    \A e \in Written : \A r1, r2 \in ReversalsOf(e) :
        r1 # r2 => r1 \notin entries[r2].saw

\* "the pair nets to zero": a society's closing balance is that of the entries
\* nobody has reversed.
PairNetsToZero ==
    \A s \in Societies : Closing(RowsOf(s)) = Closing(RowsOf(s) \cap Live)

\* "Collections are money in, so they must not appear as spending": a head
\* appears in the breakdown only if something was once spent under it.
OnlySpendingByHead ==
    \A q \in Requests : request[q].op = "answered" =>
        \A head \in SpendingHeads(request[q].grouped) :
            \E o \in RowsOf(request[q].society) :
                /\ ~IsReversal(o)
                /\ entries[o].head = head
                /\ entries[o].debit > 0

\* "Exactly one side, matching the database CHECK": what the handler lets
\* through, the table accepts.
HandlerMatchesCheck ==
    \A q \in Requests :
        request[q].op = "create" => OneSided(NewRow(request[q]))

-----------------------------------------------------------------------------
(* What the requests in flight know, on which the properties above rest *)

\* An authorised creation stays authorised until its INSERT.
CreatesAreEntitled ==
    \A q \in Requests : request[q].op = "create" =>
        /\ CanManageSociety(request[q].caller.role)
        /\ Permits(request[q].caller, BuilderOf[request[q].society])

\* So does a reversal: its entry exists, in a ledger of the caller, and once
\* the statement has looked it is known not to be a reversal, and not to be
\* reversed by any of the rows it saw.
ReversesAreEntitled ==
    \A q \in Requests : request[q].op \in {"reverse", "reversing"} =>
        /\ CanManageSociety(request[q].caller.role)
        /\ request[q].entry \in Written
        /\ Permits(request[q].caller,
                   BuilderOf[entries[request[q].entry].society])
        /\ request[q].op = "reversing" =>
              /\ ~IsReversal(request[q].entry)
              /\ request[q].saw \subseteq Written
              /\ \A r \in request[q].saw : entries[r].reverses # request[q].entry

\* A statement sees what was there before it.
SawThePast == \A r \in Written : entries[r].saw \subseteq Written \ {r}

\* Who has moved out is no resident.
MovedOut == residents \cap former = {}

\* A page under construction holds rows of one ledger, whose guard its caller
\* has passed, and what it has counted so far includes what it has listed.
PagesAreEntitled ==
    \A q \in Requests : Reading(q) =>
        /\ WasLetIn(q, request[q].society) /\ request[q].gone \subseteq former
        /\ request[q].seen \cup request[q].counted \cup request[q].grouped
              \subseteq RowsOf(request[q].society)
        /\ request[q].op = "group" => request[q].seen \subseteq request[q].counted

LedgerInv ==
    /\ TypeOK
    /\ ReversalsMirror
    /\ CreatesAreEntitled
    /\ ReversesAreEntitled
    /\ PagesAreEntitled
    /\ WritersAreTenants
    /\ PagesNest
    /\ SawThePast
    /\ MovedOut
    /\ DoubledByOverlapOnly

-----------------------------------------------------------------------------
(* The promise *)

AccountOf(row) == <<row.society, row.head>>

Accounts == Societies \X Heads

ASSUME NoLineAssumption ==
    NoEntry \notin [account: Accounts, credit: Nat, debit: Nat]

\* A row as the promise sees it: authors and links left out.
Line(e) == IF e \in Written
           THEN [account |-> AccountOf(entries[e]),
                 credit  |-> entries[e].credit,
                 debit   |-> entries[e].debit]
           ELSE NoEntry

Book == [e \in EntryIds |-> Line(e)]

Undone == {<<r, entries[r].reverses>> : r \in {e \in Written : IsReversal(e)}}

\* The entry each statement under way has found reversible.
Claims == [q \in Requests |->
              IF request[q].op = "reversing" THEN request[q].entry ELSE NoEntry]

Promise == INSTANCE LedgerPromise WITH
              Lines <- EntryIds, NoLine <- NoEntry, Clerks <- Requests,
              Accounts <- Accounts,
              book <- Book, undoes <- Undone, claims <- Claims

\* Requests, statements and aborts implement the book: what is posted stands, a
\* line is undone by its mirror image, and only by who found it not undone.
KeepsPromise == Promise!Spec
=============================================================================
