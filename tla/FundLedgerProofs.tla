--------------------------- MODULE FundLedgerProofs ---------------------------
(***************************************************************************)
(* The fund ledger's properties for any number of builders, societies,     *)
(* callers, rows and concurrent requests.                                  *)
(*                                                                         *)
(* Argument.  What a request knows when it acts is what it learnt some     *)
(* steps before: that its caller is entitled to a ledger, that an entry is *)
(* there and is not a reversal.  Rows are never altered, so all of it is   *)
(* still true when the statement commits.  What is not stable, that nobody *)
(* has reversed the entry meanwhile, holds of the rows the statement saw.  *)
(* The right to read can be lost too; a page remembers who had lost it     *)
(* before its guard looked, and nobody gets it back.                       *)
(***************************************************************************)
EXTENDS FundLedger, TLAPS

-----------------------------------------------------------------------------
(* Lemmas about the operators *)

\* Rounding an accepted amount gives a whole number of paise.
LEMMA NumericType == \A a \in Int : a >= 0 => Numeric(a) \in Nat
  BY DEF Numeric

\* A create request's row is a row.
LEMMA NewRowType ==
    ASSUME NEW c \in CreateRequests
    PROVE  NewRow(c) \in Rows
  <1>1. /\ c.credit \in Int /\ c.debit \in Int
        /\ c.credit >= 0 /\ c.debit >= 0
    BY LedgerAssumption DEF CreateRequests, ValidAmounts
  <1>2. Numeric(c.credit) \in Nat /\ Numeric(c.debit) \in Nat
    BY <1>1, NumericType
  <1> QED
    BY <1>2 DEF NewRow, Rows, CreateRequests

\* A row that is written has the type of one.
LEMMA WrittenType ==
    ASSUME TypeOK, NEW e \in Written
    PROVE  e \in EntryIds /\ entries[e] \in Rows
  BY DEF TypeOK, Written

\* The mirror of a row is a row, with exactly one side.
LEMMA MirrorType ==
    ASSUME TypeOK, NEW e \in Written, NEW caller \in Callers,
           NEW saw \in SUBSET EntryIds
    PROVE  Mirror(e, caller, saw) \in Rows /\ OneSided(Mirror(e, caller, saw))
  BY WrittenType DEF Mirror, Rows, OneSided, TypeOK

\* A step that writes row into the unused id e.
Inserts(e, row) ==
    /\ e \in EntryIds \ Written
    /\ row \in Rows
    /\ OneSided(row)
    /\ entries' = [entries EXCEPT ![e] = row]

\* An INSERT adds its id to the written ones and leaves every other row alone.
LEMMA InsertEffect ==
    ASSUME TypeOK, NEW e, NEW row, Inserts(e, row)
    PROVE  /\ entries' \in [EntryIds -> Rows \cup {NoEntry}]
           /\ Written' = Written \cup {e}
           /\ entries'[e] = row
           /\ \A d \in Written : d # e /\ entries'[d] = entries[d]
           /\ \A d \in Written' : OneSided(entries[d]')
  <1>1. entries' \in [EntryIds -> Rows \cup {NoEntry}]
    BY DEF TypeOK, Inserts
  <1>2. entries'[e] = row /\ row # NoEntry
    BY NoEntryAssumption DEF TypeOK, Inserts
  <1>3. \A d \in EntryIds : d # e => entries'[d] = entries[d]
    BY DEF TypeOK, Inserts
  <1>4. Written' = Written \cup {e}
    BY <1>2, <1>3 DEF Written, Inserts
  <1>5. \A d \in Written : d # e /\ entries'[d] = entries[d]
    BY <1>3 DEF Written, Inserts
  <1>6. \A d \in Written' : OneSided(entries[d]')
    BY <1>2, <1>4, <1>5 DEF TypeOK, Inserts, OneSided
  <1> QED
    BY <1>1, <1>2, <1>4, <1>5, <1>6

-----------------------------------------------------------------------------
(* Type correctness *)

LEMMA InitType == Init => TypeOK
  BY DEF Init, TypeOK, Written, Idle

\* A step of one request.
Moves(q) == Create(q) \/ Reverse(q) \/ List(q) \/ Leave(q)

\* What a request may be.
InFlight == {Idle} \cup CreateRequests \cup ReverseRequests \cup ListRequests

\* The record a request's op tells it to be.
LEMMA OpTells ==
    ASSUME TypeOK, NEW q \in Requests
    PROVE  /\ request[q].op = "create" => request[q] \in CreateRequests
           /\ request[q].op \in {"reverse", "reversing"} =>
                 request[q] \in ReverseRequests
           /\ Reading(q) => request[q] \in ListRequests
  <1>1. request[q] \in InFlight
    BY DEF TypeOK, InFlight
  <1> QED
    BY <1>1 DEF InFlight, Idle, CreateRequests, ReverseRequests,
                ListRequests, Reading

\* The request variable stays typed when one request moves within its type.
LEMMA MoveType ==
    ASSUME TypeOK, NEW q \in Requests, NEW new \in InFlight,
           request' = [request EXCEPT ![q] = new]
    PROVE  request' \in [Requests -> InFlight]
  BY DEF TypeOK, InFlight

LEMMA NextType ==
    ASSUME TypeOK, ReversesAreEntitled, NEW q \in Requests, Moves(q)
    PROVE  TypeOK'
  <1>1. ASSUME UNCHANGED <<entries, residents, former>>, NEW new \in InFlight,
               request' = [request EXCEPT ![q] = new]
        PROVE  TypeOK'
    BY <1>1, MoveType DEF TypeOK, Written, OneSided, InFlight
  <1>2. ASSUME NEW e \in EntryIds, NEW row, Inserts(e, row),
               UNCHANGED <<residents, former>>,
               request' = [request EXCEPT ![q] = Idle]
        PROVE  TypeOK'
    <2>1. Idle \in InFlight
      BY DEF InFlight
    <2>2. request' \in [Requests -> InFlight]
      BY <1>2, <2>1, MoveType
    <2> QED
      BY <1>2, <2>2, InsertEffect DEF TypeOK, InFlight
  <1>3. ASSUME NEW caller \in Callers, NEW s \in Societies, NEW head \in Heads,
               NEW credit \in Amounts, NEW debit \in Amounts,
               CreateStart(q, caller, s, head, credit, debit)
        PROVE  TypeOK'
    <2>1. [op |-> "create", caller |-> caller, society |-> s, head |-> head,
           credit |-> credit, debit |-> debit] \in CreateRequests
      BY <1>3 DEF CreateRequests, CreateStart
    <2> QED
      BY <1>1, <1>3, <2>1 DEF CreateStart, InFlight
  <1>4. ASSUME NEW e \in EntryIds, CreateCommit(q, e)
        PROVE  TypeOK'
    <2>1. CASE OneSided(NewRow(request[q]))
      <3>1. NewRow(request[q]) \in Rows
        BY <1>4, OpTells, NewRowType DEF CreateCommit
      <3> QED
        BY <1>2, <1>4, <2>1, <3>1 DEF CreateCommit, Inserts
    <2>2. CASE ~OneSided(NewRow(request[q]))
      BY <1>1, <1>4, <2>2 DEF CreateCommit, InFlight
    <2> QED
      BY <2>1, <2>2
  <1>5. ASSUME NEW caller \in Callers, NEW e \in EntryIds,
               ReverseStart(q, caller, e)
        PROVE  TypeOK'
    BY <1>1, <1>5 DEF ReverseStart, InFlight, ReverseRequests
  <1>6. ASSUME ReverseSelect(q)
        PROVE  TypeOK'
    <2>1. request[q] \in ReverseRequests
      BY <1>6, OpTells DEF ReverseSelect
    <2>2. [request[q] EXCEPT !.op = "reversing", !.saw = Written]
             \in ReverseRequests
      BY <2>1 DEF ReverseRequests, Written
    <2> QED
      BY <1>1, <1>6, <2>2 DEF ReverseSelect, InFlight
  <1>7. ASSUME NEW e \in EntryIds, ReverseCommit(q, e)
        PROVE  TypeOK'
    <2>1. /\ request[q].entry \in Written
          /\ request[q].caller \in Callers
          /\ request[q].saw \in SUBSET EntryIds
      BY <1>7, OpTells DEF ReverseCommit, ReversesAreEntitled, ReverseRequests
    <2> QED
      BY <1>2, <1>7, <2>1, MirrorType DEF ReverseCommit, Inserts
  <1>8. ASSUME NEW caller \in Callers, NEW s \in Societies,
               ListStart(q, caller, s)
        PROVE  TypeOK'
    <2>1. [op |-> "list", caller |-> caller, society |-> s, seen |-> {},
           counted |-> {}, grouped |-> {}, gone |-> former] \in ListRequests
      BY DEF ListRequests, TypeOK
    <2> QED
      BY <1>1, <1>8, <2>1 DEF ListStart, InFlight
  <1>9. ASSUME ListRows(q) \/ SumRows(q) \/ GroupRows(q)
        PROVE  TypeOK'
    <2>1. request[q] \in ListRequests
      BY <1>9, OpTells DEF ListRows, SumRows, GroupRows, Reading
    <2>2. RowsOf(request[q].society) \subseteq EntryIds
      BY DEF RowsOf, Written
    <2>3. CASE ListRows(q)
      <3>1. [request[q] EXCEPT !.op = "total",
                 !.seen = RowsOf(request[q].society)] \in ListRequests
        BY <2>1, <2>2 DEF ListRequests
      <3> QED
        BY <1>1, <2>1, <2>3, <3>1 DEF ListRows, InFlight, TypeOK
    <2>4. CASE SumRows(q)
      <3>1. [request[q] EXCEPT !.op = "group",
                 !.counted = RowsOf(request[q].society)] \in ListRequests
        BY <2>1, <2>2 DEF ListRequests
      <3> QED
        BY <1>1, <2>1, <2>4, <3>1 DEF SumRows, InFlight, TypeOK
    <2>5. CASE GroupRows(q)
      <3>1. {e \in RowsOf(request[q].society) : entries[e].debit > 0}
               \subseteq EntryIds
        BY <2>2
      <3>2. [request[q] EXCEPT !.op = "answered",
                 !.grouped = {e \in RowsOf(request[q].society) :
                                 entries[e].debit > 0}] \in ListRequests
        BY <2>1, <3>1 DEF ListRequests
      <3> QED
        BY <1>1, <2>1, <2>5, <3>2 DEF GroupRows, InFlight, TypeOK
    <2> QED
      BY <1>9, <2>3, <2>4, <2>5
  <1>10. ASSUME Leave(q)
         PROVE  TypeOK'
    BY <1>1, <1>10 DEF Leave, InFlight
  <1> QED
    BY <1>3, <1>4, <1>5, <1>6, <1>7, <1>8, <1>9, <1>10
    DEF Moves, Create, Reverse, List

-----------------------------------------------------------------------------
(* Steps that write *)

\* The two ways a row comes to be.
InsertsNew(q, e) ==
    /\ request[q].op = "create"
    /\ Inserts(e, NewRow(request[q]))

InsertsMirror(q, e) ==
    /\ request[q].op = "reversing"
    /\ Inserts(e, Mirror(request[q].entry, request[q].caller, request[q].saw))

\* Every step leaves the table alone or inserts one row in one of these ways,
\* and then its request is finished.
LEMMA StepKinds ==
    ASSUME TypeOK, ReversesAreEntitled, Next
    PROVE  \/ UNCHANGED entries
           \/ \E q \in Requests, e \in EntryIds :
                 /\ InsertsNew(q, e) \/ InsertsMirror(q, e)
                 /\ request' = [request EXCEPT ![q] = Idle]
  <1>0. CASE \E u \in Users, s \in Societies : MoveIn(u, s)
    BY <1>0 DEF MoveIn
  <1> SUFFICES ASSUME NEW q \in Requests, Moves(q)
               PROVE  \/ UNCHANGED entries
                      \/ \E e \in EntryIds :
                            /\ InsertsNew(q, e) \/ InsertsMirror(q, e)
                            /\ request' = [request EXCEPT ![q] = Idle]
    BY <1>0 DEF Next, Moves
  <1>1. ASSUME NEW e \in EntryIds, CreateCommit(q, e), ~UNCHANGED entries
        PROVE  InsertsNew(q, e) /\ request' = [request EXCEPT ![q] = Idle]
    <2>1. OneSided(NewRow(request[q]))
      BY <1>1 DEF CreateCommit
    <2>2. NewRow(request[q]) \in Rows
      BY <1>1, OpTells, NewRowType DEF CreateCommit
    <2> QED
      BY <1>1, <2>1, <2>2 DEF CreateCommit, InsertsNew, Inserts
  <1>2. ASSUME NEW e \in EntryIds, ReverseCommit(q, e)
        PROVE  InsertsMirror(q, e) /\ request' = [request EXCEPT ![q] = Idle]
    <2>1. /\ request[q].entry \in Written
          /\ request[q].caller \in Callers
          /\ request[q].saw \in SUBSET EntryIds
      BY <1>2, OpTells DEF ReverseCommit, ReversesAreEntitled, ReverseRequests
    <2> QED
      BY <1>2, <2>1, MirrorType DEF ReverseCommit, InsertsMirror, Inserts
  <1>3. ASSUME \/ \E caller \in Callers, s \in Societies, head \in Heads,
                     credit, debit \in Amounts :
                        CreateStart(q, caller, s, head, credit, debit)
               \/ \E caller \in Callers, e \in EntryIds :
                        ReverseStart(q, caller, e)
               \/ ReverseSelect(q) \/ List(q) \/ Leave(q)
        PROVE  UNCHANGED entries
    BY <1>3 DEF CreateStart, ReverseStart, ReverseSelect, List, ListStart,
                ListRows, SumRows, GroupRows, Leave
  <1> QED
    BY <1>1, <1>2, <1>3 DEF Moves, Create, Reverse

\* A written row stays, unaltered.
LEMMA RowsStay ==
    ASSUME TypeOK, ReversesAreEntitled, Next
    PROVE  /\ \A d \in Written : d \in Written' /\ entries'[d] = entries[d]
           /\ \A d, e \in Written' \ Written : d = e
  <1>1. CASE UNCHANGED entries
    BY <1>1 DEF Written
  <1>2. ASSUME NEW e, NEW row, Inserts(e, row)
        PROVE  /\ \A d \in Written : d \in Written' /\ entries'[d] = entries[d]
               /\ \A d, f \in Written' \ Written : d = f
    BY <1>2, InsertEffect
  <1> QED
    BY <1>1, <1>2, StepKinds DEF InsertsNew, InsertsMirror

-----------------------------------------------------------------------------
(* What requests know stays true *)

\* The op that each step leaves its request q with; the other requests stand
\* where they stood.
StepLeaves(q, op) ==
    /\ request'[q].op = op
    /\ \A p \in Requests : p # q => request'[p] = request[p]

LEMMA StepOps ==
    ASSUME TypeOK, NEW q \in Requests
    PROVE  /\ \A caller \in Callers, s \in Societies, head \in Heads,
                 credit, debit \in Amounts :
                 CreateStart(q, caller, s, head, credit, debit) =>
                    StepLeaves(q, "create")
           /\ \A e \in EntryIds : CreateCommit(q, e) => StepLeaves(q, "idle")
           /\ \A caller \in Callers, e \in EntryIds :
                 ReverseStart(q, caller, e) => StepLeaves(q, "reverse")
           /\ ReverseSelect(q) =>
                 StepLeaves(q, "idle") \/ StepLeaves(q, "reversing")
           /\ \A e \in EntryIds : ReverseCommit(q, e) => StepLeaves(q, "idle")
           /\ \A caller \in Callers, s \in Societies :
                 ListStart(q, caller, s) => StepLeaves(q, "list")
           /\ ListRows(q) => StepLeaves(q, "total")
           /\ SumRows(q) => StepLeaves(q, "group")
           /\ GroupRows(q) => StepLeaves(q, "answered")
           /\ Leave(q) => StepLeaves(q, "idle")
  <1>1. ASSUME NEW caller \in Callers, NEW s \in Societies, NEW head \in Heads,
               NEW credit \in Amounts, NEW debit \in Amounts,
               CreateStart(q, caller, s, head, credit, debit)
        PROVE  StepLeaves(q, "create")
    BY <1>1 DEF CreateStart, TypeOK, StepLeaves
  <1>2. ASSUME NEW caller \in Callers, NEW e \in EntryIds,
               ReverseStart(q, caller, e)
        PROVE  StepLeaves(q, "reverse")
    BY <1>2 DEF ReverseStart, TypeOK, StepLeaves
  <1>3. ASSUME NEW caller \in Callers, NEW s \in Societies,
               ListStart(q, caller, s)
        PROVE  StepLeaves(q, "list")
    BY <1>3 DEF ListStart, TypeOK, StepLeaves
  <1>4. ASSUME \/ \E e \in EntryIds : CreateCommit(q, e) \/ ReverseCommit(q, e)
               \/ Leave(q)
        PROVE  StepLeaves(q, "idle")
    BY <1>4 DEF CreateCommit, ReverseCommit, Leave, Idle, TypeOK, StepLeaves
  <1>5. ASSUME ReverseSelect(q)
        PROVE  StepLeaves(q, "idle") \/ StepLeaves(q, "reversing")
    <2>1. request[q] \in ReverseRequests
      BY <1>5, OpTells DEF ReverseSelect
    <2>2. [request[q] EXCEPT !.op = "reversing", !.saw = Written].op
             = "reversing"
      BY <2>1 DEF ReverseRequests
    <2>3. CASE Reversible(request[q].entry)
      BY <1>5, <2>2, <2>3 DEF ReverseSelect, TypeOK, StepLeaves
    <2>4. CASE ~Reversible(request[q].entry)
      BY <1>5, <2>4 DEF ReverseSelect, Idle, TypeOK, StepLeaves
    <2> QED
      BY <2>3, <2>4
  <1>6. /\ ListRows(q) => StepLeaves(q, "total")
        /\ SumRows(q) => StepLeaves(q, "group")
        /\ GroupRows(q) => StepLeaves(q, "answered")
    <2>1. ListRows(q) \/ SumRows(q) \/ GroupRows(q) =>
             request[q] \in ListRequests
      BY OpTells DEF ListRows, SumRows, GroupRows, Reading
    <2> QED
      BY <2>1 DEF ListRows, SumRows, GroupRows, TypeOK, ListRequests, StepLeaves
  <1> QED
    BY <1>1, <1>2, <1>3, <1>4, <1>5, <1>6

\* A creation in flight is entitled.
LEMMA NextCreates ==
    ASSUME TypeOK, CreatesAreEntitled, NEW q \in Requests, Moves(q)
    PROVE  CreatesAreEntitled'
  <1>1. ASSUME NEW op, StepLeaves(q, op), op # "create"
        PROVE  CreatesAreEntitled'
    BY <1>1 DEF CreatesAreEntitled, StepLeaves
  <1>2. ASSUME NEW caller \in Callers, NEW s \in Societies, NEW head \in Heads,
               NEW credit \in Amounts, NEW debit \in Amounts,
               CreateStart(q, caller, s, head, credit, debit)
        PROVE  CreatesAreEntitled'
    BY <1>2 DEF CreateStart, CreatesAreEntitled, TypeOK
  <1> QED
    BY <1>1, <1>2, StepOps DEF Moves, Create, Reverse, List

\* What ReversesAreEntitled says of one request, in terms of its record.
Entitled(rec) ==
    /\ CanManageSociety(rec.caller.role)
    /\ rec.entry \in Written
    /\ Permits(rec.caller, BuilderOf[entries[rec.entry].society])
    /\ rec.op = "reversing" =>
          /\ ~IsReversal(rec.entry)
          /\ rec.saw \subseteq Written
          /\ \A r \in rec.saw : entries[r].reverses # rec.entry

\* Entitlement, once there, is not lost by any step.
LEMMA EntitlementStays ==
    ASSUME TypeOK, ReversesAreEntitled, Next, NEW rec, Entitled(rec)
    PROVE  /\ rec.entry \in Written'
           /\ Permits(rec.caller, BuilderOf[entries'[rec.entry].society])
           /\ CanManageSociety(rec.caller.role)
           /\ rec.op = "reversing" =>
                 /\ entries'[rec.entry].reverses = NoEntry
                 /\ rec.saw \subseteq Written'
                 /\ \A r \in rec.saw : entries'[r].reverses # rec.entry
  BY RowsStay DEF Entitled, IsReversal

\* A reversal in flight is entitled, and about an original.
LEMMA NextReverses ==
    ASSUME TypeOK, ReversesAreEntitled, NEW q \in Requests, Moves(q)
    PROVE  ReversesAreEntitled'
  <1> Next
    BY DEF Next, Moves
  <1> DEFINE Goal(rec) == /\ CanManageSociety(rec.caller.role)
                          /\ rec.entry \in Written'
                          /\ Permits(rec.caller,
                                     BuilderOf[entries'[rec.entry].society])
                          /\ rec.op = "reversing" =>
                                /\ entries'[rec.entry].reverses = NoEntry
                                /\ rec.saw \subseteq Written'
                                /\ \A r \in rec.saw :
                                      entries'[r].reverses # rec.entry
  <1>0. ASSUME \A p \in Requests :
                  request'[p].op \in {"reverse", "reversing"} =>
                     Goal(request'[p])
        PROVE  ReversesAreEntitled'
    BY <1>0 DEF ReversesAreEntitled, IsReversal
  <1>1. ASSUME NEW p \in Requests, request'[p] = request[p],
               request'[p].op \in {"reverse", "reversing"}
        PROVE  Goal(request'[p])
    <2>1. Entitled(request[p])
      BY <1>1 DEF ReversesAreEntitled, Entitled
    <2> QED
      BY <1>1, <2>1, EntitlementStays
  <1>2. ASSUME NEW op, StepLeaves(q, op), op \notin {"reverse", "reversing"}
        PROVE  ReversesAreEntitled'
    BY <1>0, <1>1, <1>2 DEF StepLeaves
  <1>3. ASSUME NEW caller \in Callers, NEW e \in EntryIds,
               ReverseStart(q, caller, e)
        PROVE  ReversesAreEntitled'
    <2>1. /\ e \in Written
          /\ Permits(caller, BuilderOf[entries[e].society])
          /\ CanManageSociety(caller.role)
      BY <1>3, NoBuilderAssumption DEF ReverseStart, TenantOf, Permits
    <2>2. /\ request'[q] = [op |-> "reverse", caller |-> caller, entry |-> e,
                         saw |-> {}]
          /\ UNCHANGED entries
      BY <1>3 DEF ReverseStart, TypeOK
    <2>3. Goal(request'[q])
      BY <2>1, <2>2 DEF Written
    <2> QED
      BY <1>0, <1>1, <1>3, <2>3, StepOps DEF StepLeaves
  <1>4. ASSUME ReverseSelect(q)
        PROVE  ReversesAreEntitled'
    <2>1. CASE ~Reversible(request[q].entry)
      <3>1. request'[q].op = "idle"
        BY <1>4, <2>1 DEF ReverseSelect, TypeOK, Idle
      <3> QED
        BY <1>0, <1>1, <1>4, <3>1, StepOps DEF StepLeaves
    <2>2. CASE Reversible(request[q].entry)
      <3>1. request[q] \in ReverseRequests /\ Entitled(request[q])
        BY <1>4, OpTells DEF ReverseSelect, ReversesAreEntitled, Entitled
      <3>2. /\ request'[q] = [request[q] EXCEPT !.op = "reversing",
                                                !.saw = Written]
            /\ UNCHANGED entries
        BY <1>4, <2>2 DEF ReverseSelect, TypeOK
      <3>3. /\ request'[q].caller = request[q].caller
            /\ request'[q].entry = request[q].entry
            /\ request'[q].saw = Written
        BY <3>1, <3>2 DEF ReverseRequests
      <3>4. Goal(request'[q])
        BY <2>2, <3>1, <3>2, <3>3
        DEF Entitled, Reversible, ReversalsOf, IsReversal, Written
      <3> QED
        BY <1>0, <1>1, <1>4, <3>4, StepOps DEF StepLeaves
    <2> QED
      BY <2>1, <2>2
  <1> QED
    BY <1>2, <1>3, <1>4, StepOps DEF Moves, Create, Reverse, List

\* What WasLetIn says of a page, in terms of its record.
LetIn(rec) ==
    \/ MayRead(rec.caller, rec.society)
    \/ <<rec.caller.user, rec.society>> \in former \ rec.gone

\* A page in flight holds rows of one ledger its caller may read, and nests.
LEMMA NextPages ==
    ASSUME TypeOK, ReversesAreEntitled, PagesAreEntitled, PagesNest,
           NEW q \in Requests, Moves(q)
    PROVE  PagesAreEntitled' /\ PagesNest'
  <1> Next
    BY DEF Next, Moves
  <1> DEFINE
        NextRowsOf(s) == {e \in Written' : entries'[e].society = s}
        Fits(p) == /\ LetIn(request'[p])
                   /\ request'[p].gone \subseteq former
                   /\ request'[p].seen \cup request'[p].counted
                         \cup request'[p].grouped
                         \subseteq NextRowsOf(request'[p].society)
                   /\ request'[p].op = "group" =>
                         request'[p].seen \subseteq request'[p].counted
                   /\ request'[p].op = "answered" =>
                         /\ request'[p].seen \subseteq request'[p].counted
                         /\ {e \in request'[p].counted : entries'[e].debit > 0}
                               \subseteq request'[p].grouped
  <1>a. UNCHANGED <<residents, former>>
    BY DEF Moves, Create, Reverse, List, CreateStart, CreateCommit,
           ReverseStart, ReverseSelect, ReverseCommit, ListStart, ListRows,
           SumRows, GroupRows, Leave
  <1>0. ASSUME \A p \in Requests : Reading(p)' => Fits(p)
        PROVE  PagesAreEntitled' /\ PagesNest'
    BY <1>0, <1>a DEF PagesAreEntitled, PagesNest, Reading, RowsOf, Written,
                      WasLetIn, MayRead, LetIn
  <1>1. ASSUME NEW p \in Requests, request'[p] = request[p], Reading(p)'
        PROVE  Fits(p)
    <2>1. Reading(p)
      BY <1>1 DEF Reading
    <2>2. RowsOf(request[p].society) \subseteq NextRowsOf(request[p].society)
      BY RowsStay DEF RowsOf
    <2>3. request[p].counted \subseteq Written
      BY <2>1 DEF PagesAreEntitled, RowsOf
    <2>4. \A e \in request[p].counted : entries'[e] = entries[e]
      BY <2>3, RowsStay
    <2> HIDE DEF NextRowsOf
    <2> QED
      BY <1>1, <2>1, <2>2, <2>4 DEF PagesAreEntitled, PagesNest, WasLetIn, LetIn
  <1>2. ASSUME NEW op, StepLeaves(q, op),
               op \notin {"list", "total", "group", "answered"}
        PROVE  PagesAreEntitled' /\ PagesNest'
    BY <1>0, <1>1, <1>2 DEF StepLeaves, Reading
  <1>3. ASSUME NEW op, StepLeaves(q, op), Fits(q)
        PROVE  PagesAreEntitled' /\ PagesNest'
    BY <1>0, <1>1, <1>3 DEF StepLeaves
  <1>4. ASSUME NEW caller \in Callers, NEW s \in Societies,
               ListStart(q, caller, s)
        PROVE  PagesAreEntitled' /\ PagesNest'
    <2>1. Fits(q)
      BY <1>4 DEF ListStart, TypeOK, LetIn
    <2> QED
      BY <1>3, <1>4, <2>1, StepOps
  <1>5. ASSUME ListRows(q) \/ SumRows(q) \/ GroupRows(q)
        PROVE  PagesAreEntitled' /\ PagesNest'
    <2>1. /\ request[q] \in ListRequests
          /\ Reading(q)
          /\ UNCHANGED entries
      BY <1>5, OpTells DEF ListRows, SumRows, GroupRows, Reading
    <2> DEFINE here == RowsOf(request[q].society)
    <2>3. /\ LetIn(request[q])
          /\ request[q].gone \subseteq former
          /\ request[q].seen \cup request[q].counted \cup request[q].grouped
                \subseteq here
      BY <2>1 DEF PagesAreEntitled, WasLetIn, LetIn
    <2> HIDE DEF here
    <2>4. CASE ListRows(q)
      <3>1. request'[q] = [request[q] EXCEPT !.op = "total", !.seen = here]
        BY <2>1, <2>4 DEF ListRows, TypeOK, here
      <3>2. /\ request'[q].op = "total" /\ request'[q].seen = here
            /\ request'[q].counted = request[q].counted
            /\ request'[q].grouped = request[q].grouped
            /\ request'[q].caller = request[q].caller
            /\ request'[q].society = request[q].society
            /\ request'[q].gone = request[q].gone
            /\ LetIn(request'[q])
        BY <2>1, <2>3, <3>1 DEF ListRequests, LetIn
      <3>3. NextRowsOf(request'[q].society) = here
        BY <2>1, <3>2 DEF here, RowsOf, Written
      <3> QED
        BY <1>3, <2>3, <2>4, <3>2, <3>3, StepOps
    <2>5. CASE SumRows(q)
      <3>1. request'[q] = [request[q] EXCEPT !.op = "group", !.counted = here]
        BY <2>1, <2>5 DEF SumRows, TypeOK, here
      <3>2. /\ request'[q].op = "group" /\ request'[q].seen = request[q].seen
            /\ request'[q].counted = here
            /\ request'[q].grouped = request[q].grouped
            /\ request'[q].caller = request[q].caller
            /\ request'[q].society = request[q].society
            /\ request'[q].gone = request[q].gone
            /\ LetIn(request'[q])
        BY <2>1, <2>3, <3>1 DEF ListRequests, LetIn
      <3>3. NextRowsOf(request'[q].society) = here
        BY <2>1, <3>2 DEF here, RowsOf, Written
      <3> QED
        BY <1>3, <2>3, <2>5, <3>2, <3>3, StepOps
    <2>6. CASE GroupRows(q)
      <3> DEFINE debits == {e \in here : entries[e].debit > 0}
      <3>1. request'[q] = [request[q] EXCEPT !.op = "answered",
                                             !.grouped = debits]
        BY <2>1, <2>6 DEF GroupRows, TypeOK, here
      <3>2. /\ request'[q].op = "answered"
            /\ request'[q].seen = request[q].seen
            /\ request'[q].counted = request[q].counted
            /\ request'[q].grouped = debits
            /\ request'[q].caller = request[q].caller
            /\ request'[q].society = request[q].society
            /\ request'[q].gone = request[q].gone
            /\ LetIn(request'[q])
        BY <2>1, <2>3, <3>1 DEF ListRequests, LetIn
      <3>3. NextRowsOf(request'[q].society) = here
        BY <2>1, <3>2 DEF here, RowsOf, Written
      <3>4. request[q].seen \subseteq request[q].counted
        BY <2>1, <2>6 DEF GroupRows, PagesAreEntitled
      <3> QED
        BY <1>3, <2>1, <2>3, <2>6, <3>2, <3>3, <3>4, StepOps
    <2> QED
      BY <1>5, <2>4, <2>5, <2>6
  <1> QED
    BY <1>2, <1>4, <1>5, StepOps DEF Moves, Create, Reverse, List

-----------------------------------------------------------------------------
(* What rows say stays true *)

\* Every reversal mirrors an original.
LEMMA NextMirrors ==
    ASSUME TypeOK, ReversesAreEntitled, ReversalsMirror, Next
    PROVE  ReversalsMirror'
  <1> DEFINE
        Mirrored(r) == LET o == entries'[r].reverses
                       IN  /\ o \in Written'
                           /\ entries'[o].reverses = NoEntry
                           /\ entries'[r].society = entries'[o].society
                           /\ entries'[r].head    = entries'[o].head
                           /\ entries'[r].credit  = entries'[o].debit
                           /\ entries'[r].debit   = entries'[o].credit
  <1> SUFFICES ASSUME NEW r \in Written', entries'[r].reverses # NoEntry
               PROVE  Mirrored(r)
    BY DEF ReversalsMirror, IsReversal
  <1>1. CASE r \in Written
    BY <1>1, RowsStay DEF ReversalsMirror, IsReversal
  <1>2. CASE r \notin Written
    <2>1. PICK q \in Requests, e \in EntryIds :
             InsertsNew(q, e) \/ InsertsMirror(q, e)
      BY <1>2, StepKinds DEF Written
    <2>2. r = e /\ (\A d \in Written : d \in Written' /\ entries'[d] = entries[d])
      BY <1>2, <2>1, InsertEffect DEF InsertsNew, InsertsMirror
    <2>3. CASE InsertsNew(q, e)
      BY <2>2, <2>3, InsertEffect DEF InsertsNew, NewRow
    <2>4. CASE InsertsMirror(q, e)
      <3>1. entries'[r] = Mirror(request[q].entry, request[q].caller,
                                  request[q].saw)
        BY <2>2, <2>4, InsertEffect DEF InsertsMirror
      <3>2. request[q].entry \in Written /\ ~IsReversal(request[q].entry)
        BY <2>4 DEF InsertsMirror, ReversesAreEntitled
      <3> QED
        BY <2>2, <3>1, <3>2 DEF Mirror, IsReversal
    <2> QED
      BY <2>1, <2>3, <2>4
  <1> QED
    BY <1>1, <1>2

\* Every author was entitled.
LEMMA NextWriters ==
    ASSUME TypeOK, CreatesAreEntitled, ReversesAreEntitled, WritersAreTenants,
           Next
    PROVE  WritersAreTenants'
  <1> SUFFICES ASSUME NEW r \in Written'
               PROVE  /\ CanManageSociety(entries'[r].by.role)
                      /\ Permits(entries'[r].by, BuilderOf[entries'[r].society])
    BY DEF WritersAreTenants
  <1>1. CASE r \in Written
    BY <1>1, RowsStay DEF WritersAreTenants
  <1>2. CASE r \notin Written
    <2>1. PICK q \in Requests, e \in EntryIds :
             InsertsNew(q, e) \/ InsertsMirror(q, e)
      BY <1>2, StepKinds DEF Written
    <2>2. r = e
      BY <1>2, <2>1, InsertEffect DEF InsertsNew, InsertsMirror
    <2>3. CASE InsertsNew(q, e)
      BY <2>2, <2>3, InsertEffect DEF InsertsNew, NewRow, CreatesAreEntitled
    <2>4. CASE InsertsMirror(q, e)
      BY <2>2, <2>4, InsertEffect
      DEF InsertsMirror, Mirror, ReversesAreEntitled
    <2> QED
      BY <2>1, <2>3, <2>4
  <1> QED
    BY <1>1, <1>2

\* A statement's snapshot is older than its row.
LEMMA NextSaw ==
    ASSUME TypeOK, ReversesAreEntitled, SawThePast, Next
    PROVE  SawThePast'
  <1> SUFFICES ASSUME NEW r \in Written'
               PROVE  entries'[r].saw \subseteq Written' \ {r}
    BY DEF SawThePast
  <1>1. CASE r \in Written
    BY <1>1, RowsStay DEF SawThePast
  <1>2. CASE r \notin Written
    <2>1. PICK q \in Requests, e \in EntryIds :
             InsertsNew(q, e) \/ InsertsMirror(q, e)
      BY <1>2, StepKinds DEF Written
    <2>2. r = e /\ Written \subseteq Written' \ {r}
      BY <1>2, <2>1, InsertEffect DEF InsertsNew, InsertsMirror
    <2>3. CASE InsertsNew(q, e)
      BY <2>2, <2>3, InsertEffect DEF InsertsNew, NewRow
    <2>4. CASE InsertsMirror(q, e)
      BY <2>2, <2>4, InsertEffect DEF InsertsMirror, Mirror, ReversesAreEntitled
    <2> QED
      BY <2>1, <2>3, <2>4
  <1> QED
    BY <1>1, <1>2

\* A second reversal's statement did not see the first, which had not seen a
\* row that was not yet there.
LEMMA NextDoubled ==
    ASSUME TypeOK, ReversesAreEntitled, ReversalsMirror, SawThePast,
           DoubledByOverlapOnly, Next
    PROVE  DoubledByOverlapOnly'
  <1> SUFFICES ASSUME NEW o \in Written', o # NoEntry,
                      NEW r1 \in Written', entries'[r1].reverses = o,
                      NEW r2 \in Written', entries'[r2].reverses = o,
                      r1 # r2, r1 \in entries'[r2].saw
               PROVE  FALSE
    BY LedgerAssumption DEF DoubledByOverlapOnly, ReversalsOf, Written
  <1>1. CASE r1 \in Written /\ r2 \in Written
    <2>1. /\ entries'[r1] = entries[r1] /\ entries'[r2] = entries[r2]
      BY <1>1, RowsStay
    <2>2. CASE o \in Written
      BY <1>1, <2>1, <2>2 DEF DoubledByOverlapOnly, ReversalsOf
    <2>3. CASE o \notin Written
      BY <1>1, <2>1, <2>3 DEF ReversalsMirror, IsReversal
    <2> QED
      BY <2>2, <2>3
  <1>2. CASE r1 \notin Written /\ r2 \in Written
    BY <1>2, RowsStay DEF SawThePast
  <1>3. CASE r2 \notin Written
    <2>1. PICK q \in Requests, e \in EntryIds :
             InsertsNew(q, e) \/ InsertsMirror(q, e)
      BY <1>3, StepKinds DEF Written
    <2>2. CASE InsertsNew(q, e)
      BY <1>3, <2>2, InsertEffect DEF InsertsNew, NewRow
    <2>3. CASE InsertsMirror(q, e)
      <3>1. /\ request[q].entry = o
            /\ r1 \in request[q].saw
        BY <1>3, <2>3, InsertEffect DEF InsertsMirror, Mirror
      <3>2. r1 \in Written /\ entries[r1].reverses # o
        BY <2>3, <3>1 DEF InsertsMirror, ReversesAreEntitled
      <3> QED
        BY <3>2, RowsStay
    <2> QED
      BY <2>1, <2>2, <2>3
  <1> QED
    BY <1>1, <1>2, <1>3

\* The acceptance of an invitation: who moves out has been let in.
LEMMA MoveInInv ==
    ASSUME LedgerInv, NEW u \in Users, NEW s \in Societies, MoveIn(u, s)
    PROVE  LedgerInv'
  <1> PICK out \in {{}} \cup {{pair} : pair \in {pair \in residents : pair[2] = s}} :
        /\ residents' = (residents \ out) \cup {<<u, s>>}
        /\ former' = former \cup out
    BY DEF MoveIn
  <1>1. /\ UNCHANGED <<entries, request>>
        /\ out \subseteq residents
        /\ <<u, s>> \in Users \X Societies
        /\ <<u, s>> \notin residents \cup former
    BY DEF MoveIn
  <1>2. residents' \cap former' = {}
    BY <1>1 DEF LedgerInv, MovedOut
  <1>3. TypeOK'
    BY <1>1 DEF LedgerInv, TypeOK, Written, OneSided
  <1>4. ASSUME NEW q \in Requests, Reading(q)
        PROVE  /\ LetIn(request[q])'
               /\ request[q].gone \subseteq former'
    <2>1. LetIn(request[q]) /\ request[q].gone \subseteq former
      BY <1>4 DEF LedgerInv, PagesAreEntitled, WasLetIn, LetIn
    <2> DEFINE pair == <<request[q].caller.user, request[q].society>>
    <2>2. CASE IsStaff(request[q].caller.role)
      BY <1>1, <2>1, <2>2 DEF LetIn, MayRead
    <2>3. CASE pair \in residents
      BY <1>1, <2>1, <2>3 DEF LedgerInv, MovedOut, LetIn, MayRead
    <2>4. CASE pair \in former \ request[q].gone
      BY <1>1, <2>1, <2>4 DEF LetIn, MayRead
    <2> QED
      BY <2>1, <2>2, <2>3, <2>4 DEF LetIn, MayRead
  <1>5. PagesAreEntitled'
    BY <1>1, <1>4 DEF LedgerInv, PagesAreEntitled, Reading, RowsOf, Written,
                      WasLetIn, LetIn
  <1> QED
    BY <1>1, <1>2, <1>3, <1>5
    DEF LedgerInv, ReversalsMirror, CreatesAreEntitled, ReversesAreEntitled,
        WritersAreTenants, PagesNest, SawThePast, MovedOut,
        DoubledByOverlapOnly, Written, IsReversal, ReversalsOf

-----------------------------------------------------------------------------
(* The theorems *)

LEMMA InitInv == Init => LedgerInv
  BY InitType
  DEF Init, Idle, LedgerInv, ReversalsMirror, CreatesAreEntitled,
      ReversesAreEntitled, PagesAreEntitled, WritersAreTenants, PagesNest,
      SawThePast, MovedOut, DoubledByOverlapOnly, Written, Reading

LEMMA NextInv == ASSUME LedgerInv, [Next]_vars PROVE LedgerInv'
  <1>1. CASE \E u \in Users, s \in Societies : MoveIn(u, s)
    BY <1>1, MoveInInv
  <1>2. ASSUME NEW q \in Requests, Moves(q)
        PROVE  LedgerInv'
    <2>1. Next
      BY <1>2 DEF Next, Moves
    <2>2. UNCHANGED <<residents, former>>
      BY <1>2 DEF Moves, Create, Reverse, List, CreateStart, CreateCommit,
                  ReverseStart, ReverseSelect, ReverseCommit, ListStart,
                  ListRows, SumRows, GroupRows, Leave
    <2> QED
      BY <1>2, <2>1, <2>2, NextType, NextMirrors, NextCreates, NextReverses,
         NextPages, NextWriters, NextSaw, NextDoubled DEF LedgerInv, MovedOut
  <1>3. CASE UNCHANGED vars
    <2>1. UNCHANGED <<entries, residents, former, request>>
      BY <1>3 DEF vars
    <2>2. PagesAreEntitled'
      BY <2>1 DEF LedgerInv, PagesAreEntitled, Reading, RowsOf, Written,
                  WasLetIn, MayRead
    <2> QED
      BY <2>1, <2>2
      DEF LedgerInv, TypeOK, ReversalsMirror, CreatesAreEntitled,
          ReversesAreEntitled, WritersAreTenants, PagesNest, SawThePast,
          MovedOut, DoubledByOverlapOnly, Written, IsReversal, ReversalsOf,
          OneSided
  <1> QED
    BY <1>1, <1>2, <1>3 DEF Next, Moves

\* The inductive invariant holds throughout.
THEOREM LedgerInvariant == Spec => []LedgerInv
  BY InitInv, NextInv, PTL DEF Spec

\* Every variable stays in its type.
THEOREM LedgerTypes == Spec => []TypeOK
  BY LedgerInvariant, PTL DEF LedgerInv

\* Every reversal is the mirror image of an original of the same ledger.
THEOREM LedgerMirrors == Spec => []ReversalsMirror
  BY LedgerInvariant, PTL DEF LedgerInv

\* Nobody writes into another builder's ledger.
THEOREM LedgerWriters == Spec => []WritersAreTenants
  BY LedgerInvariant, PTL DEF LedgerInv

\* Nobody reads one: a resident who loses the plot while a page is being read
\* sees at most the ledger he was let into.
THEOREM LedgerReaders == Spec => []ReadersAreTenants
  <1>1. LedgerInv => ReadersAreTenants
    BY DEF LedgerInv, PagesAreEntitled, ReadersAreTenants, RowsOf
  <1> QED
    BY <1>1, LedgerInvariant, PTL

\* An entry is reversed twice only by statements that overlapped.
THEOREM LedgerDoubled == Spec => []DoubledByOverlapOnly
  BY LedgerInvariant, PTL DEF LedgerInv

\* A page never lists what its totals leave out.
THEOREM LedgerPages == Spec => []PagesNest
  BY LedgerInvariant, PTL DEF LedgerInv

\* No row is ever altered or removed.
THEOREM LedgerAppendOnly == Spec => AppendOnly
  <1>1. LedgerInv /\ [Next]_vars =>
           [ /\ \A e \in Written : entries'[e] = entries[e]
             /\ \A d, e \in Written' \ Written : d = e ]_vars
    BY RowsStay DEF LedgerInv
  <1> QED
    BY <1>1, LedgerInvariant, PTL DEF Spec, AppendOnly
-----------------------------------------------------------------------------
(* The ledger keeps its promise *)

LEMMA PromiseInit == Init => Promise!Init
  BY DEF Init, Promise!Init, Book, Line, Undone, Claims, Idle, Written

\* The line of a row that has just been inserted, and of all the others.
LEMMA BookAfter ==
    ASSUME TypeOK, NEW e \in EntryIds, NEW row, Inserts(e, row)
    PROVE  /\ Book' = [Book EXCEPT ![e] = [account |-> AccountOf(row),
                                           credit |-> row.credit,
                                           debit  |-> row.debit]]
           /\ Book[e] = NoEntry
           /\ \A d \in Written : Book[d] = [account |-> AccountOf(entries[d]),
                                            credit |-> entries[d].credit,
                                            debit  |-> entries[d].debit]
           /\ Book'[e] = [account |-> AccountOf(row),
                          credit |-> row.credit,
                          debit  |-> row.debit]
           /\ Undone' = IF row.reverses = NoEntry
                        THEN Undone ELSE Undone \cup {<<e, row.reverses>>}
  <1>1. /\ Written' = Written \cup {e} /\ e \notin Written
        /\ entries'[e] = row
        /\ \A d \in Written : entries'[d] = entries[d]
        /\ Written \subseteq EntryIds
    BY InsertEffect DEF Inserts, Written
  <1>2. \A d \in EntryIds : d # e => Line(d)' = Line(d)
    BY <1>1 DEF Line, AccountOf
  <1>3. Line(e)' = [account |-> AccountOf(row), credit |-> row.credit,
                    debit |-> row.debit]
    BY <1>1 DEF Line, AccountOf
  <1>4. Undone' = {<<r, entries'[r].reverses>> :
                      r \in {d \in Written' : entries'[d].reverses # NoEntry}}
    BY DEF Undone, IsReversal
  <1>5. Undone' = IF row.reverses = NoEntry
                  THEN Undone ELSE Undone \cup {<<e, row.reverses>>}
    BY <1>1, <1>4 DEF Undone, IsReversal
  <1> QED
    BY <1>1, <1>2, <1>3, <1>5 DEF Book, Line

\* A line has the type the promise gives it.
LEMMA PostingType ==
    ASSUME NEW row \in Rows
    PROVE  /\ [account |-> AccountOf(row), credit |-> row.credit,
               debit |-> row.debit] \in Promise!Postings
           /\ [account |-> AccountOf(row), credit |-> row.credit,
               debit |-> row.debit] # NoEntry
  BY NoLineAssumption DEF Rows, AccountOf, Accounts, Promise!Postings

\* What is posted is what is written.
LEMMA PostedIsWritten ==
    ASSUME TypeOK
    PROVE  Promise!Posted = Written
  <1>1. \A d \in Written : Book[d] # NoEntry
    <2> TAKE d \in Written
    <2>1. entries[d] \in Rows /\ d \in EntryIds
      BY WrittenType
    <2> QED
      BY <2>1, PostingType DEF Book, Line
  <1>2. \A d \in EntryIds \ Written : Book[d] = NoEntry
    BY DEF Book, Line
  <1> QED
    BY <1>1, <1>2 DEF Promise!Posted, Written

\* A request that is not left with a statement under way claims nothing.
LEMMA ClaimsAfter ==
    ASSUME NEW q \in Requests, NEW op, StepLeaves(q, op), op # "reversing"
    PROVE  Claims' = [Claims EXCEPT ![q] = NoEntry]
  BY DEF StepLeaves, Claims

\* An INSERT of a new row posts a line.
LEMMA NewIsPost ==
    ASSUME LedgerInv, NEW q \in Requests, NEW e \in EntryIds, InsertsNew(q, e),
           StepLeaves(q, "idle")
    PROVE  Promise!Post(e)
  <1> DEFINE row == NewRow(request[q])
  <1>1. TypeOK /\ Inserts(e, row) /\ row.reverses = NoEntry
    BY DEF LedgerInv, InsertsNew, NewRow
  <1> HIDE DEF row
  <1>2. e \notin Promise!Posted
    BY <1>1, PostedIsWritten DEF Inserts
  <1>3. /\ Book'[e] = [account |-> AccountOf(row), credit |-> row.credit,
                       debit |-> row.debit]
        /\ Book' = [Book EXCEPT ![e] = Book'[e]]
        /\ UNCHANGED Undone
    BY <1>1, BookAfter
  <1>4. Book'[e] \in Promise!Postings
    BY <1>1, <1>3, PostingType DEF Inserts
  <1>5. (Book'[e].credit > 0) # (Book'[e].debit > 0)
    BY <1>1, <1>3 DEF Inserts, OneSided
  <1>6. UNCHANGED Claims
    BY ClaimsAfter DEF InsertsNew, Claims
  <1> QED
    BY <1>2, <1>3, <1>4, <1>5, <1>6 DEF Promise!Post

\* The snapshot that finds an entry reversible claims its line.
LEMMA SelectIsClaim ==
    ASSUME LedgerInv, NEW q \in Requests, ReverseSelect(q),
           Reversible(request[q].entry)
    PROVE  Promise!Claim(q, request[q].entry)
  <1> DEFINE o == request[q].entry
  <1>1. TypeOK /\ request[q] \in ReverseRequests
    BY OpTells DEF LedgerInv, ReverseSelect
  <1>2. o \in Promise!Posted
    BY <1>1, PostedIsWritten DEF Reversible
  <1>3. \A pair \in Undone : o # pair[1] /\ o # pair[2]
    BY DEF Undone, Reversible, IsReversal, ReversalsOf
  <1>4. /\ request'[q].op = "reversing" /\ request'[q].entry = o
        /\ \A p \in Requests : p # q => request'[p] = request[p]
        /\ UNCHANGED entries
    BY <1>1 DEF ReverseSelect, ReverseRequests, TypeOK
  <1>5. Claims' = [Claims EXCEPT ![q] = o]
    BY <1>4 DEF Claims
  <1>6. UNCHANGED <<Book, Undone>>
    BY <1>4 DEF Book, Line, Undone, Written, IsReversal, AccountOf
  <1> QED
    BY <1>2, <1>3, <1>5, <1>6 DEF Promise!Claim

\* The INSERT of a mirror row undoes the line that was claimed.
LEMMA MirrorIsUndo ==
    ASSUME LedgerInv, NEW q \in Requests, NEW e \in EntryIds,
           InsertsMirror(q, e), StepLeaves(q, "idle")
    PROVE  Promise!Undo(e, q)
  <1> DEFINE o == request[q].entry
             row == Mirror(o, request[q].caller, request[q].saw)
  <1>1. /\ TypeOK /\ Inserts(e, row)
        /\ o \in Written /\ Claims[q] = o
    BY DEF LedgerInv, InsertsMirror, ReversesAreEntitled, Claims
  <1>2. /\ row.reverses = o /\ AccountOf(row) = AccountOf(entries[o])
        /\ row.credit = entries[o].debit /\ row.debit = entries[o].credit
        /\ o # NoEntry
    BY <1>1, LedgerAssumption DEF Mirror, AccountOf, Written
  <1> HIDE DEF o, row
  <1>3. e \notin Promise!Posted /\ o \in Promise!Posted
    BY <1>1, PostedIsWritten DEF Inserts
  <1>4. /\ Book' = [Book EXCEPT ![e] = [account |-> Book[o].account,
                                        credit  |-> Book[o].debit,
                                        debit   |-> Book[o].credit]]
        /\ Undone' = Undone \cup {<<e, o>>}
    <2>1. Book[o] = [account |-> AccountOf(entries[o]),
                     credit |-> entries[o].credit,
                     debit  |-> entries[o].debit]
      BY <1>1, BookAfter
    <2>2. Book' = [Book EXCEPT ![e] = [account |-> AccountOf(row),
                                       credit |-> row.credit,
                                       debit  |-> row.debit]]
      BY <1>1, BookAfter
    <2>3. Undone' = Undone \cup {<<e, row.reverses>>}
      BY <1>1, <1>2, BookAfter
    <2> QED
      BY <1>2, <2>1, <2>2, <2>3
  <1>5. Claims' = [Claims EXCEPT ![q] = NoEntry]
    BY ClaimsAfter
  <1> QED
    BY <1>1, <1>3, <1>4, <1>5 DEF Promise!Undo

\* Any other step of a request leaves the book, and drops what the request had
\* claimed.
LEMMA ElseIsDrop ==
    ASSUME NEW q \in Requests, NEW op, StepLeaves(q, op), op # "reversing",
           UNCHANGED entries
    PROVE  Promise!Drop(q)
  <1>1. UNCHANGED <<Book, Undone>>
    BY DEF Book, Line, Undone, Written, IsReversal, AccountOf
  <1> QED
    BY <1>1, ClaimsAfter DEF Promise!Drop

\* Every step of a request is a step of the promise.
LEMMA MoveIsPromised ==
    ASSUME LedgerInv, NEW q \in Requests, Moves(q)
    PROVE  Promise!Next
  <1> TypeOK /\ ReversesAreEntitled
    BY DEF LedgerInv
  <1>1. CASE ReverseSelect(q) /\ Reversible(request[q].entry)
    <2>1. request[q].entry \in EntryIds
      BY <1>1, OpTells DEF ReverseSelect, ReverseRequests
    <2> QED
      BY <1>1, <2>1, SelectIsClaim DEF Promise!Next
  <1>2. CASE ReverseSelect(q) /\ ~Reversible(request[q].entry)
    <2>1. StepLeaves(q, "idle") /\ UNCHANGED entries
      BY <1>2 DEF ReverseSelect, StepLeaves, TypeOK, Idle
    <2> QED
      BY <2>1, ElseIsDrop DEF Promise!Next
  <1>3. ASSUME NEW e \in EntryIds, CreateCommit(q, e)
        PROVE  Promise!Next
    <2>1. StepLeaves(q, "idle")
      BY <1>3, StepOps
    <2>2. CASE OneSided(NewRow(request[q]))
      <3>1. NewRow(request[q]) \in Rows
        BY <1>3, OpTells, NewRowType DEF CreateCommit
      <3>2. InsertsNew(q, e)
        BY <1>3, <2>2, <3>1 DEF CreateCommit, InsertsNew, Inserts
      <3> QED
        BY <2>1, <3>2, NewIsPost DEF Promise!Next
    <2>3. CASE ~OneSided(NewRow(request[q]))
      BY <1>3, <2>1, <2>3, ElseIsDrop DEF CreateCommit, Promise!Next
    <2> QED
      BY <2>2, <2>3
  <1>4. ASSUME NEW e \in EntryIds, ReverseCommit(q, e)
        PROVE  Promise!Next
    <2>1. StepLeaves(q, "idle")
      BY <1>4, StepOps
    <2>2. /\ request[q].entry \in Written
          /\ request[q].caller \in Callers
          /\ request[q].saw \in SUBSET EntryIds
      BY <1>4, OpTells DEF ReverseCommit, ReversesAreEntitled, ReverseRequests
    <2>3. InsertsMirror(q, e)
      BY <1>4, <2>2, MirrorType DEF ReverseCommit, InsertsMirror, Inserts
    <2> QED
      BY <2>1, <2>3, MirrorIsUndo DEF Promise!Next
  <1>5. ASSUME \/ \E caller \in Callers, s \in Societies, head \in Heads,
                     credit, debit \in Amounts :
                        CreateStart(q, caller, s, head, credit, debit)
               \/ \E caller \in Callers, e \in EntryIds :
                        ReverseStart(q, caller, e)
               \/ List(q) \/ Leave(q)
        PROVE  Promise!Next
    <2>1. UNCHANGED entries
      BY <1>5 DEF CreateStart, ReverseStart, List, ListStart, ListRows, SumRows,
                  GroupRows, Leave
    <2>2. \E op \in {"create", "reverse", "list", "total", "group", "answered",
                     "idle"} : StepLeaves(q, op)
      BY <1>5, StepOps DEF List
    <2> QED
      BY <2>1, <2>2, ElseIsDrop DEF Promise!Next
  <1> QED
    BY <1>1, <1>2, <1>3, <1>4, <1>5 DEF Moves, Create, Reverse

\* Requests, statements and aborts implement the book and its claims.
THEOREM LedgerKeepsPromise == Spec => KeepsPromise
  <1>1. LedgerInv /\ [Next]_vars => [Promise!Next]_<<Book, Undone, Claims>>
    <2> SUFFICES ASSUME LedgerInv, [Next]_vars
                 PROVE  Promise!Next \/ UNCHANGED <<Book, Undone, Claims>>
      OBVIOUS
    <2>1. CASE UNCHANGED <<entries, request>>
      BY <2>1 DEF Book, Line, Undone, Claims, Written, IsReversal, AccountOf
    <2>2. ASSUME NEW q \in Requests, Moves(q)
          PROVE  Promise!Next
      BY <2>2, MoveIsPromised
    <2> QED
      BY <2>1, <2>2 DEF Next, Moves, MoveIn, vars
  <1> QED
    BY <1>1, PromiseInit, LedgerInvariant, PTL
    DEF Spec, KeepsPromise, Promise!Spec
=============================================================================
