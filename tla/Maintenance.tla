------------------------------ MODULE Maintenance ------------------------------
(***************************************************************************)
(* The one-time maintenance charge of a society: internal/maintenance over *)
(* the tables maintenance_rates and maintenance_dues and the plots of the  *)
(* register.                                                               *)
(*                                                                         *)
(* Raising the bills is one transaction: one SELECT, which sees a single   *)
(* moment of the database, then one INSERT for each plot it returned, in   *)
(* the order it returned them, which nothing fixes.  An INSERT waits while *)
(* another transaction holds an uncommitted bill for the same plot; two    *)
(* transactions that wait for each other are a deadlock, and PostgreSQL    *)
(* aborts one.                                                             *)
(***************************************************************************)
EXTENDS Integers, FiniteSets

CONSTANTS Plots,
          Sectors,    \* plots.phase, maintenance_rates.sector
          NoSector,   \* NULL in either: the society-wide fallback's row
          SectorOf,
          Areas,      \* of plots.area_sqft, in hundredths
          NoArea,
          Rates,      \* of maintenance_rates.rate_per_sqft, in hundredths
          NoRate,
          NoPlot,
          Runs        \* calls of GenerateBills

ASSUME MaintenanceAssumption ==
    /\ NoSector \notin Sectors
    /\ SectorOf \in [Plots -> Sectors \cup {NoSector}]
    /\ Areas \subseteq Nat \ {0} /\ NoArea \notin Areas
    /\ Rates \subseteq Nat /\ NoRate \notin Rates
    /\ NoPlot \notin Plots

VARIABLES register,  \* the table plots: what of it a bill depends on
          rates,     \* the table maintenance_rates
          bills,     \* the table maintenance_dues; by is history: whose bill
          run        \* where each call stands

vars == <<register, rates, bills, run>>

PlotRows == [sold: BOOLEAN, area: Areas \cup {NoArea}]

BillRows == [plot: Plots, rate: Rates, area: Areas, by: Runs]

Idle   == [op |-> "idle"]
Failed == [op |-> "failed"]

\* due: what the SELECT returned and is not yet inserted; next: the plot whose
\* INSERT has been sent; raised: the uncommitted bills; count and total: what
\* the call adds up as it goes, to answer with.
Billing == [op: {"billing"}, due: SUBSET BillRows, next: Plots \cup {NoPlot},
            raised: SUBSET BillRows, count: Nat, total: Nat]

\* unheard is history: the client is answered 500, as for a failed call, but
\* the bills are there.
Done == [op: {"done", "unheard"}, count: Nat, total: Nat]

-----------------------------------------------------------------------------

\* amountFor: a product of hundredths, rounded to hundredths.
AmountFor(area, rate) == (area * rate + 50) \div 100

\* What some bills come to, counted one hundredth at a time.
Hundredths(S) == UNION {{b} \X (1..AmountFor(b.area, b.rate)) : b \in S}

Total(S) == Cardinality(Hundredths(S))

Billed == {b.plot : b \in bills}

BillsOf(q) == {b \in bills : b.by = q}

\* What q has yet to insert, and its uncommitted bills.
Due(q) == IF run[q].op = "billing" THEN run[q].due ELSE {}

Raised(q) == IF run[q].op = "billing" THEN run[q].raised ELSE {}

\* The plots q has an uncommitted bill for.
Held(q) == {b.plot : b \in Raised(q)}

\* The call whose transaction q's INSERT waits for.
WaitsFor(q, r) ==
    /\ run[q].op = "billing"
    /\ r # q /\ run[q].next \in Held(r)

Waits(q) == \E r \in Runs : WaitsFor(q, r)

\* Each of some transactions waits for another of them, and q is one.
InCycle(q) ==
    \E R \in SUBSET Runs :
        /\ q \in R
        /\ \A r \in R : \E s \in R : WaitsFor(r, s)
        /\ \A s \in R : \E r \in R : WaitsFor(r, s)

\* COALESCE of the sector's rate and the fallback.
RateOf(p) ==
    IF SectorOf[p] # NoSector /\ rates[SectorOf[p]] # NoRate
    THEN rates[SectorOf[p]]
    ELSE rates[NoSector]

\* The SELECT's WHERE.
Billable ==
    {p \in Plots : register[p].sold /\ register[p].area # NoArea /\ p \notin Billed}

-----------------------------------------------------------------------------

Init ==
    /\ register \in [Plots -> PlotRows]
    /\ rates \in [Sectors \cup {NoSector} -> Rates \cup {NoRate}]
    /\ bills = {}
    /\ run = [q \in Runs |-> Idle]

\* The register sells, takes back and measures plots at any moment.
ChangePlot(p, row) ==
    /\ register[p] # row
    /\ register' = [register EXCEPT ![p] = row]
    /\ UNCHANGED <<rates, bills, run>>

\* SetRate: an upsert; there is no way to remove a rate.
SetRate(sector, rate) ==
    /\ rates' = [rates EXCEPT ![sector] = rate]
    /\ UNCHANGED <<register, bills, run>>

\* The first INSERT to send, in whatever order the rows came.
Choose(due, plot) ==
    IF due = {} THEN plot = NoPlot ELSE \E b \in due : plot = b.plot

\* Mutant of Select: a rate that is NULL is taken for one.
SelectNull(q) ==
    LET due == {[plot |-> p, rate |-> RateOf(p), area |-> register[p].area, by |-> q] :
                   p \in Billable}
    IN  /\ run[q] = Idle
        /\ \E next \in Plots \cup {NoPlot} :
              /\ Choose(due, next)
              /\ run' = [run EXCEPT ![q] =
                    [op |-> "billing", due |-> due, next |-> next, raised |-> {},
                     count |-> 0, total |-> 0]]
        /\ UNCHANGED <<register, rates, bills>>

\* The transaction's SELECT.  A rate that is NULL cannot be scanned into a
\* float64: one plot without any rate fails the call.
Select(q) ==
    LET due == {[plot |-> p, rate |-> RateOf(p), area |-> register[p].area, by |-> q] :
                   p \in Billable}
    IN  /\ run[q] = Idle
        /\ \E next \in Plots \cup {NoPlot} :
              /\ Choose(due, next)
              /\ run' = [run EXCEPT ![q] =
                    IF \E b \in due : b.rate = NoRate THEN Failed
                    ELSE [op |-> "billing", due |-> due, next |-> next, raised |-> {},
                          count |-> 0, total |-> 0]]
        /\ UNCHANGED <<register, rates, bills>>

\* A call whose INSERT of b is carried out: the bill is raised and added up.
Written(call, b, next) ==
    [op |-> "billing", due |-> call.due \ {b}, next |-> next,
     raised |-> call.raised \cup {b},
     count |-> call.count + 1, total |-> call.total + AmountFor(b.area, b.rate)]

\* Mutant of Insert: without UNIQUE (plot_id, period_label).
InsertAgain(q, b) ==
    /\ run[q].op = "billing"
    /\ b \in run[q].due /\ b.plot = run[q].next
    /\ \E next \in Plots \cup {NoPlot} :
          /\ Choose(run[q].due \ {b}, next)
          /\ run' = [run EXCEPT ![q] = Written(run[q], b, next)]
    /\ UNCHANGED <<register, rates, bills>>

\* Mutant of Insert: sent outside the transaction.
InsertOutside(q, b) ==
    /\ run[q].op = "billing"
    /\ b \in run[q].due /\ b.plot = run[q].next
    /\ ~Waits(q)
    /\ \E next \in Plots \cup {NoPlot} :
          /\ Choose(run[q].due \ {b}, next)
          /\ run' = [run EXCEPT ![q] =
                IF b.plot \in Billed THEN Failed
                ELSE Written(run[q], b, next)]
    /\ bills' = IF b.plot \in Billed THEN bills ELSE bills \cup {b}
    /\ UNCHANGED <<register, rates>>

\* Mutant of Insert: the rate is looked up when the bill is written.
InsertAtRateOfDay(q, b) ==
    /\ run[q].op = "billing"
    /\ b \in run[q].due /\ b.plot = run[q].next
    /\ ~Waits(q)
    /\ \E next \in Plots \cup {NoPlot} :
          /\ Choose(run[q].due \ {b}, next)
          /\ run' = [run EXCEPT ![q] =
                IF b.plot \in Billed THEN Failed
                ELSE [Written(run[q], b, next) EXCEPT
                         !.raised = run[q].raised \cup {[b EXCEPT !.rate = RateOf(b.plot)]}]]
    /\ UNCHANGED <<register, rates, bills>>

\* Mutant of Insert: a plot already billed is tried again.
InsertRetrying(q, b) ==
    /\ run[q].op = "billing"
    /\ b \in run[q].due /\ b.plot = run[q].next
    /\ ~Waits(q)
    /\ \E next \in Plots \cup {NoPlot} :
          /\ Choose(run[q].due \ {b}, next)
          /\ run' = [run EXCEPT ![q] =
                IF b.plot \in Billed THEN run[q]
                ELSE Written(run[q], b, next)]
    /\ UNCHANGED <<register, rates, bills>>

\* One INSERT.  It waits for an uncommitted bill, and fails, and with it the
\* whole transaction, on a committed one.
Insert(q, b) ==
    /\ run[q].op = "billing"
    /\ b \in run[q].due /\ b.plot = run[q].next
    /\ ~Waits(q)
    /\ \E next \in Plots \cup {NoPlot} :
          /\ Choose(run[q].due \ {b}, next)
          /\ run' = [run EXCEPT ![q] =
                IF b.plot \in Billed THEN Failed
                ELSE Written(run[q], b, next)]
    /\ UNCHANGED <<register, rates, bills>>

\* COMMIT carried out: the bills are there, and the call ends as op.
Committed(q, op) ==
    /\ run[q].op = "billing" /\ run[q].due = {}
    /\ bills' = bills \cup run[q].raised
    /\ run' = [run EXCEPT ![q] =
          [op |-> op, count |-> run[q].count, total |-> run[q].total]]
    /\ UNCHANGED <<register, rates>>

\* The answer: how many bills, and what they come to.
Commit(q) == Committed(q, "done")

\* The connection was lost between the COMMIT and word of it: tx.Commit
\* returns an error, and the call answers 500.
CommitUnheard(q) == Committed(q, "unheard")

\* PostgreSQL aborts one of the transactions that wait for each other.
BreakDeadlock(q) ==
    /\ InCycle(q)
    /\ run' = [run EXCEPT ![q] = Failed]
    /\ UNCHANGED <<register, rates, bills>>

\* The client has gone, the process has died or COMMIT itself has failed:
\* ROLLBACK.
Abort(q) ==
    /\ run[q].op = "billing"
    /\ run' = [run EXCEPT ![q] = Failed]
    /\ UNCHANGED <<register, rates, bills>>

\* What a call does of itself, once begun.
Proceed(q) ==
    \/ \E b \in run[q].due : Insert(q, b)
    \/ Commit(q) \/ CommitUnheard(q)
    \/ BreakDeadlock(q)

Office ==
    \/ \E p \in Plots, row \in PlotRows : ChangePlot(p, row)
    \/ \E sector \in Sectors \cup {NoSector}, rate \in Rates : SetRate(sector, rate)

Next ==
    \/ Office
    \/ \E q \in Runs : Select(q) \/ Abort(q)
    \/ \E q \in Runs : run[q].op = "billing" /\ Proceed(q)

Spec == Init /\ [][Next]_vars

\* A statement that was sent is carried out; only a cycle waits for ever, and
\* those are broken.  Calls are not made of necessity, nor aborted.
FairSpec ==
    /\ Spec
    /\ \A q \in Runs : WF_vars(run[q].op = "billing" /\ Proceed(q))

-----------------------------------------------------------------------------
(* Properties *)

\* Every variable stays in its type: no bill is written without an area and a
\* rate, and no answer is of anything but numbers.
TypeOK ==
    /\ register \in [Plots -> PlotRows]
    /\ rates \in [Sectors \cup {NoSector} -> Rates \cup {NoRate}]
    /\ bills \subseteq BillRows
    /\ run \in [Runs -> {Idle, Failed} \cup Billing \cup Done]

\* "the button can be pressed twice without double-billing": however many
\* calls overlap, no plot is billed twice.
BilledOnce == \A b, c \in bills : b.plot = c.plot => b = c

\* A bill that was issued stays as it was, whatever becomes of the rate, the
\* plot's area or its owner: "must not silently change because the rate moved".
NeverRepriced == [][bills \subseteq bills']_vars

\* What a call answers is what it did: the number and the sum it kept while it
\* was writing are those of the bills that are there.  One that failed has left
\* none, or, when only the word of its COMMIT was lost, all it had counted.
ReportedTruly ==
    \A q \in Runs :
        IF run[q].op \in {"done", "unheard"}
        THEN /\ run[q].count = Cardinality(BillsOf(q))
             /\ run[q].total = Total(BillsOf(q))
        ELSE BillsOf(q) = {}

\* Neighbours whom one call bills are charged one rate, though the rate may
\* change while the call is writing.
NeighboursPayAlike ==
    \A b, c \in bills :
        b.by = c.by /\ SectorOf[b.plot] = SectorOf[c.plot] => b.rate = c.rate

\* "Every sold plot already has a bill. Nothing raised.": a call that finds
\* nothing to bill finds every sold plot billed.
NothingDueAllBilled ==
    [][ \A q \in Runs :
           run[q] = Idle /\ run'[q].op = "billing" /\ Due(q)' = {} =>
              {p \in Plots : register[p].sold} \subseteq Billed ]_vars

\* A call that was begun ends, however it collides with others.
CallsEnd == \A q \in Runs : run[q].op = "billing" ~> run[q].op # "billing"
=============================================================================
