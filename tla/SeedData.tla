-------------------------------- MODULE SeedData --------------------------------
(***************************************************************************)
(* The transaction of cmd/seed: one demonstration project, statement by    *)
(* statement, plots and bills in batches.  At most one such transaction is *)
(* past its first INSERT, which takes the builder's slug.                  *)
(*                                                                         *)
(* The draw of plots is a fixed pseudo-random sequence; here any draw is   *)
(* possible.  The bills go in the order of the plots' numbers, which are   *)
(* texts; here any order is.  An amount stands for area times rate,        *)
(* rounded to the paisa.                                                   *)
(***************************************************************************)
EXTENDS Integers, Sequences, FiniteSetsExt, SequencesExt

CONSTANTS LastPlot,     \* 823
          BatchSize,    \* 150
          OwnerPlots,   \* the plots of the two owner logins: 147, 412
          Amount,       \* of a plot's one-time bill
          UnpaidEvery   \* 5

Plots == 1..LastPlot

ASSUME SeedDataAssumption ==
    /\ LastPlot \in Nat \ {0}
    /\ BatchSize \in Nat \ {0}
    /\ OwnerPlots \in Seq(Plots) /\ Len(OwnerPlots) > 0
    /\ Amount \in [Plots -> Nat]
    /\ UnpaidEvery \in Nat \ {0}

VARIABLES draft,   \* what the open transaction has inserted so far
          town     \* the projects the database holds, in the order they came

seedVars == <<draft, town>>

NoDraft == [stage |-> "none"]

Lesser(m, n) == IF m < n THEN m ELSE n

Dues == [plot: Plots, paid: BOOLEAN]

\* What some bills brought in, counted one paisa at a time.
Paise(dues) == UNION {{d} \X (1..Amount[d.plot]) : d \in {d \in dues : d.paid}}

Total(dues) == Cardinality(Paise(dues))

\* The statements, in their order.
Stages == {"society", "plots", "owners", "bills", "fund", "rest", "commit"}

Projects == [plots: SUBSET Plots, sold: SUBSET Plots, owned: SUBSET Plots,
             dues: SUBSET Dues, credit: Nat]

\* bills: the plots read for billing that have no bill yet.
Drafts == [stage: Stages, collected: Nat, bills: SUBSET Plots, project: Projects]

-----------------------------------------------------------------------------

SeedInit == draft = NoDraft /\ town = <<>>

\* INSERT INTO builders, whose slug is UNIQUE; the people of the office follow.
OpenDraft ==
    draft' = [stage |-> "society", collected |-> 0, bills |-> {},
              project |-> [plots |-> {}, sold |-> {}, owned |-> {}, dues |-> {},
                           credit |-> 0]]

\* The society and its rates.
InsertSociety ==
    /\ draft.stage = "society"
    /\ draft' = [draft EXCEPT !.stage = "plots"]

\* flush: the next batch of plots, some of which are drawn as sold.
InsertPlots ==
    LET first == Cardinality(draft.project.plots) + 1
        rows  == first..Lesser(first + BatchSize - 1, LastPlot)
    IN  /\ draft.stage = "plots"
        /\ \E drawn \in SUBSET rows :
              LET next == [draft.project EXCEPT !.plots = @ \cup rows, !.sold = @ \cup drawn]
              IN  draft' = [draft EXCEPT !.project = next,
                                         !.stage = IF LastPlot \in rows THEN "owners" ELSE "plots"]

\* Mutant of InsertOwner: the sold plots are read before the owners get theirs.
InsertOwnerLate ==
    LET plot == OwnerPlots[Cardinality(draft.project.owned) + 1]
        next == [draft.project EXCEPT !.owned = @ \cup {plot}, !.sold = @ \cup {plot}]
        last == Cardinality(next.owned) = Len(OwnerPlots)
    IN  /\ draft.stage = "owners"
        /\ draft' = [draft EXCEPT !.project = next,
                                  !.stage = IF last THEN "bills" ELSE "owners",
                                  !.bills = IF last THEN draft.project.sold ELSE {}]

\* The next owner login, and its plot: owned, and sold whatever was drawn.
\* After the last one, the sold plots are read for billing.
InsertOwner ==
    LET plot == OwnerPlots[Cardinality(draft.project.owned) + 1]
        next == [draft.project EXCEPT !.owned = @ \cup {plot}, !.sold = @ \cup {plot}]
        last == Cardinality(next.owned) = Len(OwnerPlots)
    IN  /\ draft.stage = "owners"
        /\ draft' = [draft EXCEPT !.project = next,
                                  !.stage = IF last THEN "bills" ELSE "owners",
                                  !.bills = IF last THEN next.sold ELSE {}]

\* Of a batch of that size, after some bills: how many stay unpaid, every fifth.
Unpaid(before, size) ==
    Cardinality({i \in before..(before + size - 1) : i % UnpaidEvery = 0})

\* flushDues: the next batch of bills, and what it adds to what was collected.
InsertDues ==
    LET size == Lesser(BatchSize, Cardinality(draft.bills))
    IN  /\ draft.stage = "bills"
        /\ \E batch \in SUBSET draft.bills : \E unpaid \in SUBSET batch :
              /\ Cardinality(batch) = size
              /\ Cardinality(unpaid) = Unpaid(Cardinality(draft.project.dues), size)
              /\ LET rows == {[plot |-> p, paid |-> p \notin unpaid] : p \in batch}
                     next == [draft.project EXCEPT !.dues = @ \cup rows]
                 IN  draft' = [draft EXCEPT !.project = next,
                                            !.bills = @ \ batch,
                                            !.collected = @ + Total(rows),
                                            !.stage = IF batch = draft.bills THEN "fund"
                                                      ELSE "bills"]

\* One credit for what the bills brought in; the debits are as they are.
InsertFund ==
    /\ draft.stage = "fund"
    /\ draft' = [draft EXCEPT !.project = [draft.project EXCEPT !.credit = draft.collected],
                              !.stage = "rest"]

\* Posts, queries with their messages, enquiries.
InsertRest ==
    /\ draft.stage = "rest"
    /\ draft' = [draft EXCEPT !.stage = "commit"]

SeedStatement ==
    /\ \/ InsertSociety \/ InsertPlots \/ InsertOwner
       \/ InsertDues \/ InsertFund \/ InsertRest
    /\ UNCHANGED town

CommitDraft ==
    /\ draft.stage = "commit"
    /\ town' = Append(town, draft.project)
    /\ draft' = NoDraft

-----------------------------------------------------------------------------
(* Properties *)

SeedTypeOK ==
    /\ draft \in {NoDraft} \cup Drafts
    /\ town \in Seq(Projects)

\* A project is in the database with every plot, every sold plot billed once,
\* the plots of its owners among those sold, and a fund whose one credit is
\* what those bills say was paid: "so the ledger reconciles against the dues
\* rather than being a separate fiction".
Whole(project) ==
    /\ project.plots = Plots
    /\ {due.plot : due \in project.dues} = project.sold
    /\ Cardinality(project.dues) = Cardinality(project.sold)
    /\ project.owned = ToSet(OwnerPlots)
    /\ project.owned \subseteq project.sold
    /\ project.credit = Total(project.dues)

\* Every project the database holds is whole.
ProjectsAreWhole == \A project \in ToSet(town) : Whole(project)
=============================================================================
