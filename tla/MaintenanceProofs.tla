--------------------------- MODULE MaintenanceProofs ---------------------------
(***************************************************************************)
(* Proofs about the maintenance charge, for any register, any rates and    *)
(* any number of calls.  The argument is about what a call has yet to      *)
(* insert, Due, and what it has inserted and not committed, Raised: both   *)
(* stem from one SELECT, so they bill a plot once and a sector alike, and  *)
(* an INSERT that neither waits nor fails is of a plot nobody else has     *)
(* billed.  What a call counts as it writes is then what it has raised.    *)
(***************************************************************************)
EXTENDS Maintenance, FiniteSetTheorems, TLAPS

\* Where a call can stand, and what it adds up.
CallsTyped ==
    /\ run = [q \in Runs |-> run[q]]
    /\ \A q \in Runs : run[q] \in {Idle, Failed} \cup Billing \cup Done

Typed ==
    /\ register \in [Plots -> PlotRows]
    /\ rates \in [Sectors \cup {NoSector} -> Rates \cup {NoRate}]
    /\ bills \subseteq BillRows
    /\ CallsTyped

\* Some bills, finite in number and in what they come to, are counted right.
Counted(count, total, S) ==
    /\ IsFiniteSet(S) /\ IsFiniteSet(Hundredths(S))
    /\ count = Cardinality(S) /\ total = Total(S)

\* A call that is writing has counted what it has written so far.
CountsTruly ==
    \A q \in Runs :
        run[q].op = "billing" => Counted(run[q].count, run[q].total, Raised(q))

\* What a call has before it and behind it comes from its one SELECT.
OneSelect ==
    \A q \in Runs :
        /\ \A b \in Due(q) \cup Raised(q) : b.by = q
        /\ \A b \in Due(q), c \in Raised(q) : b.plot # c.plot
        /\ \A b, c \in Due(q) : b.plot = c.plot => b = c
        /\ \A b, c \in Raised(q) : b.plot = c.plot => b = c
        /\ \A b, c \in Due(q) \cup Raised(q) :
              SectorOf[b.plot] = SectorOf[c.plot] => b.rate = c.rate

\* The uncommitted bills of different calls, and the committed ones, are of
\* different plots.
Apart ==
    /\ \A q, r \in Runs : q # r =>
          \A b \in Raised(q), c \in Raised(r) : b.plot # c.plot
    /\ \A q \in Runs : \A b \in Raised(q), c \in bills : b.plot # c.plot

BillingInv ==
    /\ Typed /\ CountsTruly /\ OneSelect /\ Apart
    /\ BilledOnce /\ ReportedTruly /\ NeighboursPayAlike

-----------------------------------------------------------------------------

\* A bill comes to a whole number of hundredths.
LEMMA AmountIsNat ==
    ASSUME MaintenanceAssumption, NEW b \in BillRows
    PROVE  AmountFor(b.area, b.rate) \in Nat
<1>1. b.area \in Nat /\ b.rate \in Nat
  BY DEF MaintenanceAssumption, BillRows
<1>2. \A m, n \in Nat : m * n \in Nat
  OBVIOUS
<1>3. \A m \in Nat : (m + 50) \div 100 \in Nat
  OBVIOUS
<1> QED
  BY <1>1, <1>2, <1>3 DEF AmountFor

\* Nothing is counted right as nothing.
LEMMA NothingCounted == Counted(0, 0, {})
<1>1. Hundredths({}) = {}
  BY DEF Hundredths
<1> QED
  BY <1>1, FS_EmptySet DEF Counted, Total

\* One bill more is one more, and comes to its own amount more.
LEMMA OneMoreCounted ==
    ASSUME NEW S, NEW b, b \notin S, AmountFor(b.area, b.rate) \in Nat,
           NEW count, NEW total, Counted(count, total, S)
    PROVE  Counted(count + 1, total + AmountFor(b.area, b.rate), S \cup {b})
<1> DEFINE n == AmountFor(b.area, b.rate)
           new == {b} \X (1..n)
<1>1. IsFiniteSet(S \cup {b}) /\ Cardinality(S \cup {b}) = count + 1
  BY FS_AddElement DEF Counted
<1>2. Hundredths(S \cup {b}) = Hundredths(S) \cup new
  BY DEF Hundredths
<1>3. Hundredths(S) \cap new = {}
  BY DEF Hundredths
<1>4. IsFiniteSet({b}) /\ Cardinality({b}) = 1
  BY FS_Singleton
<1>5. IsFiniteSet(1..n) /\ Cardinality(1..n) = n
  BY FS_Interval
<1>6. IsFiniteSet(new) /\ Cardinality(new) = n
  <2>1. PICK one : one = {b}
    OBVIOUS
  <2>2. PICK paid : paid = 1..n
    OBVIOUS
  <2>3. /\ IsFiniteSet(one \X paid)
        /\ Cardinality(one \X paid) = Cardinality(one) * Cardinality(paid)
    BY <1>4, <1>5, <2>1, <2>2, FS_Product
  <2>4. Cardinality(one) * Cardinality(paid) = n
    BY <1>4, <1>5, <2>1, <2>2
  <2>5. new = one \X paid
    BY <2>1, <2>2
  <2> HIDE DEF new, n
  <2> QED
    BY <2>3, <2>4, <2>5
<1>7. /\ IsFiniteSet(Hundredths(S)) /\ total = Cardinality(Hundredths(S))
      /\ Cardinality(Hundredths(S)) \in Nat
  BY FS_CardinalityType DEF Counted, Total
<1>8. Cardinality({}) = 0
  BY FS_EmptySet
<1> HIDE DEF new
<1>9. /\ IsFiniteSet(Hundredths(S) \cup new)
      /\ Cardinality(Hundredths(S) \cup new) = Cardinality(Hundredths(S)) + Cardinality(new)
                                                - Cardinality(Hundredths(S) \cap new)
  BY <1>6, <1>7, FS_Union
<1>n. n \in Nat
  OBVIOUS
<1> HIDE DEF n
<1>10. Cardinality(Hundredths(S) \cup new) = total + n
  BY <1>3, <1>6, <1>7, <1>8, <1>9, <1>n
<1>11. IsFiniteSet(Hundredths(S \cup {b})) /\ Total(S \cup {b}) = total + n
  BY <1>2, <1>9, <1>10, Zenon DEF Total
<1>12. total + n = total + AmountFor(b.area, b.rate)
  BY DEF n
<1> QED
  BY <1>1, <1>11, <1>12, Zenon DEF Counted

\* What an INSERT makes of the call.
LEMMA WrittenBill ==
    ASSUME NEW call \in Billing, NEW b \in BillRows, NEW next \in Plots \cup {NoPlot},
           AmountFor(b.area, b.rate) \in Nat
    PROVE  /\ Written(call, b, next) \in Billing
           /\ Written(call, b, next).op = "billing"
           /\ Written(call, b, next).due = call.due \ {b}
           /\ Written(call, b, next).raised = call.raised \cup {b}
           /\ Written(call, b, next).count = call.count + 1
           /\ Written(call, b, next).total = call.total + AmountFor(b.area, b.rate)
<1>1. call.due \in SUBSET BillRows /\ call.raised \in SUBSET BillRows
  BY DEF Billing
<1>2. call.count + 1 \in Nat /\ call.total + AmountFor(b.area, b.rate) \in Nat
  BY DEF Billing
<1> QED
  BY <1>1, <1>2 DEF Written, Billing

\* What changes when one call's record changes.
LEMMA OneCall ==
    ASSUME Typed, NEW q \in Runs, NEW new, run' = [run EXCEPT ![q] = new]
    PROVE  /\ \A r \in Runs \ {q} :
                 run'[r] = run[r] /\ Due(r)' = Due(r) /\ Raised(r)' = Raised(r)
           /\ run'[q] = new
           /\ Due(q)' = IF new.op = "billing" THEN new.due ELSE {}
           /\ Raised(q)' = IF new.op = "billing" THEN new.raised ELSE {}
<1>1. run'[q] = new
  BY DEF Typed, CallsTyped
<1>2. \A r \in Runs \ {q} : run'[r] = run[r]
  BY DEF Typed, CallsTyped
<1> QED
  BY <1>1, <1>2 DEF Due, Raised

\* A call that stays in its type keeps every call in its type.
LEMMA OneCallTyped ==
    ASSUME CallsTyped, NEW q \in Runs, NEW new, run' = [run EXCEPT ![q] = new],
           new \in {Idle, Failed} \cup Billing \cup Done
    PROVE  CallsTyped'
BY DEF CallsTyped

\* The step in which a call fails: nothing of it is left.
LEMMA FailKeeps ==
    ASSUME BillingInv, NEW q \in Runs, run[q].op \notin {"done", "unheard"},
           run' = [run EXCEPT ![q] = Failed], UNCHANGED <<register, rates, bills>>
    PROVE  BillingInv'
<1>1. /\ \A r \in Runs \ {q} :
            run'[r] = run[r] /\ Due(r)' = Due(r) /\ Raised(r)' = Raised(r)
      /\ run'[q] = Failed /\ Due(q)' = {} /\ Raised(q)' = {}
  <2>1. Failed.op # "billing"
    BY DEF Failed
  <2> QED
    BY <2>1, OneCall DEF BillingInv
<1>2. Typed'
  BY OneCallTyped DEF BillingInv, Typed
<1>a. CountsTruly'
  <2>1. run'[q].op # "billing"
    BY <1>1 DEF Failed
  <2> QED
    BY <1>1, <2>1 DEF BillingInv, CountsTruly
<1>3. OneSelect'
  BY <1>1 DEF BillingInv, OneSelect
<1>4. Apart'
  BY <1>1 DEF BillingInv, Apart
<1>5. BilledOnce' /\ NeighboursPayAlike'
  BY DEF BillingInv, BilledOnce, NeighboursPayAlike
<1>6. ReportedTruly'
  <2>1. \A r \in Runs : BillsOf(r)' = BillsOf(r)
    BY DEF BillsOf
  <2>2. BillsOf(q) = {}
    BY DEF BillingInv, ReportedTruly
  <2>3. run'[q].op \notin {"done", "unheard"}
    BY <1>1 DEF Failed
  <2> QED
    BY <1>1, <2>1, <2>2, <2>3 DEF BillingInv, ReportedTruly
<1> QED
  BY <1>2, <1>a, <1>3, <1>4, <1>5, <1>6 DEF BillingInv

\* The office's doings touch no call and no bill.
LEMMA OfficeKeeps ==
    ASSUME MaintenanceAssumption, BillingInv, Office PROVE BillingInv'
<1>1. run' = run /\ bills' = bills
  BY DEF Office, ChangePlot, SetRate
<1>2. register' \in [Plots -> PlotRows]
  BY DEF BillingInv, Typed, Office, ChangePlot, SetRate
<1>3. rates' \in [Sectors \cup {NoSector} -> Rates \cup {NoRate}]
  BY DEF BillingInv, Typed, Office, ChangePlot, SetRate
<1>4. Typed'
  BY <1>1, <1>2, <1>3 DEF BillingInv, Typed, CallsTyped
<1>5. \A q \in Runs : /\ Due(q)' = Due(q) /\ Raised(q)' = Raised(q)
                       /\ BillsOf(q)' = BillsOf(q)
  BY <1>1 DEF Due, Raised, BillsOf
<1>6. /\ OneSelect' /\ Apart' /\ CountsTruly'
      /\ BilledOnce' /\ NeighboursPayAlike'
  BY <1>1, <1>5
     DEF BillingInv, OneSelect, Apart, CountsTruly, BilledOnce, NeighboursPayAlike
<1>7. ReportedTruly'
  BY <1>1, <1>5 DEF BillingInv, ReportedTruly
<1> QED
  BY <1>4, <1>6, <1>7 DEF BillingInv

\* The SELECT: one row for a plot, at its sector's rate.
LEMMA SelectKeeps ==
    ASSUME MaintenanceAssumption, BillingInv, NEW q \in Runs, Select(q)
    PROVE  BillingInv'
<1> DEFINE due == {[plot |-> p, rate |-> RateOf(p), area |-> register[p].area,
                    by |-> q] : p \in Billable}
<1>1. run[q].op \notin {"done", "unheard"} /\ UNCHANGED <<register, rates, bills>>
  BY DEF Select, Idle
<1>2. PICK next \in Plots \cup {NoPlot} :
         run' = [run EXCEPT ![q] =
            IF \E b \in due : b.rate = NoRate THEN Failed
            ELSE [op |-> "billing", due |-> due, next |-> next, raised |-> {},
                  count |-> 0, total |-> 0]]
  BY DEF Select
<1>3. CASE \E b \in due : b.rate = NoRate
  BY <1>1, <1>2, <1>3, FailKeeps
<1>4. CASE ~\E b \in due : b.rate = NoRate
  <2> DEFINE new == [op |-> "billing", due |-> due, next |-> next, raised |-> {},
                     count |-> 0, total |-> 0]
  <2>1. run' = [run EXCEPT ![q] = new]
    BY <1>2, <1>4
  <2>2. \A p \in Plots : RateOf(p) \in Rates \cup {NoRate}
    BY DEF RateOf, BillingInv, Typed, MaintenanceAssumption
  <2>3. \A p \in Billable : p \in Plots /\ register[p].area \in Areas
    BY DEF Billable, BillingInv, Typed, PlotRows
  <2>4. due \in SUBSET BillRows
    <3>1. ASSUME NEW p \in Billable
          PROVE  [plot |-> p, rate |-> RateOf(p), area |-> register[p].area, by |-> q]
                    \in BillRows
      <4> DEFINE b == [plot |-> p, rate |-> RateOf(p), area |-> register[p].area,
                       by |-> q]
      <4>a. b \in due
        OBVIOUS
      <4>b. b.rate # NoRate
        <5> HIDE DEF b, due
        <5> QED
          BY <4>a, <1>4
      <4>1. RateOf(p) # NoRate
        BY <4>b
      <4> QED
        BY <4>1, <2>2, <2>3 DEF BillRows
    <3> QED
      BY <3>1
  <2>5. new \in Billing
    <3> HIDE DEF due
    <3> QED
      BY <2>4 DEF Billing
  <2>6. /\ \A r \in Runs \ {q} :
              run'[r] = run[r] /\ Due(r)' = Due(r) /\ Raised(r)' = Raised(r)
        /\ run'[q] = new /\ Due(q)' = due /\ Raised(q)' = {}
    <3>1. new.op = "billing" /\ new.due = due /\ new.raised = {}
      OBVIOUS
    <3> HIDE DEF new
    <3> QED
      BY <2>1, <3>1, OneCall DEF BillingInv
  <2>7. Typed'
    <3> HIDE DEF new
    <3> QED
      BY <2>1, <2>5, <1>1, OneCallTyped DEF BillingInv, Typed
  <2>8. \A b, c \in due : /\ b.by = q
                          /\ b.plot = c.plot => b = c
                          /\ SectorOf[b.plot] = SectorOf[c.plot] => b.rate = c.rate
    BY DEF RateOf
  <2>9. OneSelect'
    <3> HIDE DEF due, new
    <3> QED
      BY <2>6, <2>8 DEF BillingInv, OneSelect
  <2>a. CountsTruly'
    <3>1. new.count = 0 /\ new.total = 0
      OBVIOUS
    <3>2. Counted(run'[q].count, run'[q].total, Raised(q)')
      <4> HIDE DEF new
      <4> QED
        BY <2>6, <3>1, NothingCounted
    <3> HIDE DEF new
    <3> QED
      BY <2>6, <3>2 DEF BillingInv, CountsTruly
  <2>10. Apart'
    <3> HIDE DEF due, new
    <3> QED
      BY <2>6, <1>1 DEF BillingInv, Apart
  <2>11. BilledOnce' /\ NeighboursPayAlike'
    BY <1>1 DEF BillingInv, BilledOnce, NeighboursPayAlike
  <2>12. ReportedTruly'
    <3>1. \A r \in Runs : BillsOf(r)' = BillsOf(r)
      BY <1>1 DEF BillsOf
    <3>2. /\ run'[q].op \notin {"done", "unheard"}
          /\ run[q].op \notin {"done", "unheard"}
      BY <2>6, <1>1
    <3> HIDE DEF new
    <3> QED
      BY <3>1, <3>2, <2>6, <1>1 DEF BillingInv, ReportedTruly
  <2> QED
    BY <2>7, <2>9, <2>a, <2>10, <2>11, <2>12 DEF BillingInv
<1> QED
  BY <1>3, <1>4

\* An INSERT that succeeds: nobody else has a bill for the plot.
LEMMA InsertKeeps ==
    ASSUME MaintenanceAssumption, BillingInv, NEW q \in Runs, NEW b, Insert(q, b)
    PROVE  BillingInv'
<1>1. /\ run[q].op = "billing" /\ b \in run[q].due /\ b.plot = run[q].next /\ ~Waits(q)
      /\ UNCHANGED <<register, rates, bills>>
  BY DEF Insert
<1>2. PICK next \in Plots \cup {NoPlot} :
         run' = [run EXCEPT ![q] =
            IF b.plot \in Billed THEN Failed
            ELSE Written(run[q], b, next)]
  BY DEF Insert
<1>3. CASE b.plot \in Billed
  BY <1>1, <1>2, <1>3, FailKeeps
<1>4. CASE b.plot \notin Billed
  <2> DEFINE new == Written(run[q], b, next)
  <2>1. run' = [run EXCEPT ![q] = new]
    BY <1>2, <1>4
  <2>2. run[q] \in Billing /\ b \in Due(q) /\ b \in BillRows
    <3>1. run[q] \in {Idle, Failed} \cup Billing \cup Done
      BY DEF BillingInv, Typed, CallsTyped
    <3>2. run[q] \in Billing
      BY <1>1, <3>1 DEF Idle, Failed, Done
    <3> QED
      BY <1>1, <3>2 DEF Due, Billing
  <2>a. AmountFor(b.area, b.rate) \in Nat
    BY <2>2, AmountIsNat
  <2>3. /\ new \in Billing /\ new.op = "billing"
        /\ new.due = Due(q) \ {b} /\ new.raised = Raised(q) \cup {b}
        /\ new.count = run[q].count + 1
        /\ new.total = run[q].total + AmountFor(b.area, b.rate)
    BY <1>1, <2>2, <2>a, WrittenBill DEF Due, Raised
  <2> HIDE DEF new
  <2>4. /\ \A r \in Runs \ {q} :
              run'[r] = run[r] /\ Due(r)' = Due(r) /\ Raised(r)' = Raised(r)
        /\ run'[q] = new /\ Due(q)' = Due(q) \ {b} /\ Raised(q)' = Raised(q) \cup {b}
    BY <2>1, <2>3, OneCall DEF BillingInv
  <2>5. Typed'
    BY <2>1, <2>3, <1>1, OneCallTyped DEF BillingInv, Typed
  <2>6. \A c \in bills : b.plot # c.plot
    BY <1>4 DEF Billed
  <2>7. \A r \in Runs \ {q} : \A c \in Raised(r) : b.plot # c.plot
    BY <1>1 DEF Waits, WaitsFor, Held
  <2>8. OneSelect'
    <3> SUFFICES ASSUME NEW r \in Runs
                 PROVE  /\ \A c \in Due(r)' \cup Raised(r)' : c.by = r
                        /\ \A c \in Due(r)', d \in Raised(r)' : c.plot # d.plot
                        /\ \A c, d \in Due(r)' : c.plot = d.plot => c = d
                        /\ \A c, d \in Raised(r)' : c.plot = d.plot => c = d
                        /\ \A c, d \in Due(r)' \cup Raised(r)' :
                              SectorOf[c.plot] = SectorOf[d.plot] => c.rate = d.rate
      BY DEF OneSelect
    <3>1. CASE r # q
      BY <3>1, <2>4 DEF BillingInv, OneSelect
    <3>2. CASE r = q
      BY <3>2, <2>2, <2>4 DEF BillingInv, OneSelect
    <3> QED
      BY <3>1, <3>2
  <2>9. Apart'
    BY <2>4, <2>6, <2>7, <1>1 DEF BillingInv, Apart
  <2>b. CountsTruly'
    <3>1. b \notin Raised(q)
      BY <2>2 DEF BillingInv, OneSelect
    <3>2. Counted(run[q].count, run[q].total, Raised(q))
      BY <1>1 DEF BillingInv, CountsTruly
    <3>3. Counted(run[q].count + 1, run[q].total + AmountFor(b.area, b.rate),
                  Raised(q) \cup {b})
      BY <2>a, <3>1, <3>2, OneMoreCounted
    <3>4. Counted(run'[q].count, run'[q].total, Raised(q)')
      BY <2>3, <2>4, <3>3
    <3> QED
      BY <2>4, <3>4 DEF BillingInv, CountsTruly
  <2>10. BilledOnce' /\ NeighboursPayAlike'
    BY <1>1 DEF BillingInv, BilledOnce, NeighboursPayAlike
  <2>11. ReportedTruly'
    <3>1. \A r \in Runs : BillsOf(r)' = BillsOf(r)
      BY <1>1 DEF BillsOf
    <3> QED
      BY <3>1, <2>3, <2>4, <1>1 DEF BillingInv, ReportedTruly
  <2> QED
    BY <2>5, <2>8, <2>9, <2>b, <2>10, <2>11 DEF BillingInv
<1> QED
  BY <1>3, <1>4

\* COMMIT: the call's bills are all of it, and what the call counted is about
\* them, whether or not the call hears of it.
LEMMA CommitKeeps ==
    ASSUME BillingInv, NEW q \in Runs, NEW op \in {"done", "unheard"}, Committed(q, op)
    PROVE  BillingInv'
<1> DEFINE new == [op |-> op, count |-> run[q].count, total |-> run[q].total]
<1>1. /\ run[q].op = "billing" /\ bills' = bills \cup Raised(q)
      /\ run' = [run EXCEPT ![q] = new] /\ UNCHANGED <<register, rates>>
  BY DEF Committed, Raised
<1>a. run[q] \in Billing
  <2>1. run[q] \in {Idle, Failed} \cup Billing \cup Done
    BY DEF BillingInv, Typed, CallsTyped
  <2> QED
    BY <1>1, <2>1 DEF Idle, Failed, Done
<1>2. /\ new \in Done /\ new.op \in {"done", "unheard"} /\ new.count = Cardinality(Raised(q))
      /\ new.total = Total(Raised(q))
  <2>1. run[q].count = Cardinality(Raised(q)) /\ run[q].total = Total(Raised(q))
    BY <1>1 DEF BillingInv, CountsTruly, Counted
  <2>2. run[q].count \in Nat /\ run[q].total \in Nat
    BY <1>a DEF Billing
  <2> QED
    BY <2>1, <2>2 DEF Done
<1> HIDE DEF new
<1>3. /\ \A r \in Runs \ {q} :
            run'[r] = run[r] /\ Due(r)' = Due(r) /\ Raised(r)' = Raised(r)
      /\ run'[q] = new /\ Due(q)' = {} /\ Raised(q)' = {}
  BY <1>1, <1>2, OneCall DEF BillingInv
<1>4. Typed'
  <2>1. bills' \subseteq BillRows
    BY <1>1, <1>a DEF BillingInv, Typed, Raised, Billing
  <2> QED
    BY <1>1, <1>2, <2>1, OneCallTyped DEF BillingInv, Typed
<1>b. CountsTruly'
  BY <1>2, <1>3 DEF BillingInv, CountsTruly
<1>5. OneSelect'
  BY <1>3 DEF BillingInv, OneSelect
<1>6. Apart'
  BY <1>1, <1>3 DEF BillingInv, Apart
<1>7. \A b \in Raised(q) : b.by = q
  BY DEF BillingInv, OneSelect
<1>8. \A c \in bills : c.by # q
  BY <1>1 DEF BillingInv, ReportedTruly, BillsOf
<1>9. BilledOnce'
  BY <1>1 DEF BillingInv, BilledOnce, Apart, OneSelect
<1>10. NeighboursPayAlike'
  BY <1>1, <1>7, <1>8 DEF BillingInv, NeighboursPayAlike, OneSelect
<1>11. ReportedTruly'
  <2>1. BillsOf(q)' = Raised(q)
    BY <1>1, <1>7, <1>8 DEF BillsOf
  <2>2. \A r \in Runs \ {q} : BillsOf(r)' = BillsOf(r)
    BY <1>1, <1>7 DEF BillsOf
  <2> QED
    BY <2>1, <2>2, <1>2, <1>3 DEF BillingInv, ReportedTruly
<1> QED
  BY <1>4, <1>b, <1>5, <1>6, <1>9, <1>10, <1>11 DEF BillingInv

LEMMA BillingInit ==
    ASSUME MaintenanceAssumption, Init PROVE BillingInv
<1>1. \A q \in Runs : run[q] = Idle /\ run[q].op = "idle"
  BY DEF Init, Idle
<1>2. Typed
  BY <1>1 DEF Init, Typed, CallsTyped
<1>3. \A q \in Runs : Due(q) = {} /\ Raised(q) = {} /\ BillsOf(q) = {}
  BY <1>1 DEF Init, Due, Raised, BillsOf
<1> QED
  BY <1>1, <1>2, <1>3
     DEF Init, BillingInv, CountsTruly, OneSelect, Apart, BilledOnce, ReportedTruly,
         NeighboursPayAlike

LEMMA BillingStep ==
    ASSUME MaintenanceAssumption, BillingInv, [Next]_vars PROVE BillingInv'
<1>1. CASE Office
  BY <1>1, OfficeKeeps
<1>2. ASSUME NEW q \in Runs, Select(q) PROVE BillingInv'
  BY <1>2, SelectKeeps
<1>3. ASSUME NEW q \in Runs, Abort(q) PROVE BillingInv'
  BY <1>3, FailKeeps DEF Abort
<1>4. ASSUME NEW q \in Runs, run[q].op = "billing", Proceed(q) PROVE BillingInv'
  <2>1. ASSUME NEW b, Insert(q, b) PROVE BillingInv'
    BY <2>1, InsertKeeps
  <2>2. CASE Commit(q) \/ CommitUnheard(q)
    BY <2>2, CommitKeeps DEF Commit, CommitUnheard
  <2>3. CASE BreakDeadlock(q)
    BY <2>3, <1>4, FailKeeps DEF BreakDeadlock
  <2> QED
    BY <1>4, <2>1, <2>2, <2>3 DEF Proceed
<1>5. CASE UNCHANGED vars
  <2>1. run' = run /\ bills' = bills /\ register' = register /\ rates' = rates
    BY <1>5 DEF vars
  <2>2. \A q \in Runs : /\ Due(q)' = Due(q) /\ Raised(q)' = Raised(q)
                         /\ BillsOf(q)' = BillsOf(q)
    BY <2>1 DEF Due, Raised, BillsOf
  <2> QED
    BY <2>1, <2>2 DEF BillingInv, Typed, CallsTyped, CountsTruly, OneSelect, Apart,
                      BilledOnce, ReportedTruly, NeighboursPayAlike
<1> QED
  BY <1>1, <1>2, <1>3, <1>4, <1>5 DEF Next

\* Whatever the register and the rates do meanwhile, and however many calls
\* overlap, fail, deadlock or lose the word of their COMMIT: no plot is billed
\* twice, every answer is what was done, and a call charges a sector's plots
\* alike (GenerateBills).
THEOREM BillsAreRight ==
    Spec => [](BilledOnce /\ ReportedTruly /\ NeighboursPayAlike)
<1>1. Init => BillingInv
  BY BillingInit, MaintenanceAssumption
<1>2. BillingInv /\ [Next]_vars => BillingInv'
  BY BillingStep, MaintenanceAssumption
<1>3. BillingInv => BilledOnce /\ ReportedTruly /\ NeighboursPayAlike
  BY DEF BillingInv
<1> QED
  BY <1>1, <1>2, <1>3, PTL DEF Spec

\* The number and the sum a call answers are those of the bills it committed,
\* whatever it skipped and whoever billed beside it; a call answered 500 has
\* left no bill, or all it had counted (GenerateBills).
THEOREM AnswersAreTrue == Spec => []ReportedTruly
BY BillsAreRight, PTL

\* A call that races a change of the rate still charges the plots of a sector
\* one amount per area (GenerateBills reads the rate once, with the plots).
THEOREM CallsChargeAlike == Spec => []NeighboursPayAlike
BY BillsAreRight, PTL

\* The register, the rates, the bills and every call stay in their types: the
\* rate that is NULL stops the call before it can reach a bill, and what a call
\* adds up stays a natural number (GenerateBills, SetRate, Store.Update).
THEOREM BillTypes == Spec => []TypeOK
<1>1. Init => BillingInv
  BY BillingInit, MaintenanceAssumption
<1>2. BillingInv /\ [Next]_vars => BillingInv'
  BY BillingStep, MaintenanceAssumption
<1>3. BillingInv => TypeOK
  BY DEF BillingInv, Typed, CallsTyped, TypeOK
<1> QED
  BY <1>1, <1>2, <1>3, PTL DEF Spec

\* No step takes back or alters a bill (GenerateBills is all that writes the
\* table, and it only inserts).
THEOREM BillsStand == Spec => NeverRepriced
<1>1. [Next]_vars => bills \subseteq bills'
  BY DEF Next, Office, ChangePlot, SetRate, Select, Abort, Proceed, Insert, Commit,
         CommitUnheard, Committed, BreakDeadlock, vars
<1> QED
  BY <1>1, PTL DEF Spec, NeverRepriced
=============================================================================
