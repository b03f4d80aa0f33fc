------------------------------- MODULE BootProofs -------------------------------
(***************************************************************************)
(* Proofs about boots, for any number of instances, seed jobs, migrations  *)
(* and images.  The argument: whatever a process has read of the recorded  *)
(* versions is a prefix of the migrations, and still is part of them when  *)
(* it acts, since they only grow; so the one that holds the locks applies  *)
(* the next migration and no other.  A seed's transaction is open only     *)
(* over an empty town, which nobody else can fill or empty meanwhile; what *)
(* its draft holds is what the statements so far have put there.           *)
(***************************************************************************)
EXTENDS Boot, FiniteSetTheorems, TLAPS

InTransaction == {"applied", "recorded"}

Serves == {"serving", "draining", "closing"}

\* The migrations applied are the first so many, and so recorded.
InOrder == versions = schema /\ \E k \in 0..Migrations : schema = 1..k

\* What a process has read is still so; what it has passed is applied; what it
\* has begun to apply is the next.
Truly(at) ==
    /\ at.op # "down" =>
          at.seen \subseteq schema /\ \E j \in 0..Migrations : at.seen = 1..j
    /\ at.op \in {"connected", "migrating"} => 1..at.at \subseteq schema
    /\ at.op \in InTransaction => at.at \in 1..Migrations /\ schema = 1..(at.at - 1)

KnowsTruly == \A p \in Processes : Truly(process[p])

\* DDL is applied by one process at a time.
OneMigrates ==
    \A p, r \in Processes :
        process[p].op \in InTransaction /\ process[r].op \in InTransaction => p = r

\* A seed's transaction is open over an empty town, there is one at a time, and
\* only it has a draft.
SeedsAlone ==
    /\ \A p \in Processes : process[p].op = "seeding" =>
          /\ p \in Seeders
          /\ "stage" \in DOMAIN draft /\ draft.stage # "none"
          /\ town = <<>>
    /\ draft # NoDraft => \E p \in Seeders : process[p].op = "seeding"
    /\ \A p, r \in Processes :
          process[p].op = "seeding" /\ process[r].op = "seeding" => p = r

OneTown == town = <<>> \/ \E project : town = <<project>>

MigrationInv ==
    /\ process \in [Processes -> {Down} \cup Running]
    /\ InOrder /\ KnowsTruly /\ OneMigrates /\ ServesMigrated

TownInv == MigrationInv /\ SeedsAlone /\ OneTown

-----------------------------------------------------------------------------

LEMMA Least ==
    ASSUME NEW S \in SUBSET Int, NEW a \in S, \A b \in S : a <= b
    PROVE Min(S) = a
<1>1. \E b \in S : \A c \in S : b <= c
  OBVIOUS
<1>2. Min(S) \in S /\ \A c \in S : Min(S) <= c
  BY <1>1 DEF Min
<1>3. Min(S) \in Int /\ a \in Int /\ Min(S) <= a /\ a <= Min(S)
  BY <1>2
<1> QED
  BY <1>3

\* One process goes on by itself, knowing truly, where the schema stays.
LEMMA OneGoesOn ==
    ASSUME BootAssumption, MigrationInv,
           NEW p \in Processes, NEW new \in {Down} \cup Running,
           process' = [process EXCEPT ![p] = new],
           UNCHANGED <<schema, versions>>,
           Truly(new),
           new.op \in InTransaction =>
              \A r \in Processes \ {p} : process[r].op \notin InTransaction,
           new.op \in Serves /\ p \in Apis => 1..Build[p] \subseteq schema
    PROVE MigrationInv'
<1>1. /\ process' \in [Processes -> {Down} \cup Running]
      /\ process'[p] = new
      /\ \A r \in Processes \ {p} : process'[r] = process[r]
  BY DEF MigrationInv
<1>2. InOrder'
  BY DEF MigrationInv, InOrder
<1>3. KnowsTruly'
  <2>1. ASSUME NEW r \in Processes PROVE Truly(process[r])'
    BY <1>1 DEF MigrationInv, KnowsTruly, Truly
  <2> QED
    BY <2>1 DEF KnowsTruly
<1>4. OneMigrates'
  BY <1>1 DEF MigrationInv, OneMigrates
<1>5. ServesMigrated'
  BY <1>1 DEF MigrationInv, ServesMigrated, Serves, Processes
<1> QED
  BY <1>1, <1>2, <1>3, <1>4, <1>5 DEF MigrationInv

\* What a process finds pending begins where the schema it knows ends.
LEMMA PendingIsNext ==
    ASSUME BootAssumption, MigrationInv, NEW p \in Processes, process[p].op = "migrating"
    PROVE /\ Pending(p) = {} => 1..Build[p] \subseteq schema
          /\ Pending(p) # {} =>
                Due(p) \in 1..Migrations /\ 1..(Due(p) - 1) \subseteq schema
<1>1. Build[p] \in 1..Migrations /\ Migrations \in Nat
  BY DEF BootAssumption
<1>2. PICK j \in 0..Migrations : process[p].seen = 1..j
  BY DEF MigrationInv, KnowsTruly, Truly
<1>3. process[p].at \in 0..Migrations
  BY DEF MigrationInv, Running, Down
<1>4. 1..process[p].at \subseteq schema /\ 1..j \subseteq schema
  BY <1>2 DEF MigrationInv, KnowsTruly, Truly
<1>5. PICK a \in {process[p].at, j} : process[p].at <= a /\ j <= a
  BY <1>2, <1>3
<1>6. a \in 0..Migrations /\ 1..a \subseteq schema
  BY <1>2, <1>3, <1>4, <1>5
<1>7. Pending(p) = (a + 1)..Build[p]
  BY <1>1, <1>2, <1>3, <1>5 DEF Pending
<1>8. CASE a >= Build[p]
  BY <1>1, <1>6, <1>7, <1>8
<1>9. CASE a < Build[p]
  <2> DEFINE S == (a + 1)..Build[p]
  <2>1. S \in SUBSET Int /\ a + 1 \in S /\ \A b \in S : a + 1 <= b
    BY <1>1, <1>6, <1>9
  <2>2. Min(S) = a + 1
    <3> HIDE DEF S
    <3> QED
      BY <2>1, Least
  <2>3. Due(p) = a + 1
    BY <1>7, <2>2 DEF Due
  <2> QED
    BY <2>3, <1>1, <1>6, <1>7, <1>9
<1> QED
  BY <1>1, <1>6, <1>8, <1>9

\* A process that is up and stays with what it knows moves to stage op.
LEMMA GotoKeeps ==
    ASSUME BootAssumption, MigrationInv,
           NEW p \in Processes, process[p].op # "down",
           NEW op \in {"migrating", "recorded", "serving", "draining", "closing",
                       "counted", "emptied", "seeding"},
           Goto(p, op), UNCHANGED <<schema, versions>>,
           op = "migrating" => 1..process[p].at \subseteq schema,
           op = "recorded" => process[p].op = "applied",
           op \in Serves /\ p \in Apis => 1..Build[p] \subseteq schema
    PROVE MigrationInv'
<1> DEFINE new == [process[p] EXCEPT !.op = op]
<1>1. process[p] \in Running
  BY DEF MigrationInv, Down
<1>2. new \in Running /\ new.op = op /\ new.seen = process[p].seen /\ new.at = process[p].at
  BY <1>1 DEF Running
<1>3. process' = [process EXCEPT ![p] = new]
  BY DEF Goto
<1>4. Truly(process[p])
  BY DEF MigrationInv, KnowsTruly
<1>5. Truly(new)
  BY <1>2, <1>4 DEF Truly, InTransaction
<1>6. new.op \in InTransaction =>
         \A r \in Processes \ {p} : process[r].op \notin InTransaction
  BY <1>2 DEF MigrationInv, OneMigrates, InTransaction
<1> HIDE DEF new
<1> QED
  BY <1>2, <1>3, <1>5, <1>6, OneGoesOn

\* A process that exits takes nothing with it.
LEMMA ExitKeeps ==
    ASSUME BootAssumption, MigrationInv, NEW p \in Processes,
           Exit(p), UNCHANGED <<schema, versions>>
    PROVE MigrationInv'
<1>1. Truly(Down) /\ Down.op \notin InTransaction \cup Serves
  BY DEF Truly, Down, InTransaction, Serves
<1>2. process' = [process EXCEPT ![p] = Down]
  BY DEF Exit
<1> QED
  BY <1>1, <1>2, OneGoesOn

LEMMA BeginningsKeep ==
    ASSUME BootAssumption, MigrationInv, NEW p \in Processes, Start(p) \/ ReadVersions(p)
    PROVE MigrationInv'
<1>1. CASE Start(p)
  <2> DEFINE new == [op |-> "connected", seen |-> {}, at |-> 0]
  <2>1. new \in Running /\ Truly(new) /\ new.op \notin InTransaction \cup Serves
    <3>1. {} = 1..0 /\ 0 \in 0..Migrations
      BY DEF BootAssumption
    <3> QED
      BY <3>1 DEF Running, Truly, InTransaction, Serves
  <2>2. process' = [process EXCEPT ![p] = new] /\ UNCHANGED <<schema, versions>>
    BY <1>1 DEF Start
  <2> HIDE DEF new
  <2> QED
    BY <2>1, <2>2, OneGoesOn
<1>2. CASE ReadVersions(p)
  <2> DEFINE new == [process[p] EXCEPT !.op = "migrating", !.seen = versions]
  <2>1. process[p] \in Running /\ process[p].op = "connected" /\ Truly(process[p])
    BY <1>2 DEF ReadVersions, MigrationInv, KnowsTruly, Down
  <2>2. versions = schema /\ \E j \in 0..Migrations : versions = 1..j
    BY DEF MigrationInv, InOrder
  <2>3. versions \in SUBSET (1..Migrations)
    BY <2>2 DEF BootAssumption
  <2>4. /\ new \in Running /\ new.op = "migrating" /\ new.seen = versions
        /\ new.at = process[p].at
    BY <2>1, <2>3 DEF Running
  <2>5. Truly(new) /\ new.op \notin InTransaction \cup Serves
    BY <2>1, <2>2, <2>4 DEF Truly, InTransaction, Serves
  <2>6. process' = [process EXCEPT ![p] = new] /\ UNCHANGED <<schema, versions>>
    BY <1>2 DEF ReadVersions
  <2> HIDE DEF new
  <2> QED
    BY <2>4, <2>5, <2>6, OneGoesOn
<1> QED
  BY <1>1, <1>2

\* The body: what is due and is not there is the next migration.
LEMMA ApplyKeeps ==
    ASSUME BootAssumption, MigrationInv, NEW p \in Processes, Apply(p)
    PROVE MigrationInv'
<1>1. process[p].op = "migrating" /\ Pending(p) # {} /\ ~MigratingApart(p)
      /\ UNCHANGED <<schema, versions>>
  BY DEF Apply, Unlocked
<1>2. CASE Due(p) \in schema
  BY <1>1, <1>2, ExitKeeps DEF Apply
<1>3. CASE Due(p) \notin schema
  <2> DEFINE new == [process[p] EXCEPT !.op = "applied", !.at = Due(p)]
  <2>1. process[p] \in Running /\ Truly(process[p])
    BY <1>1 DEF MigrationInv, KnowsTruly, Down
  <2>2. Due(p) \in 1..Migrations /\ 1..(Due(p) - 1) \subseteq schema
    BY <1>1, PendingIsNext
  <2>3. schema = 1..(Due(p) - 1)
    <3>1. PICK k \in 0..Migrations : schema = 1..k
      BY DEF MigrationInv, InOrder
    <3>2. k < Due(p)
      BY <3>1, <2>2, <1>3
    <3>3. k >= Due(p) - 1
      BY <3>1, <2>2 DEF BootAssumption
    <3> QED
      BY <3>1, <3>2, <3>3, <2>2
  <2>4. /\ new \in Running /\ new.op = "applied" /\ new.seen = process[p].seen
        /\ new.at = Due(p)
    <3>1. Due(p) \in 0..Migrations
      BY <2>2 DEF BootAssumption
    <3>2. ASSUME NEW due \in 0..Migrations
          PROVE  LET it == [process[p] EXCEPT !.op = "applied", !.at = due]
                 IN  /\ it \in Running /\ it.op = "applied"
                     /\ it.seen = process[p].seen /\ it.at = due
      BY <2>1 DEF Running
    <3> QED
      BY <3>1, <3>2
  <2>5. Truly(new) /\ new.op \notin Serves
    BY <1>1, <2>1, <2>2, <2>3, <2>4 DEF Truly, InTransaction, Serves
  <2>6. \A r \in Processes \ {p} : process[r].op \notin InTransaction
    BY <1>1 DEF MigratingApart, InTransaction
  <2>7. process' = [process EXCEPT ![p] = new]
    BY <1>3 DEF Apply
  <2> HIDE DEF new
  <2> QED
    BY <1>1, <2>4, <2>5, <2>6, <2>7, OneGoesOn
<1> QED
  BY <1>2, <1>3

LEMMA RecordKeeps ==
    ASSUME BootAssumption, MigrationInv, NEW p \in Processes, Record(p)
    PROVE MigrationInv'
<1>1. process[p].op = "applied" /\ UNCHANGED <<schema, versions>>
  BY DEF Record
<1>2. CASE Exit(p)
  BY <1>1, <1>2, ExitKeeps
<1>3. CASE Goto(p, "recorded")
  BY <1>1, <1>3, GotoKeeps DEF Serves
<1> QED
  BY <1>2, <1>3 DEF Record

\* The commit: the schema grows by the next migration, and everybody else
\* knows no more than before.
LEMMA CommitKeeps ==
    ASSUME BootAssumption, MigrationInv, NEW p \in Processes, Commit(p)
    PROVE /\ MigrationInv'
          /\ \E next \in schema' : schema = 1..(next - 1) /\ schema' = 1..next
<1>1. /\ process[p].op = "recorded" /\ Goto(p, "migrating")
      /\ schema' = schema \cup {process[p].at}
      /\ versions' = versions \cup {process[p].at}
  BY DEF Commit
<1>2. process[p] \in Running /\ Truly(process[p])
  BY <1>1 DEF MigrationInv, KnowsTruly, Down
<1>3. process[p].at \in 1..Migrations /\ schema = 1..(process[p].at - 1)
  BY <1>1, <1>2 DEF Truly, InTransaction
<1>4. schema' = 1..process[p].at
  BY <1>1, <1>3 DEF BootAssumption
<1>5. /\ process' \in [Processes -> {Down} \cup Running]
      /\ process'[p].op = "migrating" /\ process'[p].seen = process[p].seen
      /\ process'[p].at = process[p].at
      /\ \A r \in Processes \ {p} : process'[r] = process[r]
  BY <1>1, <1>2 DEF MigrationInv, Goto, Running
<1>6. InOrder'
  <2>1. versions' = schema' /\ process[p].at \in 0..Migrations
    BY <1>1, <1>3 DEF MigrationInv, InOrder
  <2> QED
    BY <1>4, <2>1 DEF InOrder
<1>7. \A r \in Processes \ {p} : process[r].op \notin InTransaction
  BY <1>1 DEF MigrationInv, OneMigrates, InTransaction
<1>8. KnowsTruly'
  <2>1. ASSUME NEW r \in Processes PROVE Truly(process[r])'
    <3>1. Truly(process[r]) /\ schema \subseteq schema'
      BY <1>1 DEF MigrationInv, KnowsTruly
    <3>2. CASE r = p
      <4>1. PICK j \in 0..Migrations : process[p].seen = 1..j
        BY <1>1, <1>2 DEF Truly
      <4>2. process[p].seen \subseteq schema'
        BY <1>1, <1>2, <3>1 DEF Truly
      <4> QED
        BY <1>4, <1>5, <3>2, <4>1, <4>2 DEF Truly, InTransaction
    <3>3. CASE r # p
      BY <1>5, <1>7, <3>1, <3>3 DEF Truly, InTransaction
    <3> QED
      BY <3>2, <3>3
  <2> QED
    BY <2>1 DEF KnowsTruly
<1>9. OneMigrates'
  BY <1>5, <1>7 DEF OneMigrates, InTransaction
<1>10. ServesMigrated'
  BY <1>1, <1>5 DEF MigrationInv, ServesMigrated, Processes
<1>11. process[p].at \in schema'
  BY <1>1
<1> QED
  BY <1>3, <1>4, <1>5, <1>6, <1>8, <1>9, <1>10, <1>11 DEF MigrationInv

\* What a process does once its schema is up to date, or when it fails.
LEMMA OthersKeep ==
    ASSUME BootAssumption, MigrationInv, NEW p \in Processes,
           \/ Listen(p) \/ Terminate(p) \/ ShutdownReturns(p) \/ Close(p)
           \/ Fail(p)
           \/ CountSocieties(p) \/ Truncate(p) \/ BeginSeed(p) \/ CommitSeed(p)
    PROVE MigrationInv'
<1>1. UNCHANGED <<schema, versions>>
  BY DEF Listen, Terminate, ShutdownReturns, Close, Fail, CountSocieties, Truncate,
         BeginSeed, CommitSeed
<1>2. CASE Exit(p)
  BY <1>1, <1>2, ExitKeeps
<1>3. CASE Listen(p)
  <2>1. process[p].op = "migrating" /\ 1..Build[p] \subseteq schema /\ Goto(p, "serving")
    BY <1>3, PendingIsNext DEF Listen
  <2> QED
    BY <1>1, <2>1, GotoKeeps
<1>4. CASE Terminate(p) \/ ShutdownReturns(p)
  <2>1. PICK op \in {"draining", "closing"} : Goto(p, op)
    BY <1>4 DEF Terminate, ShutdownReturns
  <2>2. process[p].op \in Serves
    BY <1>4 DEF Terminate, ShutdownReturns, Serves
  <2>3. p \in Apis => 1..Build[p] \subseteq schema
    BY <2>2 DEF MigrationInv, ServesMigrated, Serves
  <2> QED
    BY <1>1, <2>1, <2>2, <2>3, GotoKeeps DEF Serves
<1>5. CASE CountSocieties(p) \/ Truncate(p) \/ BeginSeed(p)
  <2>1. CASE Exit(p)
    BY <2>1, <1>2
  <2>2. CASE \E op \in {"counted", "emptied", "seeding"} : Goto(p, op)
    <3>1. process[p].op \in {"migrating", "counted", "emptied"}
      BY <1>5 DEF CountSocieties, Truncate, BeginSeed
    <3> QED
      BY <1>1, <2>2, <3>1, GotoKeeps DEF Serves
  <2> QED
    BY <1>5, <2>1, <2>2 DEF CountSocieties, Truncate, BeginSeed
<1>6. CASE Close(p) \/ Fail(p) \/ CommitSeed(p)
  BY <1>2, <1>6 DEF Close, Fail, CommitSeed
<1> QED
  BY <1>3, <1>4, <1>5, <1>6

LEMMA MigrationStep ==
    ASSUME BootAssumption, MigrationInv, [Next]_vars PROVE MigrationInv'
<1>1. ASSUME NEW p \in Processes, Start(p) \/ Migrating(p) \/ Fail(p) PROVE MigrationInv'
  BY <1>1, BeginningsKeep, ApplyKeeps, RecordKeeps, CommitKeeps, OthersKeep DEF Migrating
<1>2. CASE UNCHANGED <<schema, versions, process>>
  BY <1>2 DEF MigrationInv, InOrder, KnowsTruly, Truly, OneMigrates, ServesMigrated
<1>3. ASSUME NEW p \in Apis, Serving(p) \/ Arrive(p) \/ Terminate(p) PROVE MigrationInv'
  <2>1. CASE Answer(p) \/ Arrive(p)
    BY <2>1, <1>2 DEF Answer, Arrive
  <2>2. p \in Processes
    BY DEF Processes
  <2> QED
    BY <1>3, <2>1, <2>2, OthersKeep DEF Serving
<1>4. ASSUME NEW p \in Seeders, Seeding(p) PROVE MigrationInv'
  <2>1. CASE Seed(p)
    BY <2>1, <1>2 DEF Seed
  <2>2. p \in Processes
    BY DEF Processes
  <2> QED
    BY <1>4, <2>1, <2>2, OthersKeep DEF Seeding
<1>5. CASE UNCHANGED vars
  BY <1>2, <1>5 DEF vars
<1> QED
  BY <1>1, <1>3, <1>4, <1>5 DEF Next

LEMMA MigrationInit == ASSUME BootAssumption, Init PROVE MigrationInv
<1>1. \A p \in Processes : process[p] = Down /\ process[p].op = "down"
  BY DEF Init, Down
<1>2. process \in [Processes -> {Down} \cup Running]
  BY DEF Init
<1>3. InOrder
  <2>1. 0 \in 0..Migrations /\ {} = 1..0
    BY DEF BootAssumption
  <2> QED
    BY <2>1 DEF Init, InOrder
<1>4. KnowsTruly
  BY <1>1 DEF KnowsTruly, Truly, InTransaction
<1>5. OneMigrates
  BY <1>1 DEF OneMigrates, InTransaction
<1>6. ServesMigrated
  BY <1>1 DEF ServesMigrated, Processes
<1> QED
  BY <1>2, <1>3, <1>4, <1>5, <1>6 DEF MigrationInv

\* However many processes boot together and wherever they fail, an instance
\* serves only over the schema its build expects (run, migrateFrom).
THEOREM InstancesServeMigrated == Spec => []ServesMigrated
<1>1. Init => MigrationInv
  BY MigrationInit, BootAssumption
<1>2. MigrationInv /\ [Next]_vars => MigrationInv'
  BY MigrationStep, BootAssumption
<1>3. MigrationInv => ServesMigrated
  BY DEF MigrationInv
<1> QED
  BY <1>1, <1>2, <1>3, PTL DEF Spec

-----------------------------------------------------------------------------
(* What a seed's transaction has inserted, statement by statement *)

LEMMA PlotsFinite ==
    ASSUME SeedDataAssumption
    PROVE  IsFiniteSet(Plots) /\ Cardinality(Plots) = LastPlot
<1>1. LastPlot \in Nat \ {0}
  BY DEF SeedDataAssumption
<1> QED
  BY <1>1, FS_Interval DEF Plots

\* A plot has at most one of these bills.
OnePerPlot(dues) == \A c, d \in dues : c.plot = d.plot => c = d

\* As many bills as plots that have one.
LEMMA DuesCounted ==
    ASSUME SeedDataAssumption, NEW dues \in SUBSET Dues, OnePerPlot(dues)
    PROVE  /\ IsFiniteSet(dues)
           /\ Cardinality(dues) = Cardinality({due.plot : due \in dues})
<1> DEFINE f == [due \in dues |-> due.plot]
           billed == {due.plot : due \in dues}
<1>1. f \in Injection(dues, billed) /\ f \in Surjection(dues, billed)
  BY DEF OnePerPlot, Injection, IsInjective, Surjection
<1>2. billed \subseteq Plots
  BY DEF Dues
<1> HIDE DEF f, billed
<1>3. IsFiniteSet(billed)
  BY <1>2, PlotsFinite, FS_Subset
<1>4. IsFiniteSet(dues) /\ (Cardinality(dues) = Cardinality(billed) <=> f \in Surjection(dues, billed))
  BY <1>1, <1>3, FS_Injection
<1> QED
  BY <1>1, <1>4 DEF billed

\* Finitely many bills bring in finitely many paise.
LEMMA PaiseFinite ==
    ASSUME SeedDataAssumption, NEW dues \in SUBSET Dues, IsFiniteSet(dues)
    PROVE  IsFiniteSet(Paise(dues)) /\ Total(dues) \in Nat
<1> DEFINE paid == {d \in dues : d.paid}
           f == [d \in paid |-> {d} \X (1..Amount[d.plot])]
           heaps == {{d} \X (1..Amount[d.plot]) : d \in paid}
<1>1. IsFiniteSet(paid)
  BY FS_Subset
<1>2. f \in Surjection(paid, heaps)
  BY DEF Surjection
<1>3. \A heap \in heaps : IsFiniteSet(heap)
  <2>1. ASSUME NEW d \in paid PROVE IsFiniteSet({d} \X (1..Amount[d.plot]))
    <3>1. PICK one : one = {d}
      OBVIOUS
    <3>2. PICK n \in Nat : n = Amount[d.plot]
      BY DEF SeedDataAssumption, Dues
    <3>3. PICK some : some = 1..n
      OBVIOUS
    <3>4. IsFiniteSet(one)
      BY <3>1, FS_Singleton
    <3>5. IsFiniteSet(some)
      BY <3>3, FS_Interval
    <3>6. IsFiniteSet(one \X some)
      BY <3>4, <3>5, FS_Product
    <3> QED
      BY <3>1, <3>2, <3>3, <3>6
  <2> QED
    BY <2>1
<1>4. Paise(dues) = UNION heaps
  BY DEF Paise
<1> HIDE DEF paid, f, heaps
<1>5. IsFiniteSet(heaps)
  BY <1>1, <1>2, FS_Surjection
<1>6. IsFiniteSet(UNION heaps)
  BY <1>3, <1>5, FS_UNION
<1> QED
  BY <1>4, <1>6, FS_CardinalityType DEF Total

\* What bills for other plots bring in is added to what these do.
LEMMA TotalAdds ==
    ASSUME SeedDataAssumption,
           NEW dues \in SUBSET Dues, IsFiniteSet(dues),
           NEW rows \in SUBSET Dues, IsFiniteSet(rows), dues \cap rows = {}
    PROVE  Total(dues \cup rows) = Total(dues) + Total(rows)
<1>1. PICK old : old = Paise(dues)
  OBVIOUS
<1>2. PICK more : more = Paise(rows)
  OBVIOUS
<1>3. IsFiniteSet(old) /\ IsFiniteSet(more)
  BY <1>1, <1>2, PaiseFinite
<1>4. Paise(dues \cup rows) = old \cup more
  BY <1>1, <1>2 DEF Paise
<1>5. old \cap more = {}
  BY <1>1, <1>2 DEF Paise
<1>6. Cardinality(old \cup more)
         = Cardinality(old) + Cardinality(more) - Cardinality(old \cap more)
  BY <1>3, FS_Union
<1>7. /\ Cardinality(old \cap more) = 0
      /\ Cardinality(old) \in Nat /\ Cardinality(more) \in Nat
  BY <1>3, <1>5, FS_EmptySet, FS_CardinalityType
<1>8. Cardinality(old \cup more) = Cardinality(old) + Cardinality(more)
  BY <1>6, <1>7
<1> QED
  BY <1>1, <1>2, <1>4, <1>8 DEF Total

\* What the inserted rows say of one another, at every stage: the plots are
\* the first so many, the owners the first so many of theirs; the plots that
\* were read and have no bill yet and those that have one are the sold ones;
\* and what was collected is what the bills say was paid.
RowsAgree(d) ==
    LET made == d.project IN
    /\ made.plots = 1..Cardinality(made.plots)
    /\ made.sold \subseteq made.plots /\ made.owned \subseteq made.sold
    /\ made.owned = {OwnerPlots[i] : i \in 1..Cardinality(made.owned)}
    /\ OnePerPlot(made.dues)
    /\ d.collected = Total(made.dues)

\* What is done when the transaction has come to a stage.
StageReached(d) ==
    LET made == d.project IN
    /\ d.stage \in {"society", "plots"} => made.owned = {}
    /\ d.stage \notin {"society", "plots"} => made.plots = Plots
    /\ d.stage = "owners" => Cardinality(made.owned) < Len(OwnerPlots)
    /\ d.stage \in {"society", "plots", "owners"} => made.dues = {}
    /\ d.stage \notin {"society", "plots", "owners"} =>
          /\ made.owned = ToSet(OwnerPlots)
          /\ d.bills \subseteq made.sold
          /\ {due.plot : due \in made.dues} = made.sold \ d.bills
    /\ d.stage \in {"fund", "rest", "commit"} => d.bills = {}
    /\ d.stage \in {"rest", "commit"} => made.credit = d.collected

DraftOK(d) == d \in Drafts /\ RowsAgree(d) /\ StageReached(d)

\* A draft, taken apart.
LEMMA DraftParts ==
    ASSUME NEW d \in Drafts
    PROVE  \E plots, sold, owned, bills \in SUBSET Plots, dues \in SUBSET Dues,
              credit, collected \in Nat, stage \in Stages :
              d = [stage |-> stage, collected |-> collected, bills |-> bills,
                   project |-> [plots |-> plots, sold |-> sold, owned |-> owned,
                                dues |-> dues, credit |-> credit]]
<1>1. d.project \in Projects
  BY DEF Drafts
<1>2. /\ d.stage \in Stages /\ d.collected \in Nat /\ d.bills \in SUBSET Plots
      /\ d = [stage |-> d.stage, collected |-> d.collected, bills |-> d.bills,
              project |-> d.project]
  BY DEF Drafts
<1>3. PICK plots, sold, owned \in SUBSET Plots, dues \in SUBSET Dues, credit \in Nat :
         d.project = [plots |-> plots, sold |-> sold, owned |-> owned, dues |-> dues,
                      credit |-> credit]
  BY <1>1 DEF Projects
<1> QED
  BY <1>2, <1>3

\* The first INSERT.
LEMMA OpenedOK == ASSUME SeedDataAssumption, OpenDraft PROVE DraftOK(draft')
<1> DEFINE made == [plots |-> {}, sold |-> {}, owned |-> {}, dues |-> {}, credit |-> 0]
           d == [stage |-> "society", collected |-> 0, bills |-> {}, project |-> made]
<1>1. draft' = d
  BY DEF OpenDraft
<1>2. made \in Projects
  BY DEF Projects
<1>3. d \in Drafts
  BY <1>2 DEF Drafts, Stages
<1>4. Cardinality({}) = 0 /\ {} = 1..0
  BY FS_EmptySet
<1>5. Total({}) = 0
  <2>1. Paise({}) = {}
    BY DEF Paise
  <2> QED
    BY <1>4, <2>1 DEF Total
<1>6. RowsAgree(d)
  BY <1>4, <1>5 DEF RowsAgree, OnePerPlot
<1>7. StageReached(d)
  BY DEF StageReached
<1> QED
  BY <1>1, <1>3, <1>6, <1>7 DEF DraftOK

\* A batch of plots, drawn as sold or not.
LEMMA PlotsOK ==
    ASSUME SeedDataAssumption, DraftOK(draft), InsertPlots PROVE DraftOK(draft')
<1>1. PICK was \in Projects, bills \in SUBSET Plots, collected \in Nat, stage \in Stages :
         draft = [stage |-> stage, collected |-> collected, bills |-> bills,
                  project |-> was]
  BY DEF DraftOK, Drafts
<1> DEFINE n == Cardinality(was.plots)
           to == Lesser(n + 1 + BatchSize - 1, LastPlot)
           rows == (n + 1)..to
           reached == IF LastPlot \in rows THEN "owners" ELSE "plots"
<1>2. PICK drawn \in SUBSET rows :
         draft' = [draft EXCEPT
                     !.project = [was EXCEPT !.plots = was.plots \cup rows,
                                             !.sold = was.sold \cup drawn],
                     !.stage = reached]
  <2>1. draft.project = was
    BY <1>1
  <2> QED
    BY <2>1, Zenon DEF InsertPlots
<1>3. stage = "plots"
  BY <1>1 DEF InsertPlots
<1>4. /\ was.plots = 1..n /\ was.sold \subseteq was.plots /\ was.owned \subseteq was.sold
      /\ was.owned = {OwnerPlots[i] : i \in 1..Cardinality(was.owned)}
      /\ OnePerPlot(was.dues) /\ collected = Total(was.dues)
      /\ was.owned = {} /\ was.dues = {}
  BY <1>1, <1>3 DEF DraftOK, RowsAgree, StageReached
<1>5. was.plots \subseteq Plots
  BY DEF Projects
<1>6. IsFiniteSet(was.plots) /\ n \in Nat
  BY <1>5, PlotsFinite, FS_Subset, FS_CardinalityType
<1>7. n <= LastPlot /\ LastPlot \in Nat \ {0} /\ BatchSize \in Nat \ {0}
  <2>1. n <= LastPlot
    BY <1>5, PlotsFinite, FS_Subset
  <2> QED
    BY <2>1 DEF SeedDataAssumption
<1> HIDE DEF n
<1>8. to \in Nat /\ to >= n /\ to <= LastPlot
  BY <1>6, <1>7 DEF Lesser
<1> HIDE DEF to
<1>9. was.plots \cup rows = 1..to /\ was.plots \cup rows \subseteq Plots
  BY <1>4, <1>6, <1>7, <1>8 DEF Plots
<1>10. Cardinality(1..to) = to
  BY <1>8, FS_Interval
<1>11. was.plots \cup rows = 1..Cardinality(was.plots \cup rows)
  BY <1>9, <1>10
<1>12. LastPlot \in rows => was.plots \cup rows = Plots
  BY <1>8, <1>9 DEF Plots
<1>a. PICK built \in SUBSET Plots : built = was.plots \cup rows
  BY <1>9
<1>b. PICK taken \in SUBSET Plots : taken = was.sold \cup drawn
  BY <1>4, <1>9
<1>13. PICK grown \in Projects :
          /\ grown = [was EXCEPT !.plots = built, !.sold = taken]
          /\ grown.plots = built /\ grown.sold = taken /\ grown.owned = was.owned
          /\ grown.dues = was.dues
  <2> DEFINE new == [was EXCEPT !.plots = built, !.sold = taken]
  <2>1. new \in Projects
    BY DEF Projects
  <2>2. /\ new.plots = built /\ new.sold = taken /\ new.owned = was.owned
        /\ new.dues = was.dues
    BY DEF Projects
  <2> QED
    BY <2>1, <2>2
<1>c. draft' = [draft EXCEPT !.project = grown, !.stage = reached]
  BY <1>2, <1>a, <1>b, <1>13, Zenon
<1>d. reached \in Stages /\ (reached # "owners" => reached = "plots")
      /\ (reached = "owners" => built = Plots)
  BY <1>12, <1>a DEF Stages
<1> HIDE DEF rows, reached
<1>e. draft' = [stage |-> reached, collected |-> collected, bills |-> bills, project |-> grown]
  BY <1>1, <1>c
<1>14. draft' \in Drafts
  BY <1>d, <1>e DEF Drafts
<1>15. RowsAgree(draft')
  <2>1. grown.sold \subseteq grown.plots
    BY <1>2, <1>4, <1>a, <1>b, <1>13
  <2>2. grown.owned \subseteq grown.sold
    BY <1>4, <1>13
  <2>3. grown.plots = 1..Cardinality(grown.plots)
    BY <1>11, <1>a, <1>13
  <2> QED
    BY <1>e, <1>4, <1>13, <2>1, <2>2, <2>3 DEF RowsAgree
<1>16. StageReached(draft')
  <2>1. Cardinality(grown.owned) < Len(OwnerPlots)
    BY <1>4, <1>13, FS_EmptySet DEF SeedDataAssumption
  <2> QED
    BY <1>e, <1>d, <1>4, <1>13, <2>1 DEF StageReached
<1> QED
  BY <1>14, <1>15, <1>16 DEF DraftOK

\* An owner's plot; after the last owner, the plots to bill.
LEMMA OwnerOK ==
    ASSUME SeedDataAssumption, DraftOK(draft), InsertOwner PROVE DraftOK(draft')
<1>1. PICK plots, sold, owned, bills \in SUBSET Plots, dues \in SUBSET Dues,
           credit, collected \in Nat, stage \in Stages :
         draft = [stage |-> stage, collected |-> collected, bills |-> bills,
                  project |-> [plots |-> plots, sold |-> sold, owned |-> owned,
                               dues |-> dues, credit |-> credit]]
  BY DraftParts DEF DraftOK
<1> DEFINE k == Cardinality(owned)
           plot == OwnerPlots[k + 1]
           last == Cardinality(owned \cup {plot}) = Len(OwnerPlots)
<1>2. draft' = [stage |-> IF last THEN "bills" ELSE "owners", collected |-> collected,
                bills |-> IF last THEN sold \cup {plot} ELSE {},
                project |-> [plots |-> plots, sold |-> sold \cup {plot},
                             owned |-> owned \cup {plot}, dues |-> dues,
                             credit |-> credit]]
  BY <1>1 DEF InsertOwner
<1>3. stage = "owners"
  BY <1>1 DEF InsertOwner
<1>4. /\ sold \subseteq plots /\ owned \subseteq sold
      /\ owned = {OwnerPlots[i] : i \in 1..k}
      /\ OnePerPlot(dues) /\ collected = Total(dues)
      /\ dues = {} /\ plots = Plots /\ plots = 1..Cardinality(plots)
      /\ k < Len(OwnerPlots)
  BY <1>1, <1>3 DEF DraftOK, RowsAgree, StageReached
<1>5. IsFiniteSet(owned) /\ k \in Nat
  BY PlotsFinite, FS_Subset, FS_CardinalityType
<1>6. /\ OwnerPlots \in Seq(Plots) /\ Len(OwnerPlots) \in Nat
      /\ DOMAIN OwnerPlots = 1..Len(OwnerPlots)
  BY DEF SeedDataAssumption
<1>7. plot \in Plots
  BY <1>4, <1>5, <1>6
<1>8. PICK m : m = Cardinality(owned \cup {plot})
  OBVIOUS
<1>9. m = IF plot \in owned THEN k ELSE k + 1
  BY <1>5, <1>8, FS_AddElement
<1>10. owned \cup {plot} = {OwnerPlots[i] : i \in 1..m}
  <2>1. CASE plot \in owned
    BY <1>4, <1>9, <2>1
  <2>2. CASE plot \notin owned
    <3>1. m = k + 1
      BY <1>9, <2>2
    <3>2. 1..m = (1..k) \cup {k + 1}
      BY <1>5, <3>1
    <3> HIDE DEF k
    <3> QED
      BY <1>4, <3>2
  <2> QED
    BY <2>1, <2>2
<1>11. m < Len(OwnerPlots) \/ m = Len(OwnerPlots)
  BY <1>4, <1>5, <1>6, <1>9
<1>12. m = Len(OwnerPlots) => owned \cup {plot} = ToSet(OwnerPlots)
  BY <1>6, <1>10 DEF ToSet
<1> HIDE DEF k, plot
<1> DEFINE made == [plots |-> plots, sold |-> sold \cup {plot},
                    owned |-> owned \cup {plot}, dues |-> dues, credit |-> credit]
           reached == IF last THEN "bills" ELSE "owners"
           read == IF last THEN sold \cup {plot} ELSE {}
<1>13. made \in Projects
  BY <1>7 DEF Projects
<1>14. draft' \in Drafts
  <2>1. reached \in Stages /\ read \in SUBSET Plots
    BY <1>7 DEF Stages
  <2> HIDE DEF made, reached, read
  <2>2. [stage |-> reached, collected |-> collected, bills |-> read, project |-> made]
           \in Drafts
    BY <1>13, <2>1 DEF Drafts
  <2> QED
    BY <1>2, <2>2 DEF made, reached, read
<1>15. RowsAgree(draft')
  BY <1>2, <1>4, <1>7, <1>8, <1>10 DEF RowsAgree
<1>16. StageReached(draft')
  BY <1>2, <1>4, <1>8, <1>11, <1>12 DEF StageReached
<1> QED
  BY <1>14, <1>15, <1>16 DEF DraftOK

\* A batch of bills: for plots that had none, and what they bring in is added.
LEMMA DuesOK ==
    ASSUME SeedDataAssumption, DraftOK(draft), InsertDues PROVE DraftOK(draft')
<1>1. PICK was \in Projects, bills \in SUBSET Plots, collected \in Nat, stage \in Stages :
         draft = [stage |-> stage, collected |-> collected, bills |-> bills,
                  project |-> was]
  BY DEF DraftOK, Drafts
<1>2. draft.project = was /\ draft.bills = bills /\ draft.collected = collected
  BY <1>1
<1>a. PICK batch \in SUBSET draft.bills : \E unpaid \in SUBSET batch :
         LET rows == {[plot |-> p, paid |-> p \notin unpaid] : p \in batch}
         IN  draft' = [draft EXCEPT
                        !.project = [draft.project EXCEPT
                                       !.dues = draft.project.dues \cup rows],
                        !.bills = draft.bills \ batch,
                        !.collected = draft.collected + Total(rows),
                        !.stage = IF batch = draft.bills THEN "fund" ELSE "bills"]
  BY Zenon DEF InsertDues
<1>b. PICK unpaid \in SUBSET batch :
         LET rows == {[plot |-> p, paid |-> p \notin unpaid] : p \in batch}
         IN  draft' = [draft EXCEPT
                        !.project = [draft.project EXCEPT
                                       !.dues = draft.project.dues \cup rows],
                        !.bills = draft.bills \ batch,
                        !.collected = draft.collected + Total(rows),
                        !.stage = IF batch = draft.bills THEN "fund" ELSE "bills"]
  BY <1>a, Zenon
<1>c. PICK rows : rows = {[plot |-> p, paid |-> p \notin unpaid] : p \in batch}
  OBVIOUS
<1>3. /\ batch \in SUBSET bills
      /\ draft' = [draft EXCEPT
                     !.project = [was EXCEPT !.dues = was.dues \cup rows],
                     !.bills = bills \ batch,
                     !.collected = collected + Total(rows),
                     !.stage = IF batch = bills THEN "fund" ELSE "bills"]
  BY <1>2, <1>b, <1>c, Zenon
<1>d. batch \subseteq bills
  BY <1>3
<1>4. stage = "bills"
  BY <1>1 DEF InsertDues
<1>5. /\ was.plots = 1..Cardinality(was.plots)
      /\ was.sold \subseteq was.plots /\ was.owned \subseteq was.sold
      /\ was.owned = {OwnerPlots[i] : i \in 1..Cardinality(was.owned)}
      /\ OnePerPlot(was.dues) /\ collected = Total(was.dues)
  BY <1>1 DEF DraftOK, RowsAgree
<1>6. /\ was.plots = Plots /\ was.owned = ToSet(OwnerPlots) /\ bills \subseteq was.sold
      /\ {due.plot : due \in was.dues} = was.sold \ bills
  BY <1>1, <1>4 DEF DraftOK, StageReached
<1>7. /\ rows \in SUBSET Dues /\ OnePerPlot(rows)
      /\ {due.plot : due \in rows} = batch
  <2>1. \A p \in batch : [plot |-> p, paid |-> p \notin unpaid] \in Dues
    BY <1>3 DEF Dues
  <2>2. rows \in SUBSET Dues
    BY <1>c, <2>1
  <2>3. OnePerPlot(rows)
    BY <1>c DEF OnePerPlot
  <2>4. {due.plot : due \in rows} = batch
    <3>1. \A p \in batch :
             LET due == [plot |-> p, paid |-> p \notin unpaid] IN due \in rows /\ due.plot = p
      BY <1>c
    <3>2. \A due \in rows : due.plot \in batch
      BY <1>c
    <3> QED
      BY <3>1, <3>2
  <2> QED
    BY <2>2, <2>3, <2>4
<1>8. was.dues \in SUBSET Dues
  BY DEF Projects
<1>9. \A c \in was.dues, d \in rows : c.plot # d.plot
  <2>1. \A c \in was.dues : c.plot \notin bills
    BY <1>6
  <2>2. \A d \in rows : d.plot \in bills
    BY <1>d, <1>7
  <2> QED
    BY <2>1, <2>2
<1>10. PICK dues \in SUBSET Dues : dues = was.dues \cup rows
  BY <1>7, <1>8
<1>11. OnePerPlot(dues)
  BY <1>5, <1>7, <1>9, <1>10 DEF OnePerPlot
<1>12. {due.plot : due \in dues} = was.sold \ (bills \ batch)
  <2>1. {due.plot : due \in dues}
           = {due.plot : due \in was.dues} \cup {due.plot : due \in rows}
    BY <1>10
  <2>2. (was.sold \ bills) \cup batch = was.sold \ (bills \ batch)
    BY <1>d, <1>6
  <2> QED
    BY <1>6, <1>7, <2>1, <2>2
<1>13. IsFiniteSet(was.dues) /\ IsFiniteSet(rows)
  BY <1>5, <1>7, <1>8, DuesCounted
<1>14. PICK brought \in Nat : brought = Total(rows)
  BY <1>7, <1>13, PaiseFinite
<1>15. collected + brought = Total(dues)
  <2>1. was.dues \cap rows = {}
    BY <1>9
  <2> QED
    BY <1>5, <1>7, <1>8, <1>10, <1>13, <1>14, <2>1, TotalAdds
<1>16. PICK billed \in Projects :
          /\ billed = [was EXCEPT !.dues = dues] /\ billed.dues = dues
          /\ billed.plots = was.plots /\ billed.sold = was.sold
          /\ billed.owned = was.owned
  <2> DEFINE next == [was EXCEPT !.dues = dues]
  <2>1. next \in Projects
    BY DEF Projects
  <2>2. /\ next.dues = dues /\ next.plots = was.plots /\ next.sold = was.sold
        /\ next.owned = was.owned
    BY DEF Projects
  <2> QED
    BY <2>1, <2>2
<1>17. PICK reached \in Stages :
          /\ reached = IF batch = bills THEN "fund" ELSE "bills"
          /\ reached = "bills" \/ (reached = "fund" /\ bills \ batch = {})
  BY DEF Stages
<1>18. draft' = [draft EXCEPT !.project = billed, !.bills = bills \ batch,
                             !.collected = collected + brought, !.stage = reached]
  BY <1>3, <1>10, <1>14, <1>16, <1>17, Zenon
<1>19. draft' = [stage |-> reached, collected |-> collected + brought,
                 bills |-> bills \ batch, project |-> billed]
  BY <1>1, <1>18
<1>20. draft' \in Drafts
  BY <1>19 DEF Drafts
<1>21. RowsAgree(draft')
  BY <1>5, <1>11, <1>15, <1>16, <1>19 DEF RowsAgree
<1>22. StageReached(draft')
  BY <1>6, <1>12, <1>16, <1>17, <1>19 DEF StageReached
<1> QED
  BY <1>20, <1>21, <1>22 DEF DraftOK

\* The fund's credit is what was collected.
LEMMA FundOK ==
    ASSUME DraftOK(draft), InsertFund PROVE DraftOK(draft')
<1>1. PICK was \in Projects, bills \in SUBSET Plots, collected \in Nat, stage \in Stages :
         draft = [stage |-> stage, collected |-> collected, bills |-> bills,
                  project |-> was]
  BY DEF DraftOK, Drafts
<1>2. draft.project = was /\ draft.collected = collected
  BY <1>1
<1>3. stage = "fund"
  BY <1>1 DEF InsertFund
<1>4. PICK funded \in Projects :
          /\ funded = [was EXCEPT !.credit = collected] /\ funded.credit = collected
          /\ funded.plots = was.plots /\ funded.sold = was.sold
          /\ funded.owned = was.owned /\ funded.dues = was.dues
  <2> DEFINE next == [was EXCEPT !.credit = collected]
  <2>1. next \in Projects
    BY DEF Projects
  <2>2. /\ next.credit = collected /\ next.plots = was.plots /\ next.sold = was.sold
        /\ next.owned = was.owned /\ next.dues = was.dues
    BY DEF Projects
  <2> QED
    BY <2>1, <2>2
<1>5. draft' = [draft EXCEPT !.project = funded, !.stage = "rest"]
  BY <1>2, <1>4, Zenon DEF InsertFund
<1>6. draft' = [stage |-> "rest", collected |-> collected, bills |-> bills,
                project |-> funded]
  BY <1>1, <1>5
<1>7. draft' \in Drafts
  BY <1>6 DEF Drafts, Stages
<1>8. RowsAgree(draft')
  BY <1>1, <1>4, <1>6 DEF DraftOK, RowsAgree
<1>9. StageReached(draft')
  BY <1>1, <1>3, <1>4, <1>6 DEF DraftOK, StageReached
<1> QED
  BY <1>7, <1>8, <1>9 DEF DraftOK

\* The statements that touch none of these rows.
LEMMA OtherRowsOK ==
    ASSUME DraftOK(draft), InsertSociety \/ InsertRest PROVE DraftOK(draft')
<1>1. PICK was \in Projects, bills \in SUBSET Plots, collected \in Nat, stage \in Stages :
         draft = [stage |-> stage, collected |-> collected, bills |-> bills,
                  project |-> was]
  BY DEF DraftOK, Drafts
<1>2. PICK reached \in Stages :
         /\ \/ stage = "society" /\ reached = "plots"
            \/ stage = "rest" /\ reached = "commit"
         /\ draft' = [stage |-> reached, collected |-> collected, bills |-> bills,
                      project |-> was]
  <2>1. CASE InsertSociety
    BY <1>1, <2>1 DEF InsertSociety, Stages
  <2>2. CASE InsertRest
    BY <1>1, <2>2 DEF InsertRest, Stages
  <2> QED
    BY <2>1, <2>2
<1>3. draft' \in Drafts
  BY <1>2 DEF Drafts
<1>4. RowsAgree(draft')
  BY <1>1, <1>2 DEF DraftOK, RowsAgree
<1>5. StageReached(draft')
  BY <1>1, <1>2 DEF DraftOK, StageReached
<1> QED
  BY <1>3, <1>4, <1>5 DEF DraftOK

-----------------------------------------------------------------------------
(* What the seed jobs leave in the database *)

\* A process that does anything but begin a seed lets the town alone.
LEMMA NoSeedKeeps ==
    ASSUME TownInv, NEW p \in Processes,
           \A r \in Processes \ {p} : process'[r] = process[r],
           process'[p].op = "seeding" <=> process[p].op = "seeding",
           UNCHANGED <<draft, town>>
    PROVE SeedsAlone' /\ OneTown'
<1>1. \A r \in Processes : process'[r].op = "seeding" <=> process[r].op = "seeding"
  OBVIOUS
<1>2. SeedsAlone /\ OneTown
  BY DEF TownInv
<1>3. OneTown'
  BY <1>2 DEF OneTown
<1>4. SeedsAlone'
  BY <1>1, <1>2 DEF SeedsAlone, Processes
<1> QED
  BY <1>3, <1>4

LEMMA StatementsKeep ==
    ASSUME TownInv, NEW p \in Processes, Seed(p) PROVE SeedsAlone' /\ OneTown'
<1>1. process[p].op = "seeding" /\ UNCHANGED <<process, town>> /\ SeedStatement
  BY DEF Seed, SeedStatement
<1>2. "stage" \in DOMAIN draft /\ SeedsAlone /\ OneTown
  BY <1>1 DEF TownInv, SeedsAlone
<1>3. "stage" \in DOMAIN draft' /\ draft'.stage # "none"
  <2>1. CASE InsertSociety
    BY <1>2, <2>1 DEF InsertSociety
  <2>2. CASE InsertPlots
    BY <1>2, <2>2 DEF InsertPlots
  <2>3. CASE InsertOwner
    BY <1>2, <2>3 DEF InsertOwner
  <2>4. CASE InsertDues
    BY <1>2, <2>4 DEF InsertDues
  <2>5. CASE InsertFund
    BY <1>2, <2>5 DEF InsertFund
  <2>6. CASE InsertRest
    BY <1>2, <2>6 DEF InsertRest
  <2> QED
    BY <1>1, <2>1, <2>2, <2>3, <2>4, <2>5, <2>6 DEF SeedStatement
<1> QED
  BY <1>1, <1>2, <1>3 DEF SeedsAlone, OneTown

\* The first INSERT, the last commit, and TRUNCATE.
LEMMA SeedsKeep ==
    ASSUME TownInv, NEW p \in Seeders,
           BeginSeed(p) \/ CommitSeed(p) \/ Truncate(p)
    PROVE SeedsAlone' /\ OneTown'
<1>p. p \in Processes
  BY DEF Processes
<1>1. process \in [Processes -> {Down} \cup Running] /\ SeedsAlone /\ OneTown
  BY DEF TownInv, MigrationInv
<1>2. ASSUME draft = NoDraft, NEW r \in Processes PROVE process[r].op # "seeding"
  BY <1>1, <1>2 DEF SeedsAlone, NoDraft
<1>3. CASE BeginSeed(p)
  <2>1. draft = NoDraft /\ UNCHANGED town
    BY <1>3 DEF BeginSeed, Unlocked
  <2>2. CASE Exit(p) /\ UNCHANGED draft
    <3>1. process'[p] = Down /\ \A r \in Processes \ {p} : process'[r] = process[r]
      BY <1>1, <1>p, <2>2 DEF Exit
    <3>2. process[p].op # "seeding" /\ process'[p].op # "seeding"
      BY <1>2, <1>p, <2>1, <3>1 DEF Down
    <3> QED
      BY <1>p, <2>1, <2>2, <3>1, <3>2, NoSeedKeeps
  <2>3. CASE town = <<>> /\ Goto(p, "seeding") /\ OpenDraft
    <3>1. \A r \in Processes \ {p} : process'[r].op # "seeding"
      BY <1>1, <1>2, <2>1, <2>3 DEF Goto
    <3>2. "stage" \in DOMAIN draft' /\ draft'.stage # "none"
      BY <2>3 DEF OpenDraft
    <3> QED
      <4>1. process'[p].op = "seeding"
        <5>1. process[p] \in Running
          BY <1>1, <1>3, <1>p DEF BeginSeed, Down
        <5> QED
          BY <1>1, <1>p, <2>3, <5>1 DEF Goto, Running
      <4> QED
        BY <2>1, <2>3, <3>1, <3>2, <4>1 DEF SeedsAlone, OneTown
  <2> QED
    BY <1>3, <2>2, <2>3 DEF BeginSeed
<1>4. CASE CommitSeed(p)
  <2>1. process[p].op = "seeding" /\ Exit(p) /\ CommitDraft
    BY <1>4 DEF CommitSeed
  <2>2. town' = <<draft.project>>
    <3>1. town = <<>> /\ town' = Append(town, draft.project)
      BY <1>1, <1>p, <2>1 DEF SeedsAlone, CommitDraft
    <3>2. ASSUME NEW project PROVE Append(<<>>, project) = <<project>>
      OBVIOUS
    <3> QED
      BY <3>1, <3>2
  <2>3. \A r \in Processes : process'[r].op # "seeding"
    BY <1>1, <1>p, <2>1 DEF Exit, Down, SeedsAlone
  <2>4. draft' = NoDraft
    BY <2>1 DEF CommitDraft
  <2> QED
    BY <2>2, <2>3, <2>4 DEF SeedsAlone, OneTown
<1>5. CASE Truncate(p)
  <2>1. draft = NoDraft /\ town' = <<>> /\ Goto(p, "emptied")
    BY <1>5 DEF Truncate, Unlocked
  <2>2. \A r \in Processes : process'[r].op # "seeding"
    BY <1>1, <1>2, <2>1 DEF Goto, Running, Down
  <2> QED
    BY <1>5, <2>1, <2>2 DEF SeedsAlone, OneTown, Truncate
<1> QED
  BY <1>3, <1>4, <1>5

LEMMA TownStep ==
    ASSUME BootAssumption, TownInv, [Next]_vars PROVE TownInv'
<1>1. MigrationInv'
  BY MigrationStep DEF TownInv
<1>2. process \in [Processes -> {Down} \cup Running] /\ SeedsAlone /\ OneTown
  BY DEF TownInv, MigrationInv
<1>3. ASSUME UNCHANGED <<process, draft, town>> PROVE SeedsAlone' /\ OneTown'
  BY <1>2, <1>3 DEF SeedsAlone, OneTown
<1>4. ASSUME NEW p \in Processes,
             \/ Start(p) \/ Migrating(p) \/ CountSocieties(p)
             \/ Listen(p) \/ Terminate(p) \/ ShutdownReturns(p) \/ Close(p)
      PROVE  SeedsAlone' /\ OneTown'
  <2>1. UNCHANGED <<draft, town>>
    BY <1>4 DEF Start, Migrating, ReadVersions, Apply, Record, Commit, CountSocieties,
                Listen, Terminate, ShutdownReturns, Close, seedVars
  <2>2. PICK new : process' = [process EXCEPT ![p] = new] /\ new.op # "seeding"
    <3> DEFINE Ways == {"recorded", "migrating", "counted", "serving", "draining", "closing"}
    <3>1. \/ Start(p) \/ Exit(p)
          \/ /\ process[p].op # "down"
             /\ \/ ReadVersions(p)
                \/ process' = [process EXCEPT ![p].op = "applied", ![p].at = Due(p)]
                \/ \E op \in Ways : Goto(p, op)
      <4>1. CASE Start(p)
        BY <4>1
      <4>2. CASE Migrating(p)
        BY <4>2 DEF Migrating, ReadVersions, Apply, Record, Commit
      <4>3. CASE CountSocieties(p) \/ Listen(p) \/ Terminate(p) \/ ShutdownReturns(p)
                 \/ Close(p)
        BY <4>3 DEF CountSocieties, Listen, Terminate, ShutdownReturns, Close
      <4> QED
        BY <1>4, <4>1, <4>2, <4>3
    <3>2. CASE Exit(p)
      <4>1. Down.op # "seeding"
        BY DEF Down
      <4> QED
        BY <3>2, <4>1, Zenon DEF Exit
    <3>3. CASE Start(p)
      <4> DEFINE new == [op |-> "connected", seen |-> {}, at |-> 0]
      <4>1. new.op # "seeding" /\ process' = [process EXCEPT ![p] = new]
        BY <3>3 DEF Start
      <4> QED
        BY <4>1, Zenon
    <3>4. CASE process[p].op # "down"
      <4>1. process[p] \in Running
        BY <1>2, <3>4 DEF Down
      <4>2. CASE ReadVersions(p)
        <5>1. [process[p] EXCEPT !.op = "migrating", !.seen = versions].op = "migrating"
          BY <4>1 DEF Running
        <5> QED
          BY <4>2, <5>1 DEF ReadVersions
      <4>3. CASE process' = [process EXCEPT ![p].op = "applied", ![p].at = Due(p)]
        <5>1. ASSUME NEW due
              PROVE  [process[p] EXCEPT !.op = "applied", !.at = due].op = "applied"
          BY <4>1 DEF Running
        <5> QED
          BY <4>3, <5>1
      <4>4. CASE \E op \in Ways : Goto(p, op)
        <5>1. PICK op \in Ways : process' = [process EXCEPT ![p].op = op]
          BY <4>4 DEF Goto
        <5>2. [process[p] EXCEPT !.op = op].op # "seeding"
          BY <4>1, <5>1 DEF Running
        <5> QED
          BY <5>1, <5>2
      <4> QED
        BY <3>1, <3>2, <3>3, <4>2, <4>3, <4>4
    <3> QED
      BY <3>1, <3>2, <3>3, <3>4
  <2>3. process'[p].op # "seeding" /\ \A r \in Processes \ {p} : process'[r] = process[r]
    BY <1>2, <2>2
  <2>4. process[p].op # "seeding"
    BY <1>4 DEF Start, Migrating, ReadVersions, Apply, Record, Commit, CountSocieties,
                Listen, Terminate, ShutdownReturns, Close, Down
  <2> QED
    BY <2>1, <2>3, <2>4, NoSeedKeeps
<1>5. ASSUME NEW p \in Processes, Fail(p) PROVE SeedsAlone' /\ OneTown'
  <2>1. /\ process'[p] = Down /\ \A r \in Processes \ {p} : process'[r] = process[r]
        /\ UNCHANGED town
    BY <1>2, <1>5 DEF Fail, Exit
  <2>2. CASE process[p].op = "seeding"
    <3>1. \A r \in Processes : process'[r].op # "seeding"
      BY <1>2, <2>1, <2>2 DEF SeedsAlone, Down
    <3>2. draft' = NoDraft
      BY <1>5, <2>2 DEF Fail
    <3> QED
      BY <1>2, <2>1, <3>1, <3>2 DEF SeedsAlone, OneTown
  <2>3. CASE process[p].op # "seeding"
    <3>1. UNCHANGED draft
      BY <1>5, <2>3 DEF Fail
    <3>2. process'[p].op # "seeding"
      BY <2>1 DEF Down
    <3> QED
      BY <2>1, <2>3, <3>1, <3>2, NoSeedKeeps
  <2> QED
    BY <2>2, <2>3
<1>6. SeedsAlone' /\ OneTown'
  <2>1. ASSUME NEW p \in Processes, Start(p) \/ Migrating(p) \/ Fail(p)
        PROVE  SeedsAlone' /\ OneTown'
    BY <1>4, <1>5, <2>1
  <2>2. ASSUME NEW p \in Apis, Serving(p) \/ Arrive(p) \/ Terminate(p)
        PROVE  SeedsAlone' /\ OneTown'
    <3>1. CASE Answer(p) \/ Arrive(p)
      BY <1>3, <3>1 DEF Answer, Arrive, seedVars
    <3>2. p \in Processes
      BY DEF Processes
    <3> QED
      BY <1>4, <2>2, <3>1, <3>2 DEF Serving
  <2>3. ASSUME NEW p \in Seeders, Seeding(p) PROVE SeedsAlone' /\ OneTown'
    <3>1. p \in Processes
      BY DEF Processes
    <3> QED
      BY <1>4, <2>3, <3>1, StatementsKeep, SeedsKeep DEF Seeding
  <2>4. CASE UNCHANGED vars
    BY <1>3, <2>4 DEF vars, seedVars
  <2> QED
    BY <2>1, <2>2, <2>3, <2>4 DEF Next
<1> QED
  BY <1>1, <1>6 DEF TownInv

LEMMA TownInit == ASSUME BootAssumption, Init PROVE TownInv
<1>1. MigrationInv
  BY MigrationInit
<1>2. \A p \in Processes : process[p].op # "seeding"
  BY DEF Init, Down
<1>3. town = <<>> /\ draft = NoDraft
  BY DEF Init, SeedInit
<1> QED
  BY <1>1, <1>2, <1>3 DEF TownInv, SeedsAlone, OneTown

LEMMA TownAlways == Spec => []TownInv
<1>1. Init => TownInv
  BY TownInit, BootAssumption
<1>2. TownInv /\ [Next]_vars => TownInv'
  BY TownStep, BootAssumption
<1> QED
  BY <1>1, <1>2, PTL DEF Spec

\* However many seed jobs count no society at the same time, they leave at most
\* one project behind (cmd/seed: the count, TRUNCATE, the builder's slug).
THEOREM OneProject == Spec => []SeededOnce
<1>1. TownInv => SeededOnce
  <2>1. CASE town = <<>>
    BY <2>1 DEF SeededOnce
  <2>2. ASSUME NEW project, town = <<project>> PROVE SeededOnce
    <3>1. Len(<<project>>) = 1
      OBVIOUS
    <3> QED
      BY <2>2, <3>1 DEF SeededOnce
  <2> QED
    BY <2>1, <2>2 DEF TownInv, OneTown
<1> QED
  BY <1>1, TownAlways, PTL

-----------------------------------------------------------------------------
(* The project the seed leaves is whole *)

DraftInv == draft = NoDraft \/ DraftOK(draft)

WholeInv ==
    /\ TownInv /\ DraftInv
    /\ town \in Seq(Projects) /\ ProjectsAreWhole

\* A draft all of whose statements went through is a whole project.
LEMMA CommittedWhole ==
    ASSUME SeedDataAssumption, NEW d, DraftOK(d), d.stage = "commit"
    PROVE  d.project \in Projects /\ Whole(d.project)
<1> DEFINE made == d.project
<1>1. made \in Projects
  BY DEF DraftOK, Drafts
<1>2. /\ made.plots = Plots /\ made.owned = ToSet(OwnerPlots)
      /\ {due.plot : due \in made.dues} = made.sold \ d.bills /\ d.bills = {}
      /\ made.credit = d.collected
  BY DEF DraftOK, StageReached
<1>3. made.owned \subseteq made.sold /\ OnePerPlot(made.dues)
      /\ d.collected = Total(made.dues)
  BY DEF DraftOK, RowsAgree
<1>4. {due.plot : due \in made.dues} = made.sold
  BY <1>2
<1>5. made.dues \in SUBSET Dues
  BY <1>1 DEF Projects
<1> HIDE DEF made
<1>6. Cardinality(made.dues) = Cardinality(made.sold)
  BY <1>3, <1>4, <1>5, DuesCounted
<1>7. Whole(made)
  BY <1>2, <1>3, <1>4, <1>6 DEF Whole
<1> QED
  BY <1>1, <1>7 DEF made

LEMMA StatementsOK ==
    ASSUME SeedDataAssumption, DraftInv, SeedStatement PROVE DraftInv'
<1>1. DraftOK(draft)
  <2>1. draft.stage \in Stages
    BY DEF SeedStatement, InsertSociety, InsertPlots, InsertOwner, InsertDues,
           InsertFund, InsertRest, Stages
  <2>2. NoDraft.stage \notin Stages
    BY DEF NoDraft, Stages
  <2> QED
    BY <2>1, <2>2 DEF DraftInv
<1>2. DraftOK(draft')
  BY <1>1, PlotsOK, OwnerOK, DuesOK, FundOK, OtherRowsOK DEF SeedStatement
<1> QED
  BY <1>2 DEF DraftInv

\* The commit of a seed: what joins the town is a whole project.
LEMMA CommitSeedOK ==
    ASSUME SeedDataAssumption, WholeInv, NEW p \in Seeders, CommitSeed(p)
    PROVE  DraftInv' /\ town' \in Seq(Projects) /\ ProjectsAreWhole'
<1>1. /\ process[p].op = "seeding" /\ draft.stage = "commit"
      /\ town' = Append(town, draft.project) /\ draft' = NoDraft
  BY DEF CommitSeed, CommitDraft
<1>2. DraftOK(draft)
  BY <1>1 DEF WholeInv, DraftInv, NoDraft
<1>3. draft.project \in Projects /\ Whole(draft.project)
  BY <1>1, <1>2, CommittedWhole
<1>4. town = <<>>
  BY <1>1 DEF WholeInv, TownInv, SeedsAlone, Processes
<1>5. PICK made : made = draft.project
  OBVIOUS
<1>6. town' = <<made>>
  BY <1>1, <1>4, <1>5
<1>7. \A project \in ToSet(town') : project = made
  BY <1>6 DEF ToSet
<1>8. ProjectsAreWhole'
  BY <1>3, <1>5, <1>7 DEF ProjectsAreWhole
<1>9. town' \in Seq(Projects)
  BY <1>3, <1>5, <1>6
<1> QED
  BY <1>1, <1>8, <1>9 DEF DraftInv

LEMMA WholeStep ==
    ASSUME SeedDataAssumption, BootAssumption, WholeInv, [Next]_vars PROVE WholeInv'
<1>1. TownInv'
  BY TownStep DEF WholeInv
<1>2. ASSUME UNCHANGED town PROVE town' \in Seq(Projects) /\ ProjectsAreWhole'
  BY <1>2 DEF WholeInv, ProjectsAreWhole
<1>3. ASSUME UNCHANGED <<draft, town>>
      PROVE  DraftInv' /\ town' \in Seq(Projects) /\ ProjectsAreWhole'
  BY <1>2, <1>3 DEF WholeInv, DraftInv
<1>4. ASSUME NEW p \in Processes, Start(p) \/ Migrating(p) \/ Fail(p)
      PROVE  DraftInv' /\ town' \in Seq(Projects) /\ ProjectsAreWhole'
  <2>1. CASE Start(p) \/ Migrating(p)
    BY <1>3, <2>1 DEF Start, Migrating, ReadVersions, Apply, Record, Commit, seedVars
  <2>2. CASE Fail(p)
    <3>1. UNCHANGED town /\ (draft' = NoDraft \/ draft' = draft)
      BY <2>2 DEF Fail
    <3> QED
      BY <1>2, <3>1 DEF WholeInv, DraftInv
  <2> QED
    BY <1>4, <2>1, <2>2
<1>5. ASSUME NEW p \in Apis, Serving(p) \/ Arrive(p) \/ Terminate(p)
      PROVE  DraftInv' /\ town' \in Seq(Projects) /\ ProjectsAreWhole'
  BY <1>3, <1>5 DEF Serving, Listen, Answer, ShutdownReturns, Close, Arrive, Terminate,
                    seedVars
<1>6. ASSUME NEW p \in Seeders, Seeding(p)
      PROVE  DraftInv' /\ town' \in Seq(Projects) /\ ProjectsAreWhole'
  <2>1. CASE CountSocieties(p)
    BY <1>3, <2>1 DEF CountSocieties, seedVars
  <2>2. CASE Truncate(p)
    <3>1. town' = <<>> /\ UNCHANGED draft
      BY <2>2 DEF Truncate
    <3>2. ToSet(<<>>) = {} /\ <<>> \in Seq(Projects)
      BY DEF ToSet
    <3> QED
      BY <3>1, <3>2 DEF WholeInv, DraftInv, ProjectsAreWhole
  <2>3. CASE BeginSeed(p)
    <3>1. UNCHANGED town /\ (UNCHANGED draft \/ OpenDraft)
      BY <2>3 DEF BeginSeed
    <3>2. DraftInv'
      BY <3>1, OpenedOK DEF WholeInv, DraftInv
    <3> QED
      BY <1>2, <3>1, <3>2
  <2>4. CASE Seed(p)
    <3>1. SeedStatement /\ UNCHANGED town
      BY <2>4 DEF Seed, SeedStatement
    <3>2. DraftInv'
      BY <3>1, StatementsOK DEF WholeInv
    <3> QED
      BY <1>2, <3>1, <3>2
  <2> QED
    BY <1>6, <2>1, <2>2, <2>3, <2>4, CommitSeedOK DEF Seeding
<1>7. ASSUME UNCHANGED vars
      PROVE  DraftInv' /\ town' \in Seq(Projects) /\ ProjectsAreWhole'
  BY <1>3, <1>7 DEF vars, seedVars
<1>8. DraftInv' /\ town' \in Seq(Projects) /\ ProjectsAreWhole'
  BY <1>4, <1>5, <1>6, <1>7 DEF Next
<1> QED
  BY <1>1, <1>8 DEF WholeInv

LEMMA WholeAlways == Spec => []WholeInv
<1>1. Init => WholeInv
  <2> SUFFICES ASSUME Init PROVE WholeInv
    OBVIOUS
  <2>1. TownInv
    BY TownInit, BootAssumption
  <2>2. draft = NoDraft /\ town = <<>>
    BY DEF Init, SeedInit
  <2>3. ToSet(<<>>) = {} /\ <<>> \in Seq(Projects)
    BY DEF ToSet
  <2> QED
    BY <2>1, <2>2, <2>3 DEF WholeInv, DraftInv, ProjectsAreWhole
<1>2. WholeInv /\ [Next]_vars => WholeInv'
  BY WholeStep, SeedDataAssumption, BootAssumption
<1> QED
  BY <1>1, <1>2, PTL DEF Spec

\* However large the layout and the batches, whichever plots are drawn as sold,
\* and wherever a job stops: the project a seed commits has every plot, one bill
\* for each sold plot, its owners' plots among them, and a fund credit that is
\* what its bills say was paid (seed).
THEOREM SeedLeavesWhole == Spec => []ProjectsAreWhole
<1>1. WholeInv => ProjectsAreWhole
  BY DEF WholeInv
<1> QED
  BY <1>1, WholeAlways, PTL

-----------------------------------------------------------------------------
(* The types *)

\* The counters stay within their bounds.
CountersOK == requests \in [Apis -> 0..MaxRequests] /\ faults \in 0..MaxFaults

LEMMA CountersStep ==
    ASSUME BootAssumption, CountersOK, [Next]_vars PROVE CountersOK'
<1>1. MaxRequests \in Nat /\ MaxFaults \in Nat
  BY DEF BootAssumption
<1>2. ASSUME UNCHANGED <<requests, faults>> PROVE CountersOK'
  BY <1>2 DEF CountersOK
<1>3. ASSUME NEW p \in Processes, Start(p) \/ Migrating(p) \/ Fail(p) PROVE CountersOK'
  <2>1. CASE Start(p) \/ Migrating(p)
    BY <1>2, <2>1 DEF Start, Migrating, ReadVersions, Apply, Record, Commit
  <2>2. CASE Fail(p)
    BY <1>1, <2>2 DEF Fail, CountersOK
  <2> QED
    BY <1>3, <2>1, <2>2
<1>4. ASSUME NEW p \in Apis, Serving(p) \/ Arrive(p) \/ Terminate(p) PROVE CountersOK'
  <2>1. CASE Answer(p)
    BY <1>1, <2>1 DEF Answer, CountersOK
  <2>2. CASE Arrive(p)
    BY <1>1, <2>2 DEF Arrive, CountersOK
  <2>3. CASE Listen(p) \/ ShutdownReturns(p) \/ Close(p) \/ Terminate(p)
    BY <1>2, <2>3 DEF Listen, ShutdownReturns, Close, Terminate
  <2> QED
    BY <1>4, <2>1, <2>2, <2>3 DEF Serving
<1>5. ASSUME NEW p \in Seeders, Seeding(p) PROVE CountersOK'
  BY <1>2, <1>5 DEF Seeding, CountSocieties, Truncate, BeginSeed, Seed, CommitSeed
<1>6. CASE UNCHANGED vars
  BY <1>2, <1>6 DEF vars
<1> QED
  BY <1>3, <1>4, <1>5, <1>6 DEF Next

\* Every variable stays in its type, and there is a draft exactly while a seed
\* job writes one: none outlives the job that failed (run, migrateFrom, seed).
THEOREM BootTypes == Spec => []TypeOK
<1>1. Init => CountersOK
  BY BootAssumption DEF Init, CountersOK, BootAssumption
<1>2. CountersOK /\ [Next]_vars => CountersOK'
  BY CountersStep, BootAssumption
<1>3. WholeInv /\ CountersOK => TypeOK
  <2> SUFFICES ASSUME WholeInv, CountersOK PROVE TypeOK
    OBVIOUS
  <2>1. schema \subseteq 1..Migrations /\ versions = schema
    BY BootAssumption DEF BootAssumption, WholeInv, TownInv, MigrationInv, InOrder
  <2>2. process \in [Processes -> {Down} \cup Running]
    BY DEF WholeInv, TownInv, MigrationInv
  <2>3. SeedTypeOK
    BY DEF WholeInv, DraftInv, DraftOK, SeedTypeOK
  <2>4. draft # NoDraft <=> \E p \in Seeders : process[p].op = "seeding"
    <3>1. ASSUME NEW p \in Seeders, process[p].op = "seeding" PROVE draft # NoDraft
      BY <3>1 DEF WholeInv, TownInv, SeedsAlone, NoDraft, Processes
    <3>2. draft # NoDraft => \E p \in Seeders : process[p].op = "seeding"
      BY DEF WholeInv, TownInv, SeedsAlone
    <3> QED
      BY <3>1, <3>2
  <2> QED
    BY <2>1, <2>2, <2>3, <2>4 DEF TypeOK, CountersOK
<1> QED
  BY <1>1, <1>2, <1>3, WholeAlways, PTL DEF Spec

-----------------------------------------------------------------------------
(* The refinement of DatabasePromise *)

filled == town # <<>>

\* A step that leaves the schema and the project alone maps to a stutter.
LEMMA Stutters ==
    ASSUME UNCHANGED <<schema, versions, town>>
    PROVE  UNCHANGED <<schema, versions, filled>>
BY DEF filled

LEMMA CommitMigrates ==
    ASSUME BootAssumption, TownInv, NEW p \in Processes, Commit(p)
    PROVE  Promise!Migrate
<1>1. MigrationInv'
  BY CommitKeeps DEF TownInv
<1>2. \E next \in schema' : schema = 1..(next - 1) /\ schema' = 1..next
  BY CommitKeeps DEF TownInv
<1>3. versions = schema /\ versions' = schema'
  BY <1>1 DEF TownInv, MigrationInv, InOrder
<1>4. UNCHANGED town
  BY DEF Commit, seedVars
<1> QED
  BY <1>2, <1>3, <1>4 DEF Promise!Migrate

LEMMA SeedFills ==
    ASSUME TownInv, NEW p \in Processes, CommitSeed(p)
    PROVE  Promise!Fill
<1>1. town = <<>> /\ town' = Append(town, draft.project) /\ UNCHANGED <<schema, versions>>
  BY DEF TownInv, SeedsAlone, CommitSeed, CommitDraft
<1>2. \A project : Append(<<>>, project) # <<>>
  OBVIOUS
<1>3. ~(town # <<>>) /\ town' # <<>>
  BY <1>1, <1>2
<1> QED
  BY <1>1, <1>3 DEF Promise!Fill

LEMMA TruncateEmpties ==
    ASSUME NEW p \in Processes, Truncate(p)
    PROVE  Promise!Empty \/ UNCHANGED <<schema, versions, filled>>
<1>1. town' = <<>> /\ UNCHANGED <<schema, versions>>
  BY DEF Truncate
<1>2. CASE town = <<>>
  BY <1>1, <1>2, Stutters
<1>3. CASE town # <<>>
  BY <1>1, <1>3 DEF Promise!Empty
<1> QED
  BY <1>2, <1>3

LEMMA PromiseStep ==
    ASSUME BootAssumption, TownInv, [Next]_vars
    PROVE  Promise!Next \/ UNCHANGED <<schema, versions, filled>>
<1>1. ASSUME NEW p \in Processes, Commit(p) \/ CommitSeed(p) \/ Truncate(p)
      PROVE  Promise!Next \/ UNCHANGED <<schema, versions, filled>>
  BY <1>1, CommitMigrates, SeedFills, TruncateEmpties DEF Promise!Next
<1>2. ASSUME NEW p \in Processes,
             Start(p) \/ ReadVersions(p) \/ Apply(p) \/ Record(p) \/ Fail(p)
      PROVE  UNCHANGED <<schema, versions, town>>
  BY <1>2 DEF Start, ReadVersions, Apply, Record, Fail, seedVars
<1>3. ASSUME NEW p \in Apis, Serving(p) \/ Arrive(p) \/ Terminate(p)
      PROVE  UNCHANGED <<schema, versions, town>>
  BY <1>3 DEF Serving, Listen, Answer, ShutdownReturns, Close, Arrive, Terminate, seedVars
<1>4. ASSUME NEW p \in Seeders, CountSocieties(p) \/ BeginSeed(p) \/ Seed(p)
      PROVE  UNCHANGED <<schema, versions, town>>
  BY <1>4 DEF CountSocieties, BeginSeed, Seed, SeedStatement, seedVars
<1>5. CASE UNCHANGED vars
  BY <1>5, Stutters DEF vars, seedVars
<1>6. CASE \E p \in Processes : Start(p) \/ Migrating(p) \/ Fail(p)
  BY <1>1, <1>2, <1>6, Stutters DEF Migrating
<1>7. CASE \E p \in Apis : Serving(p) \/ Arrive(p) \/ Terminate(p)
  BY <1>3, <1>7, Stutters
<1>8. CASE \E p \in Seeders : Seeding(p)
  BY <1>1, <1>4, <1>8, Stutters DEF Seeding, Processes
<1> QED
  BY <1>5, <1>6, <1>7, <1>8 DEF Next

\* Boots, crashes and seed runs implement DatabasePromise: the schema grows by
\* the next migration as it is recorded, and a project comes as a whole into a
\* database that has none (migrateFrom, cmd/seed).
THEOREM BootKeepsPromise == Spec => KeepsPromise
<1>1. Init => Promise!Init
  BY DEF Init, SeedInit, Promise!Init
<1>2. TownInv /\ [Next]_vars => [Promise!Next]_<<schema, versions, town # <<>>>>
  BY PromiseStep, BootAssumption DEF filled
<1> QED
  BY <1>1, <1>2, TownAlways, PTL DEF Spec, KeepsPromise, Promise!Spec

=============================================================================
