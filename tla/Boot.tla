---------------------------------- MODULE Boot ----------------------------------
(***************************************************************************)
(* How processes come up over one database and go down: cmd/api with its   *)
(* migrations on every boot (internal/database) and its graceful shutdown, *)
(* and cmd/seed, which migrates too and then fills the database.           *)
(*                                                                         *)
(* Every SQL statement is a step.  A migration runs in a transaction: its  *)
(* body takes locks on which a rival's waits, and fails where the objects  *)
(* it creates are there by then.  A process that fails exits; the platform *)
(* starts an api process again, the operator may run a seed job again.     *)
(***************************************************************************)
EXTENDS SeedData

CONSTANTS Apis,         \* instances of the service
          Seeders,      \* seed jobs, by number
          Forced,       \* those with -force
          Migrations,   \* how many migrations there are
          Build,        \* how many of them each process's image embeds
          MaxRequests,  \* bounds the requests in flight
          MaxFaults     \* bounds crashes, failures and stops on the way up

Processes == Apis \cup Seeders

ASSUME BootAssumption ==
    /\ Seeders \subseteq Nat /\ Forced \subseteq Seeders /\ Apis \cap Seeders = {}
    /\ Migrations \in Nat \ {0}
    /\ Build \in [Processes -> 1..Migrations]
    /\ MaxRequests \in Nat /\ MaxFaults \in Nat

VARIABLES schema,     \* migrations whose objects are in the database
          versions,   \* the rows of schema_migrations
          process,    \* where each process stands
          requests,   \* per instance, the requests that hold a connection
          faults

vars == <<schema, versions, process, requests, faults, seedVars>>

Down == [op |-> "down"]

\* seen: the versions read at boot; at: the last migration looked at.
Running == [op: {"connected", "migrating", "applied", "recorded", "serving", "draining", "closing",
                 "counted", "emptied", "seeding"},
            seen: SUBSET (1..Migrations), at: 0..Migrations]

-----------------------------------------------------------------------------

Goto(p, op) == process' = [process EXCEPT ![p].op = op]

Exit(p) == process' = [process EXCEPT ![p] = Down]

\* The migrations still to be applied, as process p sees it.
Pending(p) == {m \in (process[p].at + 1)..Build[p] : m \notin process[p].seen}

\* The migration p applies now or next.
Due(p) == IF process[p].op = "migrating" THEN Min(Pending(p)) ELSE process[p].at

MigratingApart(p) == \E r \in Processes \ {p} : process[r].op \in {"applied", "recorded"}

\* Nobody else has a transaction open on whose locks DDL would wait.
Unlocked(p) == ~MigratingApart(p) /\ draft = NoDraft

Init ==
    /\ schema = {} /\ versions = {}
    /\ process = [p \in Processes |-> Down]
    /\ requests = [p \in Apis |-> 0]
    /\ faults = 0
    /\ SeedInit

\* Connect and CREATE TABLE IF NOT EXISTS schema_migrations.
Start(p) ==
    /\ process[p] = Down
    /\ process' = [process EXCEPT ![p] = [op |-> "connected", seen |-> {}, at |-> 0]]
    /\ UNCHANGED <<schema, versions, requests, faults, seedVars>>

ReadVersions(p) ==
    /\ process[p].op = "connected"
    /\ process' = [process EXCEPT ![p].op = "migrating", ![p].seen = versions]
    /\ UNCHANGED <<schema, versions, requests, faults, seedVars>>

\* Mutant of Apply: the body is not part of the transaction.
ApplyAtOnce(p) ==
    /\ process[p].op = "migrating" /\ Pending(p) # {}
    /\ Unlocked(p)
    /\ IF Due(p) \in schema
       THEN Exit(p) /\ UNCHANGED schema
       ELSE /\ process' = [process EXCEPT ![p].op = "applied", ![p].at = Due(p)]
            /\ schema' = schema \cup {Due(p)}
    /\ UNCHANGED <<versions, requests, faults, seedVars>>

\* BEGIN and the body of the next migration.
Apply(p) ==
    /\ process[p].op = "migrating" /\ Pending(p) # {}
    /\ Unlocked(p)
    /\ IF Due(p) \in schema
       THEN Exit(p)
       ELSE process' = [process EXCEPT ![p].op = "applied", ![p].at = Due(p)]
    /\ UNCHANGED <<schema, versions, requests, faults, seedVars>>

\* INSERT INTO schema_migrations.
Record(p) ==
    /\ process[p].op = "applied"
    /\ IF process[p].at \in versions THEN Exit(p) ELSE Goto(p, "recorded")
    /\ UNCHANGED <<schema, versions, requests, faults, seedVars>>

Commit(p) ==
    /\ process[p].op = "recorded"
    /\ schema' = schema \cup {process[p].at}
    /\ versions' = versions \cup {process[p].at}
    /\ Goto(p, "migrating")
    /\ UNCHANGED <<requests, faults, seedVars>>

-----------------------------------------------------------------------------
(* cmd/api *)

\* Mutant of Listen: the instance listens while it migrates.
ListenEarly(p) ==
    /\ process[p].op = "migrating"
    /\ Goto(p, "serving")
    /\ UNCHANGED <<schema, versions, requests, faults, seedVars>>

Listen(p) ==
    /\ process[p].op = "migrating" /\ Pending(p) = {}
    /\ Goto(p, "serving")
    /\ UNCHANGED <<schema, versions, requests, faults, seedVars>>

\* Mutant of Arrive: the listener is still open during shutdown.
ArriveStill(p) ==
    /\ process[p].op \in {"serving", "draining", "closing"}
    /\ requests[p] < MaxRequests
    /\ requests' = [requests EXCEPT ![p] = @ + 1]
    /\ UNCHANGED <<schema, versions, process, faults, seedVars>>

Arrive(p) ==
    /\ process[p].op = "serving"
    /\ requests[p] < MaxRequests
    /\ requests' = [requests EXCEPT ![p] = @ + 1]
    /\ UNCHANGED <<schema, versions, process, faults, seedVars>>

Answer(p) ==
    /\ requests[p] > 0
    /\ requests' = [requests EXCEPT ![p] = @ - 1]
    /\ UNCHANGED <<schema, versions, process, faults, seedVars>>

\* SIGTERM to an instance that serves: server.Shutdown.
Terminate(p) ==
    /\ process[p].op = "serving"
    /\ Goto(p, "draining")
    /\ UNCHANGED <<schema, versions, requests, faults, seedVars>>

\* Shutdown returns when no request is left, or after 15 seconds; the deferred
\* Close of the pool waits for the connections still held.
ShutdownReturns(p) ==
    /\ process[p].op = "draining"
    /\ Goto(p, "closing")
    /\ UNCHANGED <<schema, versions, requests, faults, seedVars>>

Close(p) ==
    /\ process[p].op = "closing" /\ requests[p] = 0
    /\ Exit(p)
    /\ UNCHANGED <<schema, versions, requests, faults, seedVars>>

-----------------------------------------------------------------------------
(* cmd/seed *)

\* SELECT count(*) FROM societies, and the refusal.
CountSocieties(p) ==
    /\ process[p].op = "migrating" /\ Pending(p) = {}
    /\ ~MigratingApart(p)
    /\ IF town # <<>> /\ p \notin Forced THEN Exit(p) ELSE Goto(p, "counted")
    /\ UNCHANGED <<schema, versions, requests, faults, seedVars>>

\* TRUNCATE builders CASCADE, a transaction of its own.
Truncate(p) ==
    /\ process[p].op = "counted" /\ p \in Forced
    /\ Unlocked(p)
    /\ town' = <<>>
    /\ Goto(p, "emptied")
    /\ UNCHANGED <<schema, versions, requests, faults, draft>>

\* Mutant of BeginSeed: slugs are not unique.
BeginSeedAnyway(p) ==
    /\ process[p].op = IF p \in Forced THEN "emptied" ELSE "counted"
    /\ Unlocked(p)
    /\ Goto(p, "seeding") /\ OpenDraft
    /\ UNCHANGED <<schema, versions, requests, faults, town>>

\* seed's first INSERT waits for a rival's and fails where the slug is taken.
BeginSeed(p) ==
    /\ process[p].op = IF p \in Forced THEN "emptied" ELSE "counted"
    /\ Unlocked(p)
    /\ IF town # <<>> THEN Exit(p) /\ UNCHANGED draft ELSE Goto(p, "seeding") /\ OpenDraft
    /\ UNCHANGED <<schema, versions, requests, faults, town>>

Seed(p) ==
    /\ process[p].op = "seeding"
    /\ SeedStatement
    /\ UNCHANGED <<schema, versions, process, requests, faults>>

CommitSeed(p) ==
    /\ process[p].op = "seeding"
    /\ CommitDraft
    /\ Exit(p)
    /\ UNCHANGED <<schema, versions, requests, faults>>

-----------------------------------------------------------------------------

\* A statement fails, the listener does, SIGTERM cancels the migration, the
\* process is killed: what was not committed is rolled back.
Fail(p) ==
    /\ process[p] # Down
    /\ faults < MaxFaults
    /\ faults' = faults + 1
    /\ Exit(p)
    /\ requests' = [a \in Apis |-> IF a = p THEN 0 ELSE requests[a]]
    /\ draft' = IF process[p].op = "seeding" THEN NoDraft ELSE draft
    /\ UNCHANGED <<schema, versions, town>>

Migrating(p) == ReadVersions(p) \/ Apply(p) \/ Record(p) \/ Commit(p)

Serving(p) == Listen(p) \/ Answer(p) \/ ShutdownReturns(p) \/ Close(p)

Seeding(p) ==
    \/ CountSocieties(p) \/ Truncate(p) \/ BeginSeed(p)
    \/ Seed(p) \/ CommitSeed(p)

Next ==
    \/ \E p \in Processes : Start(p) \/ Migrating(p) \/ Fail(p)
    \/ \E p \in Apis : Serving(p) \/ Arrive(p) \/ Terminate(p)
    \/ \E p \in Seeders : Seeding(p)

Spec == Init /\ [][Next]_vars

\* The platform starts instances and the code goes on by itself; nobody has to
\* start a seed job.  Locks are granted in the order they were asked for.
FairSpec ==
    /\ Spec
    /\ \A p \in Processes : WF_vars(Migrating(p)) /\ SF_vars(Apply(p))
    /\ \A p \in Apis : WF_vars(Start(p)) /\ WF_vars(Listen(p)) /\ WF_vars(Answer(p))
                        /\ WF_vars(ShutdownReturns(p) \/ Close(p))
    /\ \A p \in Seeders : WF_vars(Seeding(p))

-----------------------------------------------------------------------------
(* Properties *)

\* Every variable stays in its type; only a seed in progress has a draft.
TypeOK ==
    /\ schema \subseteq 1..Migrations /\ versions \subseteq 1..Migrations
    /\ process \in [Processes -> {Down} \cup Running]
    /\ requests \in [Apis -> 0..MaxRequests]
    /\ faults \in 0..MaxFaults
    /\ SeedTypeOK
    /\ draft # NoDraft <=> \E p \in Seeders : process[p].op = "seeding"

\* "Migrations run on every boot and a half-applied one would leave the schema
\* in a state nothing else in the app expects": boots, crashes and seed runs
\* keep what DatabasePromise promises.
Promise == INSTANCE DatabasePromise WITH filled <- town # <<>>

KeepsPromise == Promise!Spec

\* An instance serves only over the schema its build expects, though others
\* apply the migrations it read as missing.
ServesMigrated ==
    \A p \in Apis :
        process[p].op \in {"serving", "draining", "closing"} => 1..Build[p] \subseteq schema

\* "Safe to re-run": however many jobs count no society at the same time, the
\* database holds one project.
SeededOnce == Len(town) <= 1

\* An instance that is down serves again, whoever else migrates.
ComesUp == \A p \in Apis : process[p] = Down ~> process[p].op = "serving"

\* A shutdown ends.
GoesDown == \A p \in Apis : process[p].op = "draining" ~> process[p] = Down

\* A forced run that empties the database leaves a project in it.
ReseedKeeps ==
    [][\A p \in Forced :
          process[p].op \in {"emptied", "seeding"} /\ process'[p] = Down => town' # <<>>]_vars
=============================================================================
