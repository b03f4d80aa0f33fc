---------------------------- MODULE DatabasePromise ----------------------------
(***************************************************************************)
(* What boots and seed runs promise about the one database they share:     *)
(* the schema grows by exactly the next migration, recorded as it is       *)
(* applied, whoever applies it; and the database holds the demonstration   *)
(* project as a whole or not at all, written only where there was none.    *)
(***************************************************************************)
EXTENDS Integers

VARIABLES schema,    \* migrations whose objects are there
          versions,  \* migrations recorded as applied
          filled     \* whether it holds a project

Init ==
    /\ schema = {}
    /\ versions = {}
    /\ filled = FALSE

Migrate ==
    /\ \E next \in schema' : schema = 1..(next - 1) /\ schema' = 1..next
    /\ versions = schema /\ versions' = schema'
    /\ UNCHANGED filled

Fill ==
    /\ ~filled
    /\ filled' = TRUE
    /\ UNCHANGED <<schema, versions>>

\* -force.
Empty ==
    /\ filled
    /\ filled' = FALSE
    /\ UNCHANGED <<schema, versions>>

Next == Migrate \/ Fill \/ Empty

Spec == Init /\ [][Next]_<<schema, versions, filled>>
=============================================================================
