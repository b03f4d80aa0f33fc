-------------------------------- MODULE Projects --------------------------------
(***************************************************************************)
(* The societies, the office that may act for them, and a clock: what the  *)
(* services of the public side have in common.                             *)
(***************************************************************************)
EXTENDS Integers, FiniteSetsExt, Access

CONSTANTS Societies,   \* numbers, in the order of societies.created_at
          BuilderOf,   \* societies.builder_id
          Staff,       \* identities of the office
          Guests,      \* browsers, which the limiter knows by their fingerprint
          MaxTime      \* bounds the clock

ASSUME ProjectsAssumption ==
    /\ Societies \subseteq Nat
    /\ BuilderOf \in [Societies -> Builders]
    /\ Staff \subseteq {i \in Identities : IsStaff(i.role)}
    /\ MaxTime \in Nat

VARIABLE now

Times == 0..MaxTime

Lesser(m, n) == IF m < n THEN m ELSE n
=============================================================================
