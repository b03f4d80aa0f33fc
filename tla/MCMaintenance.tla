----------------------------- MODULE MCMaintenance -----------------------------
(***************************************************************************)
(* A small instance of the maintenance charge: two plots of one sector.    *)
(***************************************************************************)
EXTENDS Maintenance, TLC

CONSTANTS north, nowhere, p1, p2, r1, r2

MCSectorOfTwo == (p1 :> north) @@ (p2 :> north)

Interchangeable == Permutations(Runs)
=============================================================================
