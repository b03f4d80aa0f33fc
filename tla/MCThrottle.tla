------------------------------ MODULE MCThrottle ------------------------------
(***************************************************************************)
(* Small instances of the limiter.                                         *)
(***************************************************************************)
EXTENDS Throttle, TLC

Interchangeable == Permutations(Clients) \cup Permutations(Emails)
                   \cup Permutations(Callers)
=============================================================================
