----------------------------- MODULE MCQueryThread -----------------------------
(***************************************************************************)
(* A small instance of the ticket system: one society, an owner in it, a   *)
(* member of its builder's staff, and one of another builder's.            *)
(***************************************************************************)
EXTENDS QueryThread, TLC

CONSTANTS alpha, beta, nobody, sa, c1, c2

MCBuilderOf == sa :> alpha

Owner     == [user |-> "owner", role |-> "owner", builder |-> nobody]
Staff     == [user |-> "ann", role |-> "builder_staff", builder |-> alpha]
Outsider  == [user |-> "bob", role |-> "builder_staff", builder |-> beta]

MCCallers == {Owner, Staff, Outsider}
MCUsers   == {"owner", "ann", "bob"}
MCBuilders == {alpha, beta}

Interchangeable == Permutations(Calls)
=============================================================================
