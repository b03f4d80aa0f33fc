------------------------------ MODULE MCOwnership ------------------------------
(***************************************************************************)
(* Small instances of invitations and the plot register: an admin and a    *)
(* clerk of one builder, and the operator, who has none.                   *)
(***************************************************************************)
EXTENDS Ownership, TLC

CONSTANTS alpha, beta, nobody, sa, sb, p1, p2, v, w, x, y, z, none, i1, i2, i3,
          ann, carl, root, n1, n2, q1, q2, q3

MCBuilderOf == (sa :> alpha) @@ (sb :> beta)

FirstAccount(u) ==
    CASE u = ann  -> [email |-> z, role |-> "builder_admin", builder |-> alpha,
                      via |-> none]
      [] u = carl -> [email |-> x, role |-> "builder_staff", builder |-> beta,
                      via |-> none]
      [] u = root -> [email |-> v, role |-> "super_admin", builder |-> nobody,
                      via |-> none]
      [] OTHER    -> NoAccount

MCFirst == [u \in Users |-> FirstAccount(u)]

Interchangeable == Permutations(Invites) \cup Permutations(Requests)
                   \cup Permutations({n1, n2}) \cup Permutations({w, y})
=============================================================================
