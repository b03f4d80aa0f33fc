----------------------------- MODULE MCPublicSide -----------------------------
(***************************************************************************)
(* A small instance of the public side: one builder's office and a member  *)
(* of another's, guests, and one project or two, all the first builder's.  *)
(***************************************************************************)
EXTENDS PublicSide, TLC

CONSTANTS alpha, beta, nobody, g1, g2

MCBuilderOf == [s \in Societies |-> alpha]

Ann == [user |-> "ann", role |-> "builder_staff", builder |-> alpha]
Bob == [user |-> "bob", role |-> "builder_staff", builder |-> beta]

MCStaff    == {Ann, Bob}
MCUsers    == {"ann", "bob"}

\* The enquiries alone.
EnquiriesOnly ==
    Init /\ [][Tick \/ (LeadsNext /\ UNCHANGED <<updateVars, now>>)]_vars

(***************************************************************************)
(* Bound: the office's page of enquiries and a reader's feed are not both  *)
(* loaded in one behaviour.  Neither service reads what the other has      *)
(* written, so what the one has answered makes no difference to the other. *)
(***************************************************************************)
OnePageAtATime == board = NoBoard \/ \A g \in Guests : feed[g] = NoFeed

Interchangeable == Permutations(Guests)
=============================================================================
