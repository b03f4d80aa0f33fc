----------------------------- MODULE MCFundLedger -----------------------------
(***************************************************************************)
(* Small instances of the fund ledger.  Two builders with one society      *)
(* each; on each side one member of staff; and two people invited to plots *)
(* of the first society.                                                   *)
(***************************************************************************)
EXTENDS FundLedger, TLC

CONSTANTS alpha, beta, nobody, sa, sb, e1, e2, e3, q1, q2, q3

MCBuilders  == {alpha, beta}
MCUsers     == {"ann", "bob", "owner", "heir"}
MCBuilderOf == (sa :> alpha) @@ (sb :> beta)
MCOwners    == {<<"owner", sa>>, <<"heir", sa>>}

AlphaAdmin == [user |-> "ann", role |-> "builder_admin", builder |-> alpha]
BetaStaff  == [user |-> "bob", role |-> "builder_staff", builder |-> beta]
Owner      == [user |-> "owner", role |-> "owner", builder |-> nobody]

Tenants     == {AlphaAdmin, BetaStaff, Owner}
OfficeOnly  == {AlphaAdmin}

\* 4 tenths of a paisa round to nothing, 5 to one paisa.
SmallAmounts  == {-5, 0, 4, 5}
PlainAmounts  == {0, 10, 20}

Interchangeable == Permutations(EntryIds) \cup Permutations(Requests)
=============================================================================
