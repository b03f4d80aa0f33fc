-------------------------------- MODULE Access --------------------------------
(***************************************************************************)
(* Who may touch what.  Every handler that takes a record's id passes      *)
(* through internal/access before it writes; the roles and the predicates  *)
(* over them come from internal/domain, the caller's identity from the     *)
(* access token (internal/auth/context.go).                                *)
(***************************************************************************)

CONSTANTS Users,      \* people with an account
          Builders,   \* tenants
          NoBuilder   \* an identity, or a record, without a builder

ASSUME NoBuilderAssumption == NoBuilder \notin Builders

-----------------------------------------------------------------------------

Roles == {"super_admin", "builder_admin", "builder_staff", "owner"}

IsStaff(role) == role \in {"super_admin", "builder_admin", "builder_staff"}

CanManageSociety(role) ==
    role \in {"super_admin", "builder_admin", "builder_staff"}

CanManageBuilder(role) == role \in {"super_admin", "builder_admin"}

(***************************************************************************)
(* What a request carries once its access token is verified.  The token's  *)
(* claims are trusted as they stand: nothing is read from the database.    *)
(***************************************************************************)
Identities ==
    [user: Users, role: Roles, builder: Builders \cup {NoBuilder}]

AllowAll(role) == role = "super_admin"

(***************************************************************************)
(* Guard.check.  owner is the builder of the record's society, NoBuilder   *)
(* when no such record exists: then the caller is denied whatever its role *)
(* is.  An identity without a builder matches no record.                   *)
(***************************************************************************)
Permits(caller, owner) ==
    /\ owner \in Builders
    /\ AllowAll(caller.role) \/ caller.builder = owner

=============================================================================
