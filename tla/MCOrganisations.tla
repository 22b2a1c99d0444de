-------------------------- MODULE MCOrganisations --------------------------
(* A member of the staff and a customer, and two of the four roles: one    *)
(* that manages an organisation and one that does not.                     *)
EXTENDS Organisations, TLC

CONSTANTS staff, customer, o1, c1, c2

MCCeiling ==
  "org_admin" :> {"members:invite", "roles:configure"} @@ "driver" :> {}

Interchangeable == Permutations(Calls)
=============================================================================
