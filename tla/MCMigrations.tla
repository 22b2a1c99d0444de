--------------------------- MODULE MCMigrations ---------------------------
(* The files of infra/migrations and infra/timescaledb. *)
EXTENDS Migrations, TLC

Files4 ==
  (0 :> <<"samples", "hypertable", "indexes">>) @@
  (1 :> <<"types", "users", "core", "invoices">>) @@
  (2 :> <<"orgs">>) @@ (3 :> <<"finance">>) @@ (4 :> <<"permissions">>)

References ==
  (0 :> {}) @@ (1 :> {}) @@ (2 :> {"types", "users", "core", "invoices"}) @@
  (3 :> {"orgs"}) @@ (4 :> {"orgs", "finance"})

Tables == (0 :> "samples") @@ (1 :> "users")
============================================================================
