---------------------------- MODULE MCMigrations ----------------------------
(***************************************************************************)
(* Instance of Migrations for TLC: of the scripts, one that records itself *)
(* (001), one that alters a table (009) and one that can be repeated (010).*)
(***************************************************************************)
EXTENDS Migrations

CONSTANTS p1, p2, admin

TwoProcesses == {p1, p2}
OneName == {admin}

Create(object) == [do |-> "create", object |-> object]
Alter(object) == [do |-> "alter", object |-> object]

ThreeScripts == <<
    <<Create("audit_logs"), Create("users"), [do |-> "record", object |-> "001"]>>,
    <<Alter("actor_role"), Alter("result"), Create("idx_audit_logs")>>,
    <<Create("audit_logs_no_update")>> >>
=============================================================================
