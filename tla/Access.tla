------------------------------- MODULE Access -------------------------------
(***************************************************************************)
(* The role policy of internal/auth: which permissions a workshop role     *)
(* carries.  Pure operators; nothing here changes.  Only the permissions   *)
(* that some modelled operation asks for are named.                        *)
(***************************************************************************)

Assignable == {"ADMIN", "EMPLOYEE", "VIEWER"}
MemberRole == Assignable \cup {"OWNER"}

\* What every member may see.
ReadSet == {"workshop.read", "inventory.read", "products.read", "bom.read",
            "tasks.read", "marketplace.read"}

\* What whoever executes a task needs on top of that.
ExecuteSet == {"tasks.execute", "inventory.write", "production.create"}

\* What distinguishes the two managing roles from an employee.
ManageSet == {"workshop.settings.manage", "members.manage", "members.invite",
              "bom.write",
              "products.write", "tasks.create", "tasks.assign", "tasks.manage"}

Permissions(role) ==
  CASE role = "OWNER"    -> ReadSet \cup ExecuteSet \cup ManageSet
                              \cup {"ownership.transfer", "marketplace.manage"}
    [] role = "ADMIN"    -> ReadSet \cup ExecuteSet \cup ManageSet
    [] role = "EMPLOYEE" -> ReadSet \cup ExecuteSet
    [] role = "VIEWER"   -> ReadSet
    [] OTHER             -> {}
=============================================================================
