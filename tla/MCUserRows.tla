----------------------------- MODULE MCUserRows -----------------------------
(***************************************************************************)
(* Small tables for UserRows.  "clerk" has a row at the start, "new1" is an*)
(* id no row has yet.  Requests come from the clerk, from a SUPER_ADMIN and*)
(* from a CHIEF_OFFICER whose own rows are not followed.                   *)
(***************************************************************************)
EXTENDS UserRows

OneRequest == {"r1"}
TwoRequests == {"r1", "r2"}
TwoEmails == {"b@county", "c@county"}

Row(e, role, status) ==
  [email |-> e, pw |-> "chosen", temp |-> FALSE, role |-> role, status |-> status,
   token |-> 0, perms |-> {}]
SmallTable == [u \in Users |->
  IF u = "clerk" THEN Row("c@county", "SME_OFFICER", "ACTIVE")
                 ELSE Row(Freed, "SME_OFFICER", "ABSENT")]

Boss == [id |-> "boss", role |-> "SUPER_ADMIN", perms |-> {}]
Clerk(perms) == [id |-> "clerk", role |-> "SME_OFFICER", perms |-> perms]
Chief(perms) == [id |-> "chief", role |-> "CHIEF_OFFICER", perms |-> perms]
NoChange == [email |-> Keep, role |-> Keep, status |-> Keep, profile |-> FALSE]
RoleChange(role) == [NoChange EXCEPT !.role = role]
StatusChange(status) == [NoChange EXCEPT !.status = status]
EmailChange(e) == [NoChange EXCEPT !.email = e]
ProfileChange == [NoChange EXCEPT !.profile = TRUE]

-----------------------------------------------------------------------------
(* Administration: roles, statuses, deletion and delegation, of one row,   *)
(* whose owner may change the password.                                    *)
AdminUsers == {"clerk"}
AdminPerms == {"user:update"}
AdminActors == {Boss, Clerk({}), Chief({"user:update", "user:delete", "permission:delegate"})}
AdminChanges ==
  {RoleChange("DIRECTOR"), RoleChange("SUPER_ADMIN"), StatusChange("DISABLED"), ProfileChange}
AdminOps == {"update", "delete", "change", "permissions"}

(* Accounts: creation and deletion, an address that moves between rows, and*)
(* the resets of passwords.                                                *)
AccountUsers == {"clerk", "new1"}
AccountPerms == {"user:create"}
AccountActors == {Boss, Clerk(AccountPerms)}
AccountChanges == {EmailChange("b@county")}
AccountOps == {"create", "update", "delete", "adminReset", "forgot", "reset"}

(* The run that ends in a violation.                                       *)
JustUpdate == {"update"}
RoleAndEmail == {[RoleChange("DIRECTOR") EXCEPT !.email = "b@county"]}
=============================================================================
