------------------------------ MODULE UserRows ------------------------------
(***************************************************************************)
(* The users table and the handlers that change it: account administration *)
(* (internal/user/service.go), the password operations                     *)
(* (internal/auth/handler.go) and the delegation of permissions            *)
(* (internal/rbac/service.go).                                             *)
(*                                                                         *)
(* None of them uses a transaction.  Each SELECTs the row into a struct,   *)
(* checks and edits the struct, and writes it back with one of five        *)
(* statements of internal/user/repository.go; between the SELECT and the   *)
(* statement any other request may run.  So a handler is two actions here: *)
(* the decision on the row as read, which leaves a job, and the statement. *)
(*                                                                         *)
(* Names, phones and timestamps are left out.  The username is written and *)
(* checked with the email and stands for it.  A password is only "chosen"  *)
(* by its owner or "generated" by the system.                              *)
(***************************************************************************)
EXTENDS Integers, FiniteSets

CONSTANTS
  Users,      \* primary keys of the rows followed, of present and future accounts
  Requests,   \* slots for concurrent requests
  Emails,     \* addresses, in the lower case the handlers store
  Freed,      \* an address after DeleteUser put "_deleted_<uuid>" behind it
  Perms,      \* permission names
  Actors,     \* the claims requests carry: [id, role, perms]; the id may be
              \* one of another account
  Changes,    \* what an update may ask for: [email, role, status, profile]
  Ops,        \* the handlers that take part
  InitRows,   \* the table at the start
  MaxTokens   \* bound: password-reset tokens issued

Roles == {"SME_OFFICER", "DIRECTOR", "CHIEF_OFFICER", "SUPER_ADMIN"}
Statuses == {"ACTIVE", "PENDING", "DISABLED", "DELETED"}
Handlers == {"create", "update", "delete", "adminReset", "change", "forgot", "reset", "permissions"}

\* A field the request leaves out (a nil pointer in UpdateUserRequest).
Keep == "keep"

\* Status "ABSENT" is the row that does not exist; token 0 is the SQL NULL.
Rows == [email : Emails \cup {Freed}, pw : {"chosen", "generated"}, temp : BOOLEAN,
         role : Roles, status : Statuses \cup {"ABSENT"}, token : 0..MaxTokens,
         perms : SUBSET Perms]

ASSUME UserRowsAssumption ==
  /\ MaxTokens \in Nat
  /\ Freed \notin Emails
  /\ Keep \notin Emails
  /\ Keep # Freed
  /\ Users # {}
  /\ \A a \in Actors : a.role \in Roles
  /\ Changes \subseteq [email : Emails \cup {Keep}, role : Roles \cup {Keep},
                        status : Statuses \cup {Keep}, profile : BOOLEAN]
  /\ Ops \subseteq Handlers
  /\ InitRows \in [Users -> Rows]
  /\ \A u \in Users : InitRows[u].temp <=> InitRows[u].pw = "generated"

VARIABLES
  rows,     \* the users table
  jobs,     \* per request: the statement its handler has decided on
  tokens,   \* password-reset tokens issued so far
  expired,  \* those of them past their reset_token_expiry
  wanted,   \* history: each row as the answered requests asked for it, up to
            \* and including the first that makes it stale
  stale,    \* history: rows hit by a statement decided on an older row
  crowned   \* history: accounts a SUPER_ADMIN made SUPER_ADMIN

vars == <<rows, jobs, tokens, expired, wanted, stale, crowned>>
history == <<wanted, stale, crowned>>

\* What a request asks for, whatever its handler; unused fields are neutral.
Asks == [email : Emails \cup {Keep}, role : Roles \cup {Keep}, status : Statuses \cup {Keep},
         add : SUBSET Perms, remove : SUBSET Perms, token : 0..MaxTokens]
NoAsk == [email |-> Keep, role |-> Keep, status |-> Keep, add |-> {}, remove |-> {}, token |-> 0]

\* The claims of a request without a token.
Anyone == [id |-> "", role |-> "", perms |-> {}]

Statements == {"insert", "row", "admin", "permissions", "token"}
Jobs == [op : Handlers,
         by : Actors \cup {Anyone},  \* history: the claims it was decided on
         user : Users, statement : Statements,
         base : Rows,                \* history: the row as it was read
         copy : Rows, ask : Asks]
Free == [op |-> "none"]

TypeOK ==
  /\ rows \in [Users -> Rows]
  /\ jobs \in [Requests -> Jobs \cup {Free}]
  /\ tokens \in 0..MaxTokens
  /\ expired \subseteq 1..MaxTokens
  /\ wanted \in [Users -> Rows]
  /\ stale \subseteq Users
  /\ crowned \subseteq Users

Init ==
  /\ rows = InitRows
  /\ jobs = [r \in Requests |-> Free]
  /\ tokens = 0
  /\ expired = {}
  /\ wanted = InitRows
  /\ stale = {}
  /\ crowned = {u \in Users : InitRows[u].role = "SUPER_ADMIN"}

-----------------------------------------------------------------------------
(* Decisions: a handler from its SELECT to just before its statement.      *)

Exists(u) == rows[u].status # "ABSENT"
IsSuper(a) == a.role = "SUPER_ADMIN"

\* The RequirePermission of the route (cmd/server/main.go), which each service
\* checks once more.
Can(a, permission) == IsSuper(a) \/ permission \in a.perms

\* FindByEmail finds the address on another row.
EmailTaken(e, u) == \E v \in Users \ {u} : Exists(v) /\ rows[v].email = e

\* The handler ends its decision with a statement to run.
Decide(r, op, a, u, statement, copy, ask) ==
  /\ op \in Ops
  /\ jobs[r] = Free
  /\ jobs' = [jobs EXCEPT ![r] =
       [op |-> op, by |-> a, user |-> u, statement |-> statement,
        base |-> rows[u], copy |-> copy, ask |-> ask]]
  /\ UNCHANGED <<rows, expired, history>>

Level(role) == CASE role = "SME_OFFICER" -> 1 [] role = "DIRECTOR" -> 2
                 [] role = "CHIEF_OFFICER" -> 3 [] OTHER -> 4

\* Variant: a CHIEF_OFFICER may promote to any role.
MayPromote(a, from, to) ==
  IsSuper(a) \/ (Level(to) > Level(from) /\ a.role = "CHIEF_OFFICER")

\* The rules of a role change: promotions by SUPER_ADMIN, or by CHIEF_OFFICER to
\* a role below its own; anything else by SUPER_ADMIN only.
MayChangeRole(a, from, to) ==
  \/ IsSuper(a)
  \/ /\ Level(to) > Level(from)
     /\ a.role = "CHIEF_OFFICER"
     /\ to # "SUPER_ADMIN"
     /\ Level(to) < Level(a.role)

\* A fresh account: ACTIVE, with a generated password to be changed.
NewRow(e, role) ==
  [email |-> e, pw |-> "generated", temp |-> TRUE, role |-> role, status |-> "ACTIVE",
   token |-> 0, perms |-> {}]

\* A uuid that no row and no other request has.
FreshId(u) == ~Exists(u) /\ \A q \in Requests : jobs[q] # Free => jobs[q].user # u

\* Variant: anyone who may create users may create a SUPER_ADMIN.
CreateAnyUser(r, a, u, e, role) ==
  /\ Can(a, "user:create")
  /\ FreshId(u)
  /\ ~EmailTaken(e, u)
  /\ Decide(r, "create", a, u, "insert", NewRow(e, role), [NoAsk EXCEPT !.email = e, !.role = role])
  /\ UNCHANGED tokens

CreateUser(r, a, u, e, role) ==
  /\ Can(a, "user:create")
  /\ FreshId(u)
  /\ ~EmailTaken(e, u)
  /\ role = "SUPER_ADMIN" => IsSuper(a)
  /\ Decide(r, "create", a, u, "insert", NewRow(e, role), [NoAsk EXCEPT !.email = e, !.role = role])
  /\ UNCHANGED tokens

\* Variant: the field is used though it was left out.
OrNil(asked, value) == asked

\* A field of the request, or the row's own value when it was left out.
Or(asked, value) == IF asked = Keep THEN value ELSE asked

\* The struct after the assignments of UpdateUser.
Updated(row, c) ==
  [row EXCEPT !.email = Or(c.email, @), !.role = Or(c.role, @), !.status = Or(c.status, @)]

\* profileChanged: it compares the address asked for with the struct, which
\* already holds it.
ProfileChanged(c, copy) == c.profile \/ (c.email # Keep /\ c.email # copy.email)

UpdateUser(r, a, u, c) ==
  LET row == rows[u]
      copy == Updated(row, c)
      adminChange == copy.role # row.role \/ copy.status # row.status
  IN
  /\ row.status \notin {"ABSENT", "DELETED"}
  /\ Can(a, "user:update")
  /\ a.id = u => c.role = Keep /\ c.status = Keep
  /\ c.email \notin {Keep, row.email} => ~EmailTaken(c.email, u)
  /\ copy.role # row.role => MayChangeRole(a, row.role, copy.role)
  /\ c.status \in {"DISABLED", "DELETED"} => IsSuper(a)
  /\ Decide(r, "update", a, u, IF adminChange /\ ~ProfileChanged(c, copy) THEN "admin" ELSE "row",
            copy, [NoAsk EXCEPT !.email = c.email, !.role = c.role, !.status = c.status])
  /\ UNCHANGED tokens

\* Variant: a SUPER_ADMIN's account is like any other.
DeleteAnyone(r, a, u) ==
  /\ Can(a, "user:delete")
  /\ a.id # u
  /\ Exists(u)
  /\ rows[u].status # "DELETED"
  /\ Decide(r, "delete", a, u, "row", [rows[u] EXCEPT !.status = "DELETED", !.email = Freed], NoAsk)
  /\ UNCHANGED tokens

DeleteUser(r, a, u) ==
  /\ Can(a, "user:delete")
  /\ a.id # u
  /\ Exists(u)
  /\ rows[u].role = "SUPER_ADMIN" => IsSuper(a)
  /\ rows[u].status # "DELETED"
  /\ Decide(r, "delete", a, u, "row", [rows[u] EXCEPT !.status = "DELETED", !.email = Freed], NoAsk)
  /\ UNCHANGED tokens

\* The administrator's reset: the owner gets a generated password by mail.
AdminResetPassword(r, a, u) ==
  /\ Can(a, "user:update")
  /\ Exists(u)
  /\ Decide(r, "adminReset", a, u, "row", [rows[u] EXCEPT !.pw = "generated", !.temp = TRUE], NoAsk)
  /\ UNCHANGED tokens

\* The owner, with the current password.
ChangePassword(r, a) ==
  /\ a.id \in Users
  /\ Exists(a.id)
  /\ Decide(r, "change", a, a.id, "row", [rows[a.id] EXCEPT !.pw = "chosen", !.temp = FALSE], NoAsk)
  /\ UNCHANGED tokens

ForgotPassword(r, u) ==
  /\ rows[u].status = "ACTIVE"
  /\ tokens < MaxTokens
  /\ tokens' = tokens + 1
  /\ Decide(r, "forgot", Anyone, u, "token", [rows[u] EXCEPT !.token = tokens + 1],
            [NoAsk EXCEPT !.token = tokens + 1])

\* Variant: the flag to change the password stays.
ResetKeepsFlag(r, u) ==
  /\ Exists(u)
  /\ rows[u].token # 0
  /\ rows[u].token \notin expired
  /\ Decide(r, "reset", Anyone, u, "row", [rows[u] EXCEPT !.pw = "chosen", !.token = 0], NoAsk)
  /\ UNCHANGED tokens

\* Variant: the token can be used again.
ResetKeepsToken(r, u) ==
  /\ Exists(u)
  /\ rows[u].token # 0
  /\ rows[u].token \notin expired
  /\ Decide(r, "reset", Anyone, u, "row", [rows[u] EXCEPT !.pw = "chosen", !.temp = FALSE], NoAsk)
  /\ UNCHANGED tokens

\* FindByResetToken: the token is on the row and has not expired.  The status is
\* not looked at.
ResetPassword(r, u) ==
  /\ Exists(u)
  /\ rows[u].token # 0
  /\ rows[u].token \notin expired
  /\ Decide(r, "reset", Anyone, u, "row",
            [rows[u] EXCEPT !.pw = "chosen", !.temp = FALSE, !.token = 0], NoAsk)
  /\ UNCHANGED tokens

\* Only permissions the delegator holds, and never one's own.
UpdateUserPermissions(r, a, u, add, remove) ==
  /\ a.id # u
  /\ Can(a, "permission:delegate")
  /\ IsSuper(a) \/ add \cup remove \subseteq a.perms
  /\ Exists(u)
  /\ Decide(r, "permissions", a, u, "permissions",
            [rows[u] EXCEPT !.perms = (@ \cup add) \ remove],
            [NoAsk EXCEPT !.add = add, !.remove = remove])
  /\ UNCHANGED tokens

\* A token passes its expiry.
ExpireToken(t) ==
  /\ expired' = expired \cup {t}
  /\ UNCHANGED <<rows, jobs, tokens, history>>

-----------------------------------------------------------------------------
(* Statements.                                                             *)

\* Variant: UpdateRoleAndStatus forgets the status.
WrittenNoStatus(statement, old, copy) ==
  CASE statement = "admin"       -> [old EXCEPT !.role = copy.role]
    [] statement = "permissions" -> [old EXCEPT !.perms = copy.perms]
    [] statement = "token"       -> [old EXCEPT !.token = copy.token]
    [] OTHER                     -> copy

\* The columns each statement of repository.go assigns.
Written(statement, old, copy) ==
  CASE statement = "admin"       -> [old EXCEPT !.role = copy.role, !.status = copy.status]
    [] statement = "permissions" -> [old EXCEPT !.perms = copy.perms]
    [] statement = "token"       -> [old EXCEPT !.token = copy.token]
    [] OTHER                     -> copy

\* The UNIQUE constraint of users.email (and of users.username).
Unique(u, e) == e = Freed \/ ~EmailTaken(e, u)

\* What an answered request asked for, on top of what was asked before.
Asked(op, ask, row) ==
  CASE op = "create"      -> NewRow(ask.email, ask.role)
    [] op = "update"      -> Updated(row, ask)
    [] op = "delete"      -> [row EXCEPT !.status = "DELETED", !.email = Freed]
    [] op = "adminReset"  -> [row EXCEPT !.pw = "generated", !.temp = TRUE]
    [] op = "change"      -> [row EXCEPT !.pw = "chosen", !.temp = FALSE]
    [] op = "forgot"      -> [row EXCEPT !.token = ask.token]
    [] op = "reset"       -> [row EXCEPT !.pw = "chosen", !.temp = FALSE, !.token = 0]
    [] op = "permissions" -> [row EXCEPT !.perms = (@ \cup ask.add) \ ask.remove]

\* The statement runs and the request is answered with success.
Execute(r) ==
  LET j == jobs[r]
      new == Written(j.statement, rows[j.user], j.copy)
  IN
  /\ j # Free
  /\ j.statement = "insert" => ~Exists(j.user)
  /\ Unique(j.user, new.email)
  /\ rows' = [rows EXCEPT ![j.user] = new]
  /\ jobs' = [jobs EXCEPT ![r] = Free]
  /\ wanted' = [wanted EXCEPT ![j.user] = IF j.user \in stale THEN new ELSE Asked(j.op, j.ask, @)]
  /\ stale' = stale \cup (IF j.base # rows[j.user] THEN {j.user} ELSE {})
  /\ crowned' = crowned \cup (IF IsSuper(j.by) /\ j.ask.role = "SUPER_ADMIN" THEN {j.user} ELSE {})
  /\ UNCHANGED <<tokens, expired>>

\* The statement fails (a constraint, a lost connection): 500, nothing written.
Fail(r) ==
  /\ jobs[r] # Free
  /\ jobs' = [jobs EXCEPT ![r] = Free]
  /\ UNCHANGED <<rows, tokens, expired, history>>

Decision(r) ==
  \/ \E a \in Actors, u \in Users, e \in Emails, role \in Roles : CreateUser(r, a, u, e, role)
  \/ \E a \in Actors, u \in Users, c \in Changes : UpdateUser(r, a, u, c)
  \/ \E a \in Actors, u \in Users : DeleteUser(r, a, u)
  \/ \E a \in Actors, u \in Users : AdminResetPassword(r, a, u)
  \/ \E a \in Actors : ChangePassword(r, a)
  \/ \E u \in Users : ForgotPassword(r, u)
  \/ \E u \in Users : ResetPassword(r, u)
  \/ \E a \in Actors, u \in Users, p \in SUBSET Perms \ {{}} :
       UpdateUserPermissions(r, a, u, p, {}) \/ UpdateUserPermissions(r, a, u, {}, p)

Next ==
  \/ \E r \in Requests : Decision(r) \/ Execute(r) \/ Fail(r)
  \/ \E t \in (1..tokens) \ expired : ExpireToken(t)

Spec == Init /\ [][Next]_vars

-----------------------------------------------------------------------------
(* What holds in spite of the races.                                       *)

\* An account is flagged to change its password exactly while its password is one
\* the system generated, whatever copies of the row are written back in between.
TempFlagMatchesPassword ==
  \A u \in Users : rows[u].temp <=> rows[u].pw = "generated"

\* No interleaving of decisions and statements makes a SUPER_ADMIN: the role is only
\* ever held by accounts for which a SUPER_ADMIN asked for it, or that had it first.
SuperAdminsAreAppointed ==
  \A u \in Users : Exists(u) /\ rows[u].role = "SUPER_ADMIN" => u \in crowned

\* A row that no statement decided on an older copy has hit is exactly what its
\* answered requests asked for, applied one after the other: nothing is lost, kept
\* or brought back.
SerialUnlessStale ==
  \A u \in Users \ stale : rows[u] = wanted[u]

\* Who is asking for a change of which account.
Asking == [r \in Requests |->
  IF jobs[r] = Free THEN Free ELSE [by |-> jobs[r].by, user |-> jobs[r].user]]

\* The handlers implement AccountRules.
Rules == INSTANCE AccountRules WITH requests <- Asking, spoiled <- stale

\* A statement on the row it was decided on is as good as a request handled in one step:
\* whoever asked may ask for that change of the row as it is when the statement runs, role
\* rules, deleted accounts, one-time tokens and delegated permissions included.  The rest
\* spoil the row they hit, and no other.
ImplementsRules == Rules!Spec

-----------------------------------------------------------------------------
(* What a comment of the code promises and the code does not keep.         *)

\* "Mixed updates: Full row update required" (user/service.go): an update that asks
\* for a role or status and an address stores all it asked for.
MixedUpdatesStored ==
  [][\A r \in Requests :
       /\ jobs[r] # Free
       /\ jobs[r].op = "update"
       /\ jobs[r].ask.email # Keep
       /\ Execute(r)
       => rows'[jobs[r].user].email = jobs[r].ask.email]_vars
=============================================================================
