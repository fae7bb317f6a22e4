---------------------------- MODULE UserRowsProofs ----------------------------
(***************************************************************************)
(* What survives the read-modify-write races of UserRows, for any number   *)
(* of accounts, of concurrent requests and of claims.                      *)
(***************************************************************************)
EXTENDS UserRows, TLAPS

\* An update that asks for an address and names, or for no role and status.
NoMixedChanges ==
  \A c \in Changes : c.email # Keep /\ ~c.profile => c.role = Keep /\ c.status = Keep

\* The fields of a request.
LEMMA ChangeType ==
  ASSUME NEW c \in Changes
  PROVE  /\ c.email \in Emails \cup {Keep}
         /\ c.role \in Roles \cup {Keep}
         /\ c.status \in Statuses \cup {Keep}
  BY UserRowsAssumption

\* What UpdateUser assigns is a row again.
LEMMA UpdatedType ==
  ASSUME NEW row \in Rows, NEW c \in Changes
  PROVE  Updated(row, c) \in Rows
<1>1. /\ c.email \in Emails \cup {Keep}
      /\ c.role \in Roles \cup {Keep}
      /\ c.status \in Statuses \cup {Keep}
  BY ChangeType
<1> QED BY <1>1 DEF Updated, Or, Rows

\* So are the rows the other handlers assign.
LEMMA EditedType ==
  ASSUME NEW row \in Rows
  PROVE  /\ [row EXCEPT !.status = "DELETED", !.email = Freed] \in Rows
         /\ [row EXCEPT !.pw = "generated", !.temp = TRUE] \in Rows
         /\ [row EXCEPT !.pw = "chosen", !.temp = FALSE] \in Rows
         /\ [row EXCEPT !.pw = "chosen", !.temp = FALSE, !.token = 0] \in Rows
         /\ \A t \in 0..MaxTokens : [row EXCEPT !.token = t] \in Rows
         /\ \A add, remove \in SUBSET Perms : [row EXCEPT !.perms = (@ \cup add) \ remove] \in Rows
<1>1. 0 \in 0..MaxTokens
  BY UserRowsAssumption
<1> QED BY <1>1 DEF Rows, Statuses

LEMMA NewRowType ==
  ASSUME NEW e \in Emails, NEW role \in Roles
  PROVE  NewRow(e, role) \in Rows
<1>1. 0 \in 0..MaxTokens
  BY UserRowsAssumption
<1> QED BY <1>1 DEF NewRow, Rows, Statuses

\* Requests as the handlers fill them in.
LEMMA AskType ==
  /\ NoAsk \in Asks
  /\ \A e \in Emails, role \in Roles : [NoAsk EXCEPT !.email = e, !.role = role] \in Asks
  /\ \A c \in Changes : [NoAsk EXCEPT !.email = c.email, !.role = c.role, !.status = c.status] \in Asks
  /\ \A t \in 0..MaxTokens : [NoAsk EXCEPT !.token = t] \in Asks
  /\ \A add, remove \in SUBSET Perms : [NoAsk EXCEPT !.add = add, !.remove = remove] \in Asks
<1>1. 0 \in 0..MaxTokens
  BY UserRowsAssumption
<1> QED BY <1>1, ChangeType DEF NoAsk, Asks

\* Every statement writes a row.
LEMMA WrittenType ==
  ASSUME NEW statement \in Statements, NEW old \in Rows, NEW copy \in Rows
  PROVE  Written(statement, old, copy) \in Rows
  BY DEF Written, Statements, Rows

\* What requests ask for is a row again.
LEMMA AskedType ==
  ASSUME NEW op \in Handlers, NEW ask \in Asks, NEW row \in Rows,
         op = "create" => ask.email \in Emails /\ ask.role \in Roles
  PROVE  Asked(op, ask, row) \in Rows
<1>1. CASE op = "create"
  BY <1>1, NewRowType DEF Asked
<1>2. CASE op = "update"
  <2>1. Updated(row, ask) \in Rows
    BY DEF Asks, Updated, Or, Rows
  <2> QED BY <1>2, <2>1 DEF Asked
<1>3. CASE op \in {"delete", "adminReset", "change", "reset"}
  BY <1>3, EditedType DEF Asked
<1>4. CASE op \in {"forgot", "permissions"}
  <2>1. ask.token \in 0..MaxTokens /\ ask.add \in SUBSET Perms /\ ask.remove \in SUBSET Perms
    BY DEF Asks
  <2> QED BY <1>4, <2>1, EditedType DEF Asked
<1> QED BY <1>1, <1>2, <1>3, <1>4 DEF Handlers

\* A creation always names an address and a role.
CreatesNamed ==
  \A r \in Requests : jobs[r] # Free /\ jobs[r].op = "create" =>
    jobs[r].ask.email \in Emails /\ jobs[r].ask.role \in Roles

\* What a decision may leave in a slot.
GoodDecision(r) == 
  /\ jobs' = [jobs EXCEPT ![r] = jobs'[r]]
  /\ jobs'[r] \in Jobs
  /\ jobs'[r].op = "create" => jobs'[r].ask.email \in Emails /\ jobs'[r].ask.role \in Roles
  /\ UNCHANGED <<rows, expired, history>>
  /\ tokens' \in tokens..MaxTokens

LEMMA DecideType ==
  ASSUME TypeOK, NEW r \in Requests, NEW op \in Handlers, NEW a \in Actors \cup {Anyone},
         NEW u \in Users, NEW statement \in Statements, NEW copy \in Rows, NEW ask \in Asks,
         op = "create" => ask.email \in Emails /\ ask.role \in Roles,
         Decide(r, op, a, u, statement, copy, ask), tokens' \in tokens..MaxTokens
  PROVE  GoodDecision(r)
<1>1. rows[u] \in Rows
  BY DEF TypeOK
<1> DEFINE job == [op |-> op, by |-> a, user |-> u, statement |-> statement,
                   base |-> rows[u], copy |-> copy, ask |-> ask]
<1>2. job \in Jobs
  BY <1>1 DEF Jobs, IsSuper
<1>3. jobs' = [jobs EXCEPT ![r] = job] /\ jobs'[r] = job /\ UNCHANGED <<rows, expired, history>>
  BY DEF Decide, TypeOK
<1>4. jobs' = [jobs EXCEPT ![r] = jobs'[r]]
  BY <1>3
<1>5. job.op = "create" => job.ask.email \in Emails /\ job.ask.role \in Roles
  OBVIOUS
<1> QED BY <1>2, <1>3, <1>4, <1>5 DEF GoodDecision

LEMMA DecisionType ==
  ASSUME TypeOK, NEW r \in Requests, Decision(r)
  PROVE  GoodDecision(r)
<1>0. /\ \A u \in Users : rows[u] \in Rows
      /\ tokens \in tokens..MaxTokens
  BY UserRowsAssumption DEF TypeOK
<1> USE <1>0 DEF Handlers, Statements
<1>1. ASSUME NEW a \in Actors, NEW u \in Users, NEW e \in Emails, NEW role \in Roles,
             CreateUser(r, a, u, e, role)
      PROVE  GoodDecision(r)
  <2>1. NewRow(e, role) \in Rows /\ [NoAsk EXCEPT !.email = e, !.role = role] \in Asks
    BY NewRowType, AskType
  <2>2. [NoAsk EXCEPT !.email = e, !.role = role].email = e
        /\ [NoAsk EXCEPT !.email = e, !.role = role].role = role
    BY DEF NoAsk
  <2>3. Decide(r, "create", a, u, "insert", NewRow(e, role), [NoAsk EXCEPT !.email = e, !.role = role])
        /\ tokens' = tokens
    BY <1>1 DEF CreateUser
  <2> QED BY DecideType, <2>1, <2>2, <2>3
<1>2. ASSUME NEW a \in Actors, NEW u \in Users, NEW c \in Changes, UpdateUser(r, a, u, c)
      PROVE  GoodDecision(r)
  <2>1. Updated(rows[u], c) \in Rows
        /\ [NoAsk EXCEPT !.email = c.email, !.role = c.role, !.status = c.status] \in Asks
    BY UpdatedType, AskType
  <2>2. PICK statement \in Statements :
          Decide(r, "update", a, u, statement, Updated(rows[u], c),
                 [NoAsk EXCEPT !.email = c.email, !.role = c.role, !.status = c.status])
    BY <1>2 DEF UpdateUser
  <2>3. tokens' = tokens
    BY <1>2 DEF UpdateUser
  <2> QED BY DecideType, <2>1, <2>2, <2>3
<1>3. ASSUME NEW a \in Actors, NEW u \in Users, DeleteUser(r, a, u)
      PROVE  GoodDecision(r)
  <2>1. Decide(r, "delete", a, u, "row", [rows[u] EXCEPT !.status = "DELETED", !.email = Freed], NoAsk)
        /\ tokens' = tokens
    BY <1>3 DEF DeleteUser
  <2> QED BY DecideType, EditedType, AskType, <2>1
<1>4. ASSUME NEW a \in Actors, NEW u \in Users, AdminResetPassword(r, a, u)
      PROVE  GoodDecision(r)
  <2>1. Decide(r, "adminReset", a, u, "row", [rows[u] EXCEPT !.pw = "generated", !.temp = TRUE], NoAsk)
        /\ tokens' = tokens
    BY <1>4 DEF AdminResetPassword
  <2> QED BY DecideType, EditedType, AskType, <2>1
<1>5. ASSUME NEW a \in Actors, ChangePassword(r, a)
      PROVE  GoodDecision(r)
  <2>1. Decide(r, "change", a, a.id, "row", [rows[a.id] EXCEPT !.pw = "chosen", !.temp = FALSE], NoAsk)
        /\ a.id \in Users /\ tokens' = tokens
    BY <1>5 DEF ChangePassword
  <2> QED BY DecideType, EditedType, AskType, <2>1
<1>6. ASSUME NEW u \in Users, ForgotPassword(r, u)
      PROVE  GoodDecision(r)
  <2>1. tokens + 1 \in 0..MaxTokens /\ tokens' \in tokens..MaxTokens
    BY <1>6, UserRowsAssumption DEF ForgotPassword, TypeOK
  <2>2. Decide(r, "forgot", Anyone, u, "token", [rows[u] EXCEPT !.token = tokens + 1],
               [NoAsk EXCEPT !.token = tokens + 1])
    BY <1>6 DEF ForgotPassword
  <2>3. [rows[u] EXCEPT !.token = tokens + 1] \in Rows /\ [NoAsk EXCEPT !.token = tokens + 1] \in Asks
    BY <2>1, EditedType, AskType
  <2> QED BY DecideType, <2>1, <2>2, <2>3
<1>7. ASSUME NEW u \in Users, ResetPassword(r, u)
      PROVE  GoodDecision(r)
  <2>1. Decide(r, "reset", Anyone, u, "row",
               [rows[u] EXCEPT !.pw = "chosen", !.temp = FALSE, !.token = 0], NoAsk)
        /\ tokens' = tokens
    BY <1>7 DEF ResetPassword
  <2> QED BY DecideType, EditedType, AskType, <2>1
<1>8. ASSUME NEW a \in Actors, NEW u \in Users, NEW add \in SUBSET Perms, NEW remove \in SUBSET Perms,
             UpdateUserPermissions(r, a, u, add, remove)
      PROVE  GoodDecision(r)
  <2>1. Decide(r, "permissions", a, u, "permissions", [rows[u] EXCEPT !.perms = (@ \cup add) \ remove],
               [NoAsk EXCEPT !.add = add, !.remove = remove])
        /\ tokens' = tokens
    BY <1>8 DEF UpdateUserPermissions
  <2>2. [rows[u] EXCEPT !.perms = (@ \cup add) \ remove] \in Rows
        /\ [NoAsk EXCEPT !.add = add, !.remove = remove] \in Asks
    BY EditedType, AskType
  <2> QED BY DecideType, <2>1, <2>2
<1>9. {} \in SUBSET Perms /\ \A p \in SUBSET Perms \ {{}} : p \in SUBSET Perms
  OBVIOUS
<1> QED BY <1>1, <1>2, <1>3, <1>4, <1>5, <1>6, <1>7, <1>8, <1>9 DEF Decision

\* A statement that runs writes a row, for a slot that has a job.
LEMMA ExecuteType ==
  ASSUME TypeOK, CreatesNamed, NEW r \in Requests, Execute(r)
  PROVE  TypeOK' /\ CreatesNamed'
<1> DEFINE j == jobs[r]
           new == Written(j.statement, rows[j.user], j.copy)
<1>1. j \in Jobs
  BY DEF Execute, TypeOK
<1>2. /\ j.user \in Users /\ j.copy \in Rows /\ j.statement \in Statements
      /\ j.op \in Handlers /\ j.ask \in Asks
      /\ rows[j.user] \in Rows /\ wanted[j.user] \in Rows
  BY <1>1 DEF Jobs, TypeOK
<1>3. new \in Rows
  BY <1>2, WrittenType
<1>4. Asked(j.op, j.ask, wanted[j.user]) \in Rows
  BY <1>2, AskedType DEF CreatesNamed, Execute
<1>5. /\ rows' = [rows EXCEPT ![j.user] = new]
      /\ wanted' = [wanted EXCEPT ![j.user] = IF j.user \in stale THEN new ELSE Asked(j.op, j.ask, @)]
      /\ jobs' = [jobs EXCEPT ![r] = Free]
      /\ stale' \in SUBSET (stale \cup {j.user})
      /\ crowned' \in SUBSET (crowned \cup {j.user})
      /\ UNCHANGED <<tokens, expired>>
  BY DEF Execute
<1> HIDE DEF j, new
<1>6. rows' \in [Users -> Rows] /\ wanted' \in [Users -> Rows]
  BY <1>2, <1>3, <1>4, <1>5 DEF TypeOK
<1>7. jobs' \in [Requests -> Jobs \cup {Free}] /\ CreatesNamed'
  BY <1>5 DEF TypeOK, CreatesNamed
<1> QED BY <1>2, <1>5, <1>6, <1>7 DEF TypeOK

LEMMA TypeStep == TypeOK /\ CreatesNamed /\ [Next]_vars => TypeOK' /\ CreatesNamed'
<1> SUFFICES ASSUME TypeOK, CreatesNamed, [Next]_vars
             PROVE  TypeOK' /\ CreatesNamed'
  OBVIOUS
<1>1. ASSUME NEW r \in Requests, Decision(r)
      PROVE  TypeOK' /\ CreatesNamed'
  <2>1. GoodDecision(r)
    BY <1>1, DecisionType
  <2>2. tokens' \in 0..MaxTokens
    BY <2>1, UserRowsAssumption DEF GoodDecision, TypeOK
  <2> QED BY <2>1, <2>2 DEF GoodDecision, TypeOK, CreatesNamed, history
<1>2. ASSUME NEW r \in Requests, Execute(r)
      PROVE  TypeOK' /\ CreatesNamed'
  BY <1>2, ExecuteType
<1>3. ASSUME NEW r \in Requests, Fail(r)
      PROVE  TypeOK' /\ CreatesNamed'
  BY <1>3 DEF Fail, TypeOK, CreatesNamed, history
<1>4. ASSUME NEW t \in (1..tokens) \ expired, ExpireToken(t)
      PROVE  TypeOK' /\ CreatesNamed'
  <2>1. t \in 1..MaxTokens
    BY UserRowsAssumption DEF TypeOK
  <2> QED BY <1>4, <2>1 DEF ExpireToken, TypeOK, CreatesNamed, history
<1>5. CASE UNCHANGED vars
  BY <1>5 DEF vars, TypeOK, CreatesNamed
<1> QED BY <1>1, <1>2, <1>3, <1>4, <1>5 DEF Next

LEMMA TypeInit == Init => TypeOK /\ CreatesNamed
<1>1. 0 \in 0..MaxTokens /\ InitRows \in [Users -> Rows]
  BY UserRowsAssumption
<1> QED BY <1>1 DEF Init, TypeOK, CreatesNamed

\* Spec => []TypeOK: every row, every copy a request holds and every request is of
\* its type in every reachable state.
THEOREM TypeCorrect == Spec => []TypeOK
<1>1. TypeOK /\ CreatesNamed /\ [Next]_vars => TypeOK' /\ CreatesNamed'
  BY TypeStep
<1> QED BY TypeInit, <1>1, PTL DEF Spec

-----------------------------------------------------------------------------
(* The invariants.  A job in flight must carry enough to keep them when its *)
(* statement finally runs, on whatever row it then finds.                   *)

Matched(row) == row.temp <=> row.pw = "generated"

\* Whoever gains the role by the copy has it already, or the job's SUPER_ADMIN asked.
Appointed(j) ==
  j.copy.status # "ABSENT" /\ j.copy.role = "SUPER_ADMIN" =>
    j.user \in crowned \/ (IsSuper(j.by) /\ j.ask.role = "SUPER_ADMIN")

\* On the very row it was decided on, the statement does what was asked.
DoesAsked(j) == Written(j.statement, j.base, j.copy) = Asked(j.op, j.ask, j.base)

MatchedInv == (\A u \in Users : Matched(rows[u])) /\ \A r \in Requests : jobs[r] # Free => Matched(jobs[r].copy)
AppointedInv == SuperAdminsAreAppointed /\ \A r \in Requests : jobs[r] # Free => Appointed(jobs[r])
SerialInv == SerialUnlessStale /\ \A r \in Requests : jobs[r] # Free => DoesAsked(jobs[r])

\* What a job keeps of the arguments of Decide.
LEMMA DecideJob ==
  ASSUME TypeOK, NEW r \in Requests, NEW op, NEW a, NEW u, NEW statement, NEW copy, NEW ask,
         Decide(r, op, a, u, statement, copy, ask)
  PROVE  /\ jobs'[r].copy = copy
         /\ jobs'[r].user = u
         /\ jobs'[r].ask = ask
         /\ jobs'[r].by = a
         /\ jobs'[r].op = op
         /\ jobs'[r].statement = statement
         /\ jobs'[r].base = rows[u]
BY DEF Decide, TypeOK

\* A decision takes a free slot.
LEMMA DecisionFills ==
  ASSUME TypeOK, NEW r \in Requests, Decision(r)
  PROVE  jobs[r] = Free /\ jobs'[r] # Free
<1>1. ASSUME NEW op \in Handlers, NEW a, NEW u, NEW statement, NEW copy, NEW ask,
             Decide(r, op, a, u, statement, copy, ask)
      PROVE  jobs[r] = Free /\ jobs'[r] # Free
  <2>1. jobs'[r].op = op  BY <1>1, DecideJob
  <2> QED BY <1>1, <2>1 DEF Decide, Handlers, Free
<1> QED
  BY <1>1 DEF Decision, Handlers, CreateUser, UpdateUser, DeleteUser, AdminResetPassword,
              ChangePassword, ForgotPassword, ResetPassword, UpdateUserPermissions

\* Every decision on a table in order leaves a job in order.
LEMMA DecisionMatched ==
  ASSUME TypeOK, MatchedInv, NEW r \in Requests, Decision(r)
  PROVE  Matched(jobs'[r].copy)
<1>0. \A u \in Users : rows[u] \in Rows /\ Matched(rows[u])
  BY DEF TypeOK, MatchedInv
<1>1. ASSUME NEW a \in Actors, NEW u \in Users, NEW e \in Emails, NEW role \in Roles,
             CreateUser(r, a, u, e, role)
      PROVE  Matched(jobs'[r].copy)
  <2>1. jobs'[r].copy = NewRow(e, role)
    BY <1>1, DecideJob DEF CreateUser
  <2> QED BY <2>1 DEF NewRow, Matched
<1>2. ASSUME NEW a \in Actors, NEW u \in Users, NEW c \in Changes, UpdateUser(r, a, u, c)
      PROVE  Matched(jobs'[r].copy)
  <2>1. jobs'[r].copy = Updated(rows[u], c)
    BY <1>2, DecideJob DEF UpdateUser
  <2> QED BY <1>0, <2>1 DEF Updated, Matched, Rows
<1>3. ASSUME NEW a \in Actors, NEW u \in Users, DeleteUser(r, a, u)
      PROVE  Matched(jobs'[r].copy)
  <2>1. jobs'[r].copy = [rows[u] EXCEPT !.status = "DELETED", !.email = Freed]
    BY <1>3, DecideJob DEF DeleteUser
  <2> QED BY <1>0, <2>1 DEF Matched, Rows
<1>4. ASSUME NEW a \in Actors, NEW u \in Users, AdminResetPassword(r, a, u)
      PROVE  Matched(jobs'[r].copy)
  <2>1. jobs'[r].copy = [rows[u] EXCEPT !.pw = "generated", !.temp = TRUE]
    BY <1>4, DecideJob DEF AdminResetPassword
  <2> QED BY <1>0, <2>1 DEF Matched, Rows
<1>5. ASSUME NEW a \in Actors, ChangePassword(r, a)
      PROVE  Matched(jobs'[r].copy)
  <2>1. jobs'[r].copy = [rows[a.id] EXCEPT !.pw = "chosen", !.temp = FALSE] /\ a.id \in Users
    BY <1>5, DecideJob DEF ChangePassword
  <2> QED BY <1>0, <2>1 DEF Matched, Rows
<1>6. ASSUME NEW u \in Users, ForgotPassword(r, u)
      PROVE  Matched(jobs'[r].copy)
  <2>1. jobs'[r].copy = [rows[u] EXCEPT !.token = tokens + 1]
    BY <1>6, DecideJob DEF ForgotPassword
  <2> QED BY <1>0, <2>1 DEF Matched, Rows
<1>7. ASSUME NEW u \in Users, ResetPassword(r, u)
      PROVE  Matched(jobs'[r].copy)
  <2>1. jobs'[r].copy = [rows[u] EXCEPT !.pw = "chosen", !.temp = FALSE, !.token = 0]
    BY <1>7, DecideJob DEF ResetPassword
  <2> QED BY <1>0, <2>1 DEF Matched, Rows
<1>8. ASSUME NEW a \in Actors, NEW u \in Users, NEW add, NEW remove,
             UpdateUserPermissions(r, a, u, add, remove)
      PROVE  Matched(jobs'[r].copy)
  <2>1. jobs'[r].copy = [rows[u] EXCEPT !.perms = (@ \cup add) \ remove]
    BY <1>8, DecideJob DEF UpdateUserPermissions
  <2> QED BY <1>0, <2>1 DEF Matched, Rows
<1> QED BY <1>1, <1>2, <1>3, <1>4, <1>5, <1>6, <1>7, <1>8 DEF Decision

LEMMA DecisionAppointed ==
  ASSUME TypeOK, AppointedInv, NEW r \in Requests, Decision(r)
  PROVE  Appointed(jobs'[r])
<1>0. \A u \in Users : /\ rows[u] \in Rows
                       /\ Exists(u) /\ rows[u].role = "SUPER_ADMIN" => u \in crowned
  BY DEF TypeOK, AppointedInv, SuperAdminsAreAppointed
<1>1. ASSUME NEW a \in Actors, NEW u \in Users, NEW e \in Emails, NEW role \in Roles,
             CreateUser(r, a, u, e, role)
      PROVE  Appointed(jobs'[r])
  <2>1. /\ jobs'[r].copy = NewRow(e, role)
        /\ jobs'[r].by = a
        /\ jobs'[r].ask = [NoAsk EXCEPT !.email = e, !.role = role]
    BY <1>1, DecideJob DEF CreateUser
  <2>2. role = "SUPER_ADMIN" => IsSuper(a)
    BY <1>1 DEF CreateUser
  <2> QED BY <2>1, <2>2 DEF NewRow, Appointed, NoAsk
<1>2. ASSUME NEW a \in Actors, NEW u \in Users, NEW c \in Changes, UpdateUser(r, a, u, c)
      PROVE  Appointed(jobs'[r])
  <2>1. /\ jobs'[r].copy = Updated(rows[u], c)
        /\ jobs'[r].by = a
        /\ jobs'[r].user = u
        /\ jobs'[r].ask = [NoAsk EXCEPT !.email = c.email, !.role = c.role, !.status = c.status]
    BY <1>2, DecideJob DEF UpdateUser
  <2>2. jobs'[r].copy.role = Or(c.role, rows[u].role) /\ jobs'[r].ask.role = c.role
    BY <1>0, <2>1 DEF Updated, Rows, NoAsk
  <2>3. Exists(u)
    BY <1>2 DEF UpdateUser, Exists
  <2>4. jobs'[r].copy.role # rows[u].role => MayChangeRole(a, rows[u].role, jobs'[r].copy.role)
    BY <1>2, <2>1 DEF UpdateUser
  <2> QED BY <1>0, <2>1, <2>2, <2>3, <2>4 DEF Appointed, MayChangeRole, Or
<1>3. ASSUME NEW u \in Users, Exists(u), jobs'[r].user = u, jobs'[r].copy.role = rows[u].role
      PROVE  Appointed(jobs'[r])
  BY <1>0, <1>3 DEF Appointed
<1>4. ASSUME NEW a \in Actors, NEW u \in Users, DeleteUser(r, a, u)
      PROVE  Appointed(jobs'[r])
  <2>1. jobs'[r].copy = [rows[u] EXCEPT !.status = "DELETED", !.email = Freed]
        /\ jobs'[r].user = u /\ Exists(u)
    BY <1>4, DecideJob DEF DeleteUser
  <2> QED BY <1>0, <1>3, <2>1 DEF Rows
<1>5. ASSUME NEW a \in Actors, NEW u \in Users, AdminResetPassword(r, a, u)
      PROVE  Appointed(jobs'[r])
  <2>1. jobs'[r].copy = [rows[u] EXCEPT !.pw = "generated", !.temp = TRUE]
        /\ jobs'[r].user = u /\ Exists(u)
    BY <1>5, DecideJob DEF AdminResetPassword
  <2> QED BY <1>0, <1>3, <2>1 DEF Rows
<1>6. ASSUME NEW a \in Actors, ChangePassword(r, a)
      PROVE  Appointed(jobs'[r])
  <2>1. jobs'[r].copy = [rows[a.id] EXCEPT !.pw = "chosen", !.temp = FALSE]
        /\ jobs'[r].user = a.id /\ a.id \in Users /\ Exists(a.id)
    BY <1>6, DecideJob DEF ChangePassword
  <2> QED BY <1>0, <1>3, <2>1 DEF Rows
<1>7. ASSUME NEW u \in Users, ForgotPassword(r, u)
      PROVE  Appointed(jobs'[r])
  <2>1. jobs'[r].copy = [rows[u] EXCEPT !.token = tokens + 1] /\ jobs'[r].user = u /\ Exists(u)
    BY <1>7, DecideJob DEF ForgotPassword, Exists
  <2> QED BY <1>0, <1>3, <2>1 DEF Rows
<1>8. ASSUME NEW u \in Users, ResetPassword(r, u)
      PROVE  Appointed(jobs'[r])
  <2>1. jobs'[r].copy = [rows[u] EXCEPT !.pw = "chosen", !.temp = FALSE, !.token = 0]
        /\ jobs'[r].user = u /\ Exists(u)
    BY <1>8, DecideJob DEF ResetPassword
  <2> QED BY <1>0, <1>3, <2>1 DEF Rows
<1>9. ASSUME NEW a \in Actors, NEW u \in Users, NEW add, NEW remove,
             UpdateUserPermissions(r, a, u, add, remove)
      PROVE  Appointed(jobs'[r])
  <2>1. jobs'[r].copy = [rows[u] EXCEPT !.perms = (@ \cup add) \ remove]
        /\ jobs'[r].user = u /\ Exists(u)
    BY <1>9, DecideJob DEF UpdateUserPermissions
  <2> QED BY <1>0, <1>3, <2>1 DEF Rows
<1> QED BY <1>1, <1>2, <1>4, <1>5, <1>6, <1>7, <1>8, <1>9 DEF Decision

LEMMA DecisionDoesAsked ==
  ASSUME NoMixedChanges, TypeOK, NEW r \in Requests, Decision(r)
  PROVE  DoesAsked(jobs'[r])
<1>0. \A u \in Users : rows[u] \in Rows
  BY DEF TypeOK
<1>1. ASSUME NEW a \in Actors, NEW u \in Users, NEW e \in Emails, NEW role \in Roles,
             CreateUser(r, a, u, e, role)
      PROVE  DoesAsked(jobs'[r])
  <2>1. /\ jobs'[r].copy = NewRow(e, role) /\ jobs'[r].statement = "insert" /\ jobs'[r].op = "create"
        /\ jobs'[r].ask = [NoAsk EXCEPT !.email = e, !.role = role]
    BY <1>1, DecideJob DEF CreateUser
  <2>2. jobs'[r].ask.email = e /\ jobs'[r].ask.role = role
    BY <2>1 DEF NoAsk
  <2> QED BY <2>1, <2>2 DEF DoesAsked, Written, Asked
<1>2. ASSUME NEW a \in Actors, NEW u \in Users, NEW c \in Changes, UpdateUser(r, a, u, c)
      PROVE  DoesAsked(jobs'[r])
  <2> DEFINE copy == Updated(rows[u], c)
             adminChange == copy.role # rows[u].role \/ copy.status # rows[u].status
  <2>1. /\ jobs'[r].copy = copy /\ jobs'[r].op = "update" /\ jobs'[r].base = rows[u]
        /\ jobs'[r].ask = [NoAsk EXCEPT !.email = c.email, !.role = c.role, !.status = c.status]
        /\ jobs'[r].statement = IF adminChange /\ ~ProfileChanged(c, copy) THEN "admin" ELSE "row"
    BY <1>2, DecideJob DEF UpdateUser
  <2>2. Asked("update", jobs'[r].ask, rows[u]) = copy
    BY <2>1 DEF NoAsk, Asked, Updated
  <2>3. CASE jobs'[r].statement = "row"
    BY <2>1, <2>2, <2>3 DEF DoesAsked, Written
  <2>4. CASE adminChange /\ ~ProfileChanged(c, copy)
    <3>1. c.email = Keep
      <4>1. c.role # Keep \/ c.status # Keep
        BY <1>0, <2>4 DEF Updated, Or, Rows
      <4> QED BY <2>4, <4>1 DEF NoMixedChanges, ProfileChanged
    <3>2. copy = [rows[u] EXCEPT !.role = copy.role, !.status = copy.status]
      BY <1>0, <3>1 DEF Updated, Or, Rows
    <3> QED BY <2>1, <2>2, <2>4, <3>2 DEF DoesAsked, Written
  <2> QED BY <2>1, <2>3, <2>4
<1>3. ASSUME NEW a \in Actors, NEW u \in Users, DeleteUser(r, a, u)
      PROVE  DoesAsked(jobs'[r])
  <2>1. /\ jobs'[r].copy = [rows[u] EXCEPT !.status = "DELETED", !.email = Freed]
        /\ jobs'[r].op = "delete" /\ jobs'[r].statement = "row" /\ jobs'[r].base = rows[u]
    BY <1>3, DecideJob DEF DeleteUser
  <2> QED BY <2>1 DEF DoesAsked, Written, Asked
<1>4. ASSUME NEW a \in Actors, NEW u \in Users, AdminResetPassword(r, a, u)
      PROVE  DoesAsked(jobs'[r])
  <2>1. /\ jobs'[r].copy = [rows[u] EXCEPT !.pw = "generated", !.temp = TRUE]
        /\ jobs'[r].op = "adminReset" /\ jobs'[r].statement = "row" /\ jobs'[r].base = rows[u]
    BY <1>4, DecideJob DEF AdminResetPassword
  <2> QED BY <2>1 DEF DoesAsked, Written, Asked
<1>5. ASSUME NEW a \in Actors, ChangePassword(r, a)
      PROVE  DoesAsked(jobs'[r])
  <2>1. /\ jobs'[r].copy = [rows[a.id] EXCEPT !.pw = "chosen", !.temp = FALSE]
        /\ jobs'[r].op = "change" /\ jobs'[r].statement = "row" /\ jobs'[r].base = rows[a.id]
    BY <1>5, DecideJob DEF ChangePassword
  <2> QED BY <2>1 DEF DoesAsked, Written, Asked
<1>6. ASSUME NEW u \in Users, ForgotPassword(r, u)
      PROVE  DoesAsked(jobs'[r])
  <2>1. /\ jobs'[r].copy = [rows[u] EXCEPT !.token = tokens + 1]
        /\ jobs'[r].op = "forgot" /\ jobs'[r].statement = "token" /\ jobs'[r].base = rows[u]
        /\ jobs'[r].ask = [NoAsk EXCEPT !.token = tokens + 1]
    BY <1>6, DecideJob DEF ForgotPassword
  <2>2. jobs'[r].copy.token = tokens + 1 /\ jobs'[r].ask.token = tokens + 1
    BY <1>0, <2>1 DEF Rows, NoAsk
  <2> QED BY <2>1, <2>2 DEF DoesAsked, Written, Asked
<1>7. ASSUME NEW u \in Users, ResetPassword(r, u)
      PROVE  DoesAsked(jobs'[r])
  <2>1. /\ jobs'[r].copy = [rows[u] EXCEPT !.pw = "chosen", !.temp = FALSE, !.token = 0]
        /\ jobs'[r].op = "reset" /\ jobs'[r].statement = "row" /\ jobs'[r].base = rows[u]
    BY <1>7, DecideJob DEF ResetPassword
  <2> QED BY <2>1 DEF DoesAsked, Written, Asked
<1>8. ASSUME NEW a \in Actors, NEW u \in Users, NEW add, NEW remove,
             UpdateUserPermissions(r, a, u, add, remove)
      PROVE  DoesAsked(jobs'[r])
  <2>1. /\ jobs'[r].copy = [rows[u] EXCEPT !.perms = (@ \cup add) \ remove]
        /\ jobs'[r].op = "permissions" /\ jobs'[r].statement = "permissions" /\ jobs'[r].base = rows[u]
        /\ jobs'[r].ask = [NoAsk EXCEPT !.add = add, !.remove = remove]
    BY <1>8, DecideJob DEF UpdateUserPermissions
  <2>2. /\ jobs'[r].copy.perms = (rows[u].perms \cup add) \ remove
        /\ jobs'[r].ask.add = add /\ jobs'[r].ask.remove = remove
    BY <1>0, <2>1 DEF Rows, NoAsk
  <2> QED BY <2>1, <2>2 DEF DoesAsked, Written, Asked
<1> QED BY <1>1, <1>2, <1>3, <1>4, <1>5, <1>6, <1>7, <1>8 DEF Decision

\* A statement on one row, and the slot it frees.
LEMMA ExecuteParts ==
  ASSUME TypeOK, NEW r \in Requests, Execute(r)
  PROVE  /\ jobs[r] \in Jobs /\ jobs[r] # Free
         /\ jobs[r].user \in Users /\ jobs[r].copy \in Rows
         /\ jobs' = [jobs EXCEPT ![r] = Free]
         /\ \A u \in Users \ {jobs[r].user} : rows'[u] = rows[u] /\ wanted'[u] = wanted[u]
         /\ rows'[jobs[r].user] = Written(jobs[r].statement, rows[jobs[r].user], jobs[r].copy)
         /\ crowned \subseteq crowned'
         /\ stale \subseteq stale'
BY DEF Execute, TypeOK, Jobs

\* A statement leaves role and status together, or takes both from the copy.
LEMMA WrittenRole ==
  ASSUME NEW statement, NEW old \in Rows, NEW copy \in Rows
  PROVE  LET new == Written(statement, old, copy) IN
         \/ new.role = old.role /\ new.status = old.status
         \/ new.role = copy.role /\ new.status = copy.status
BY DEF Written, Rows

\* And the same of the password and its flag.
LEMMA WrittenPassword ==
  ASSUME NEW statement, NEW old \in Rows, NEW copy \in Rows, Matched(old), Matched(copy)
  PROVE  Matched(Written(statement, old, copy))
BY DEF Written, Rows, Matched

\* A failed statement and an expiring token touch neither rows nor other slots.
LEMMA QuietStep ==
  ASSUME TypeOK, NEW r \in Requests,
         Fail(r) \/ (\E t \in (1..tokens) \ expired : ExpireToken(t)) \/ UNCHANGED vars
  PROVE  /\ UNCHANGED <<rows, wanted, stale, crowned>>
         /\ \A q \in Requests : jobs'[q] = jobs[q] \/ jobs'[q] = Free
BY DEF Fail, ExpireToken, vars, history, TypeOK

LEMMA MatchedStep == TypeOK /\ MatchedInv /\ [Next]_vars => MatchedInv'
<1> SUFFICES ASSUME TypeOK, MatchedInv, [Next]_vars PROVE MatchedInv'
  OBVIOUS
<1>1. ASSUME NEW r \in Requests, Decision(r) PROVE MatchedInv'
  <2>1. GoodDecision(r) /\ Matched(jobs'[r].copy)
    BY <1>1, DecisionType, DecisionMatched
  <2>2. rows' = rows /\ \A q \in Requests \ {r} : jobs'[q] = jobs[q]
    BY <2>1 DEF GoodDecision, TypeOK
  <2> QED BY <2>1, <2>2 DEF MatchedInv
<1>2. ASSUME NEW r \in Requests, Execute(r) PROVE MatchedInv'
  <2>1. Matched(rows'[jobs[r].user])
    <3>1. rows[jobs[r].user] \in Rows /\ Matched(rows[jobs[r].user]) /\ Matched(jobs[r].copy)
      BY <1>2, ExecuteParts DEF MatchedInv, TypeOK
    <3> QED BY <1>2, <3>1, ExecuteParts, WrittenPassword
  <2>2. \A q \in Requests : jobs'[q] # Free => jobs'[q] = jobs[q]
    BY <1>2, ExecuteParts DEF TypeOK
  <2> QED BY <1>2, <2>1, <2>2, ExecuteParts DEF MatchedInv
<1>3. ASSUME NEW r \in Requests,
             Fail(r) \/ (\E t \in (1..tokens) \ expired : ExpireToken(t)) \/ UNCHANGED vars
      PROVE  MatchedInv'
  BY <1>3, QuietStep DEF MatchedInv
<1>4. CASE Requests = {}
  BY <1>4 DEF MatchedInv, Next, ExpireToken, vars, history
<1> QED BY <1>1, <1>2, <1>3, <1>4 DEF Next

\* Spec => []TempFlagMatchesPassword: stale copies are written back all the time, but
\* the password and its flag always travel together.
THEOREM TempFlagCorrect == Spec => []TempFlagMatchesPassword
<1> DEFINE Inv == TypeOK /\ CreatesNamed /\ MatchedInv
<1>1. Init => Inv
  <2>1. Init => MatchedInv
    BY UserRowsAssumption DEF Init, MatchedInv, Matched
  <2> QED BY <2>1, TypeInit
<1>2. Inv /\ [Next]_vars => Inv'
  BY TypeStep, MatchedStep
<1>3. Inv => TempFlagMatchesPassword
  BY DEF MatchedInv, Matched, TempFlagMatchesPassword
<1> QED BY <1>1, <1>2, <1>3, PTL DEF Spec

LEMMA AppointedStep == TypeOK /\ AppointedInv /\ [Next]_vars => AppointedInv'
<1> SUFFICES ASSUME TypeOK, AppointedInv, [Next]_vars PROVE AppointedInv'
  OBVIOUS
<1> USE DEF AppointedInv, SuperAdminsAreAppointed
<1>1. ASSUME NEW r \in Requests, Decision(r) PROVE AppointedInv'
  <2>1. GoodDecision(r) /\ Appointed(jobs'[r])
    BY <1>1, DecisionType, DecisionAppointed
  <2>2. UNCHANGED <<rows, crowned>> /\ \A q \in Requests \ {r} : jobs'[q] = jobs[q]
    BY <2>1 DEF GoodDecision, TypeOK, history
  <2> QED BY <2>1, <2>2 DEF Appointed, Exists
<1>2. ASSUME NEW r \in Requests, Execute(r) PROVE AppointedInv'
  <2>1. \A q \in Requests : jobs'[q] # Free => jobs'[q] = jobs[q] /\ Appointed(jobs[q])'
    <3>1. \A q \in Requests : jobs'[q] # Free => jobs'[q] = jobs[q]
      BY <1>2, ExecuteParts DEF TypeOK
    <3> QED BY <1>2, <3>1, ExecuteParts DEF Appointed
  <2>2. ASSUME NEW u \in Users, Exists(u)', rows'[u].role = "SUPER_ADMIN"
        PROVE  u \in crowned'
    <3>1. CASE u # jobs[r].user
      BY <1>2, <2>2, <3>1, ExecuteParts DEF Exists
    <3>2. CASE u = jobs[r].user
      <4>1. /\ rows'[u] = Written(jobs[r].statement, rows[u], jobs[r].copy)
            /\ rows[u] \in Rows /\ jobs[r].copy \in Rows
        BY <1>2, <3>2, ExecuteParts DEF TypeOK
      <4>2. CASE rows'[u].role = rows[u].role /\ rows'[u].status = rows[u].status
        BY <1>2, <2>2, <4>2, ExecuteParts DEF Exists
      <4>3. CASE rows'[u].role = jobs[r].copy.role /\ rows'[u].status = jobs[r].copy.status
        <5>1. u \in crowned \/ (IsSuper(jobs[r].by) /\ jobs[r].ask.role = "SUPER_ADMIN")
          BY <1>2, <2>2, <3>2, <4>3, ExecuteParts DEF Appointed, Exists
        <5> QED BY <1>2, <3>2, <5>1 DEF Execute
      <4> QED BY <4>1, <4>2, <4>3, WrittenRole
    <3> QED BY <3>1, <3>2
  <2> QED BY <2>1, <2>2
<1>3. ASSUME NEW r \in Requests,
             Fail(r) \/ (\E t \in (1..tokens) \ expired : ExpireToken(t)) \/ UNCHANGED vars
      PROVE  AppointedInv'
  BY <1>3, QuietStep DEF Appointed, Exists
<1>4. CASE Requests = {}
  BY <1>4 DEF Exists, Next, ExpireToken, vars, history
<1> QED BY <1>1, <1>2, <1>3, <1>4 DEF Next

\* Spec => []SuperAdminsAreAppointed: a stale copy can restore the role to someone who
\* had it, and never gives it to anyone else.
THEOREM SuperAdminsCorrect == Spec => []SuperAdminsAreAppointed
<1> DEFINE Inv == TypeOK /\ CreatesNamed /\ AppointedInv
<1>1. Init => Inv
  <2>1. Init => AppointedInv
    BY DEF Init, AppointedInv, SuperAdminsAreAppointed
  <2> QED BY <2>1, TypeInit
<1>2. Inv /\ [Next]_vars => Inv'
  BY TypeStep, AppointedStep
<1>3. Inv => SuperAdminsAreAppointed
  BY DEF AppointedInv
<1> QED BY <1>1, <1>2, <1>3, PTL DEF Spec

LEMMA SerialStep == NoMixedChanges /\ TypeOK /\ SerialInv /\ [Next]_vars => SerialInv'
<1> SUFFICES ASSUME NoMixedChanges, TypeOK, SerialInv, [Next]_vars PROVE SerialInv'
  OBVIOUS
<1> USE DEF SerialInv, SerialUnlessStale
<1>1. ASSUME NEW r \in Requests, Decision(r) PROVE SerialInv'
  <2>1. GoodDecision(r) /\ DoesAsked(jobs'[r])
    BY <1>1, DecisionType, DecisionDoesAsked
  <2>2. UNCHANGED <<rows, wanted, stale>> /\ \A q \in Requests \ {r} : jobs'[q] = jobs[q]
    BY <2>1 DEF GoodDecision, TypeOK, history
  <2> QED BY <2>1, <2>2 DEF DoesAsked
<1>2. ASSUME NEW r \in Requests, Execute(r) PROVE SerialInv'
  <2>1. \A q \in Requests : jobs'[q] # Free => jobs'[q] = jobs[q]
    BY <1>2, ExecuteParts DEF TypeOK
  <2>2. ASSUME NEW u \in Users, u \notin stale'
        PROVE  rows'[u] = wanted'[u]
    <3>1. CASE u # jobs[r].user
      BY <1>2, <2>2, <3>1, ExecuteParts
    <3>2. CASE u = jobs[r].user
      <4>1. u \notin stale /\ jobs[r].base = rows[u]
        BY <1>2, <2>2, <3>2 DEF Execute
      <4>2. wanted'[u] = Asked(jobs[r].op, jobs[r].ask, wanted[u])
        BY <1>2, <3>2, <4>1 DEF Execute, TypeOK
      <4> QED BY <1>2, <3>2, <4>1, <4>2, ExecuteParts DEF DoesAsked
    <3> QED BY <3>1, <3>2
  <2> QED BY <2>1, <2>2 DEF DoesAsked
<1>3. ASSUME NEW r \in Requests,
             Fail(r) \/ (\E t \in (1..tokens) \ expired : ExpireToken(t)) \/ UNCHANGED vars
      PROVE  SerialInv'
  BY <1>3, QuietStep DEF DoesAsked
<1>4. CASE Requests = {}
  BY <1>4 DEF Next, ExpireToken, vars, history
<1> QED BY <1>1, <1>2, <1>3, <1>4 DEF Next

\* If no update asks for a role or status and an address but no name, then
\* Spec => []SerialUnlessStale: the only way to lose, keep or bring back a change is a
\* statement decided on an older row.
THEOREM SerialCorrect == ASSUME NoMixedChanges PROVE Spec => []SerialUnlessStale
<1> DEFINE Inv == TypeOK /\ CreatesNamed /\ SerialInv
<1>1. Init => Inv
  <2>1. Init => SerialInv
    BY DEF Init, SerialInv, SerialUnlessStale
  <2> QED BY <2>1, TypeInit
<1>2. Inv /\ [Next]_vars => Inv'
  BY NoMixedChanges, TypeStep, SerialStep
<1>3. Inv => SerialUnlessStale
  BY DEF SerialInv
<1> QED BY <1>1, <1>2, <1>3, PTL DEF Spec

-----------------------------------------------------------------------------
(* Refinement.  A job in flight must be one that AccountRules allows of the *)
(* row it was decided on: if that is still the row when the statement runs, *)
(* the statement is the request handled in one step.                        *)

LawfulJob(j) ==
  /\ Rules!Lawful(j.by, j.user, j.base, Written(j.statement, j.base, j.copy))
  /\ j.copy.status # "ABSENT"
  /\ j.statement # "insert" => Exists(j.user)

LawfulInv == \A r \in Requests : jobs[r] # Free => LawfulJob(jobs[r])

\* A decision on a row that exists leaves a job that may run when what it writes is lawful.
LEMMA DecideLawful ==
  ASSUME TypeOK, NEW r \in Requests, NEW op, NEW a, NEW u, NEW statement, NEW copy, NEW ask,
         Decide(r, op, a, u, statement, copy, ask),
         Rules!Lawful(a, u, rows[u], Written(statement, rows[u], copy)),
         copy.status # "ABSENT", statement # "insert" => Exists(u)
  PROVE  LawfulJob(jobs'[r])
BY DecideJob DEF LawfulJob

\* The one promotion a CHIEF_OFFICER may make.
LEMMA PromotionFact ==
  ASSUME NEW a, a.role \in Roles, NEW from \in Roles, NEW to \in Roles, MayChangeRole(a, from, to)
  PROVE  Rules!MayAppoint(a, from, to)
BY DEF MayChangeRole, Rules!MayAppoint, Rules!Super, IsSuper, Level, Roles

LEMMA UpdateLawful ==
  ASSUME TypeOK, NEW r \in Requests, NEW a \in Actors, NEW u \in Users, NEW c \in Changes,
         UpdateUser(r, a, u, c)
  PROVE  LawfulJob(jobs'[r])
<1> DEFINE row == rows[u]
           copy == Updated(row, c)
           ask == [NoAsk EXCEPT !.email = c.email, !.role = c.role, !.status = c.status]
<1>1. row \in Rows /\ copy \in Rows
  BY UpdatedType DEF TypeOK
<1>2. PICK statement \in {"admin", "row"} : Decide(r, "update", a, u, statement, copy, ask)
  BY DEF UpdateUser
<1> DEFINE new == Written(statement, row, copy)
<1>3. /\ copy.role = Or(c.role, row.role)
      /\ copy.status = Or(c.status, row.status)
      /\ copy = [row EXCEPT !.email = copy.email, !.role = copy.role, !.status = copy.status]
  BY <1>1 DEF Updated, Rows
<1>4. /\ new.role = copy.role /\ new.status = copy.status
      /\ new = [row EXCEPT !.email = new.email, !.role = new.role, !.status = new.status]
  BY <1>1, <1>3 DEF Written, Rows
<1>5. row.status \notin {"ABSENT", "DELETED"} /\ Rules!Holds(a, "user:update")
  BY DEF UpdateUser, Can, IsSuper, Rules!Holds, Rules!Super
<1>6. new.role # row.role => a.id # u /\ Rules!MayAppoint(a, row.role, new.role)
  <2> SUFFICES ASSUME copy.role # row.role
               PROVE  a.id # u /\ Rules!MayAppoint(a, row.role, copy.role)
    BY <1>4
  <2>1. c.role # Keep
    BY <1>3 DEF Or
  <2>2. a.id # u /\ MayChangeRole(a, row.role, copy.role)
    BY <2>1 DEF UpdateUser
  <2> QED BY <1>1, <2>2, PromotionFact, UserRowsAssumption DEF Rows
<1>7. new.status # row.status => a.id # u /\ (new.status \in {"DISABLED", "DELETED"} => Rules!Super(a))
  <2> SUFFICES ASSUME copy.status # row.status
               PROVE  a.id # u /\ (copy.status \in {"DISABLED", "DELETED"} => Rules!Super(a))
    BY <1>4
  <2>1. c.status # Keep /\ copy.status = c.status
    BY <1>3 DEF Or
  <2> QED BY <2>1 DEF UpdateUser, IsSuper, Rules!Super
<1>8. Rules!Edit(a, u, row, new)
  BY <1>4, <1>5, <1>6, <1>7 DEF Rules!Edit
<1>9. Rules!Lawful(a, u, row, new)
  BY <1>8 DEF Rules!Lawful
<1>10. copy.status # "ABSENT"
  BY <1>3, <1>5, ChangeType, UserRowsAssumption DEF Or, Statuses
<1>11. Exists(u)
  BY <1>5 DEF Exists
<1> HIDE DEF copy, ask
<1> QED BY <1>2, <1>9, <1>10, <1>11, DecideLawful

LEMMA DecisionLawful ==
  ASSUME TypeOK, NEW r \in Requests, Decision(r)
  PROVE  LawfulJob(jobs'[r])
<1>0. \A u \in Users : rows[u] \in Rows
  BY DEF TypeOK
<1> USE DEF Rules!Holds, Rules!Super, Can, IsSuper, Exists, Written
<1>1. ASSUME NEW a \in Actors, NEW u \in Users, NEW e \in Emails, NEW role \in Roles,
             CreateUser(r, a, u, e, role)
      PROVE  LawfulJob(jobs'[r])
  <2>1. Rules!Register(a, rows[u], NewRow(e, role))
    BY <1>1 DEF CreateUser, FreshId, NewRow, Rules!Register
  <2>2. Rules!Lawful(a, u, rows[u], NewRow(e, role))
    BY <2>1 DEF Rules!Lawful
  <2>3. NewRow(e, role).status # "ABSENT"
    BY DEF NewRow
  <2>4. PICK ask : Decide(r, "create", a, u, "insert", NewRow(e, role), ask)
    BY <1>1 DEF CreateUser
  <2> QED BY <2>2, <2>3, <2>4, DecideLawful
<1>2. ASSUME NEW a \in Actors, NEW u \in Users, NEW c \in Changes, UpdateUser(r, a, u, c)
      PROVE  LawfulJob(jobs'[r])
  BY <1>2, UpdateLawful
<1>3. ASSUME NEW a \in Actors, NEW u \in Users, DeleteUser(r, a, u)
      PROVE  LawfulJob(jobs'[r])
  <2> DEFINE new == [rows[u] EXCEPT !.status = "DELETED", !.email = Freed]
  <2>1. Rules!Remove(a, u, rows[u], new) /\ new.status # "ABSENT"
    BY <1>0, <1>3 DEF DeleteUser, Rules!Remove, Rows
  <2>2. Rules!Lawful(a, u, rows[u], new)
    BY <2>1 DEF Rules!Lawful
  <2> QED BY <1>3, <2>1, <2>2, DecideLawful DEF DeleteUser
<1>4. ASSUME NEW a \in Actors, NEW u \in Users, AdminResetPassword(r, a, u)
      PROVE  LawfulJob(jobs'[r])
  <2> DEFINE new == [rows[u] EXCEPT !.pw = "generated", !.temp = TRUE]
  <2>1. Rules!Renew(a, rows[u], new) /\ new.status # "ABSENT"
    BY <1>0, <1>4 DEF AdminResetPassword, Rules!Renew, Rows
  <2>2. Rules!Lawful(a, u, rows[u], new)
    BY <2>1 DEF Rules!Lawful
  <2> QED BY <1>4, <2>1, <2>2, DecideLawful DEF AdminResetPassword
<1>5. ASSUME NEW a \in Actors, ChangePassword(r, a)
      PROVE  LawfulJob(jobs'[r])
  <2> DEFINE new == [rows[a.id] EXCEPT !.pw = "chosen", !.temp = FALSE]
  <2>1. Rules!Choose(a, a.id, rows[a.id], new) /\ new.status # "ABSENT"
    BY <1>0, <1>5 DEF ChangePassword, Rules!Choose, Rows
  <2>2. Rules!Lawful(a, a.id, rows[a.id], new)
    BY <2>1 DEF Rules!Lawful
  <2> QED BY <1>5, <2>1, <2>2, DecideLawful DEF ChangePassword
<1>6. ASSUME NEW u \in Users, ForgotPassword(r, u)
      PROVE  LawfulJob(jobs'[r])
  <2> DEFINE copy == [rows[u] EXCEPT !.token = tokens + 1]
             ask == [NoAsk EXCEPT !.token = tokens + 1]
  <2>1. tokens + 1 # 0 /\ copy.token = tokens + 1
    BY <1>0, UserRowsAssumption DEF TypeOK, Rows
  <2>2. Rules!Forget(rows[u], copy) /\ copy.status # "ABSENT"
    BY <1>0, <1>6, <2>1 DEF ForgotPassword, Rules!Forget, Rows
  <2>3. Written("token", rows[u], copy) = copy
    BY <2>1
  <2>4. Rules!Lawful(Anyone, u, rows[u], Written("token", rows[u], copy))
    BY <2>2, <2>3 DEF Rules!Lawful
  <2>5. Decide(r, "forgot", Anyone, u, "token", copy, ask) /\ Exists(u)
    BY <1>6 DEF ForgotPassword
  <2> HIDE DEF copy, ask
  <2> QED BY <2>2, <2>4, <2>5, DecideLawful
<1>7. ASSUME NEW u \in Users, ResetPassword(r, u)
      PROVE  LawfulJob(jobs'[r])
  <2> DEFINE new == [rows[u] EXCEPT !.pw = "chosen", !.temp = FALSE, !.token = 0]
  <2>1. Rules!Recover(rows[u], new) /\ new.status # "ABSENT"
    BY <1>0, <1>7 DEF ResetPassword, Rules!Recover, Rows
  <2>2. Rules!Lawful(Anyone, u, rows[u], new)
    BY <2>1 DEF Rules!Lawful
  <2> QED BY <1>7, <2>1, <2>2, DecideLawful DEF ResetPassword
<1>8. ASSUME NEW a \in Actors, NEW u \in Users, NEW add, NEW remove,
             UpdateUserPermissions(r, a, u, add, remove)
      PROVE  LawfulJob(jobs'[r])
  <2> DEFINE copy == [rows[u] EXCEPT !.perms = (@ \cup add) \ remove]
             ask == [NoAsk EXCEPT !.add = add, !.remove = remove]
  <2>1. copy.perms = (rows[u].perms \cup add) \ remove
    BY <1>0 DEF Rows
  <2>2. Rules!Delegate(a, u, rows[u], copy) /\ copy.status # "ABSENT"
    BY <1>0, <1>8, <2>1 DEF UpdateUserPermissions, Rules!Delegate, Rows
  <2>3. Written("permissions", rows[u], copy) = copy
    BY <2>1
  <2>4. Rules!Lawful(a, u, rows[u], Written("permissions", rows[u], copy))
    BY <2>2, <2>3 DEF Rules!Lawful
  <2>5. Decide(r, "permissions", a, u, "permissions", copy, ask) /\ Exists(u)
    BY <1>8 DEF UpdateUserPermissions
  <2> HIDE DEF copy, ask
  <2> QED BY <2>2, <2>4, <2>5, DecideLawful
<1> QED BY <1>1, <1>2, <1>3, <1>4, <1>5, <1>6, <1>7, <1>8 DEF Decision

\* A statement never makes a row vanish.
LEMMA ExecuteExists ==
  ASSUME TypeOK, LawfulInv, NEW r \in Requests, Execute(r)
  PROVE  /\ rows'[jobs[r].user].status # "ABSENT"
         /\ \A u \in Users : Exists(u) => Exists(u)'
<1>1. rows[jobs[r].user] \in Rows
  BY ExecuteParts DEF TypeOK
<1>2. LawfulJob(jobs[r]) /\ jobs[r].copy \in Rows
  BY ExecuteParts DEF LawfulInv
<1>3. Written(jobs[r].statement, rows[jobs[r].user], jobs[r].copy).status # "ABSENT"
  BY <1>1, <1>2 DEF LawfulJob, Exists, Written, Rows
<1> QED BY <1>3, ExecuteParts DEF Exists

LEMMA LawfulStep == TypeOK /\ LawfulInv /\ [Next]_vars => LawfulInv'
<1> SUFFICES ASSUME TypeOK, LawfulInv, [Next]_vars PROVE LawfulInv'
  OBVIOUS
<1>0. ASSUME \A q \in Requests : jobs'[q] # Free => jobs'[q] = jobs[q],
             \A u \in Users : Exists(u) => Exists(u)'
      PROVE  LawfulInv'
  <2> SUFFICES ASSUME NEW q \in Requests, jobs'[q] # Free
               PROVE  LawfulJob(jobs[q])'
    BY DEF LawfulInv
  <2>1. jobs'[q] = jobs[q] /\ LawfulJob(jobs[q]) /\ jobs[q].user \in Users
    BY <1>0 DEF LawfulInv, TypeOK, Jobs
  <2> QED BY <1>0, <2>1 DEF LawfulJob
<1>1. ASSUME NEW r \in Requests, Decision(r) PROVE LawfulInv'
  <2>1. GoodDecision(r) /\ LawfulJob(jobs'[r])
    BY <1>1, DecisionType, DecisionLawful
  <2>2. rows' = rows /\ \A q \in Requests \ {r} : jobs'[q] = jobs[q]
    BY <2>1 DEF GoodDecision, TypeOK
  <2> QED BY <2>1, <2>2 DEF LawfulInv, LawfulJob, Exists
<1>2. ASSUME NEW r \in Requests, Execute(r) PROVE LawfulInv'
  <2>1. \A q \in Requests : jobs'[q] # Free => jobs'[q] = jobs[q]
    BY <1>2, ExecuteParts DEF TypeOK
  <2> QED BY <1>0, <1>2, <2>1, ExecuteExists
<1>3. ASSUME NEW r \in Requests,
             Fail(r) \/ (\E t \in (1..tokens) \ expired : ExpireToken(t)) \/ UNCHANGED vars
      PROVE  LawfulInv'
  BY <1>0, <1>3, QuietStep DEF Exists
<1>4. CASE Requests = {}
  BY <1>4 DEF LawfulInv
<1> QED BY <1>1, <1>2, <1>3, <1>4 DEF Next

\* A statement is a change of its row, lawful now if the row is the one it was decided on.
LEMMA ExecuteFollowsRules ==
  ASSUME TypeOK, LawfulInv, NEW r \in Requests, Execute(r)
  PROVE  Rules!Serve(r)
<1> DEFINE u == jobs[r].user
           new == Written(jobs[r].statement, rows[u], jobs[r].copy)
<1>1. /\ u \in Users
      /\ rows'[u] = new
      /\ \A v \in Users \ {u} : rows'[v] = rows[v]
  BY ExecuteParts
<1>2. rows'[u].status # "ABSENT"
  BY ExecuteExists
<1>3. \A v \in Users \ {u} : rows[v].status # "ABSENT" => rows'[u].email = Freed \/ rows'[u].email # rows[v].email
  <2>1. Unique(u, new.email)
    BY DEF Execute
  <2> QED BY <1>1, <2>1 DEF Unique, EmailTaken, Exists
<1>4. Asking[r] = [by |-> jobs[r].by, user |-> u] /\ Asking[r] \in Rules!Pending
  BY DEF Execute, Asking, TypeOK, Jobs, Rules!Pending
<1>5. Asking' = [Asking EXCEPT ![r] = Free]
  BY ExecuteParts DEF Asking, TypeOK
<1>6. Rules!Change(jobs[r].by, u) \/ Rules!Spoil(u)
  <2>1. CASE jobs[r].base = rows[u]
    <3>1. Rules!Lawful(jobs[r].by, u, rows[u], new)
      BY <2>1, ExecuteParts DEF LawfulInv, LawfulJob
    <3>2. stale' = stale
      BY <2>1 DEF Execute
    <3> QED BY <1>1, <3>1, <3>2 DEF Rules!Change
  <2>2. CASE jobs[r].base # rows[u]
    BY <2>2 DEF Execute, Rules!Spoil
  <2> QED BY <2>1, <2>2
<1> QED BY <1>1, <1>2, <1>3, <1>4, <1>5, <1>6 DEF Rules!Serve

\* A decision asks, and a statement that fails is a refusal.
LEMMA DecisionAsks ==
  ASSUME TypeOK, NEW r \in Requests, Decision(r)
  PROVE  Rules!Ask(r)
<1>1. GoodDecision(r) /\ jobs[r] = Free /\ jobs'[r] # Free
  BY DecisionType, DecisionFills
<1> DEFINE q == [by |-> jobs'[r].by, user |-> jobs'[r].user]
<1>2. q \in Rules!Pending
  BY <1>1 DEF GoodDecision, Jobs, Rules!Pending
<1>3. Asking[r] = Free /\ Asking' = [Asking EXCEPT ![r] = q]
  BY <1>1 DEF GoodDecision, Asking, TypeOK
<1> HIDE DEF q
<1> QED BY <1>1, <1>2, <1>3 DEF GoodDecision, history, Rules!Ask

LEMMA FailRefuses ==
  ASSUME TypeOK, NEW r \in Requests, Fail(r)
  PROVE  Rules!Refuse(r)
<1>1. Asking[r] \in Rules!Pending
  BY DEF Fail, Asking, TypeOK, Jobs, Rules!Pending
<1>2. Asking' = [Asking EXCEPT ![r] = Free]
  BY DEF Fail, Asking, TypeOK
<1> QED BY <1>1, <1>2 DEF Fail, history, Rules!Refuse

LEMMA RulesStep == TypeOK /\ LawfulInv /\ [Next]_vars => [Rules!Next]_(Rules!vars)
<1> SUFFICES ASSUME TypeOK, LawfulInv, [Next]_vars PROVE Rules!Next \/ UNCHANGED Rules!vars
  OBVIOUS
<1>1. ASSUME NEW r \in Requests, Decision(r) PROVE Rules!Next
  BY <1>1, DecisionAsks DEF Rules!Next
<1>2. ASSUME NEW r \in Requests, Execute(r) PROVE Rules!Next
  BY <1>2, ExecuteFollowsRules DEF Rules!Next
<1>3. ASSUME NEW r \in Requests, Fail(r) PROVE Rules!Next
  BY <1>3, FailRefuses DEF Rules!Next
<1>4. CASE (\E t \in (1..tokens) \ expired : ExpireToken(t)) \/ UNCHANGED vars
  BY <1>4 DEF ExpireToken, vars, history, Rules!vars, Asking
<1> QED BY <1>1, <1>2, <1>3, <1>4 DEF Next

\* The handlers implement AccountRules: a statement on the row it was decided on is a change
\* that whoever asked may make of that row, whatever ran in between; no statement touches
\* another account, makes one vanish or gives it an address in use.
THEOREM RowsFollowRules == Spec => ImplementsRules
<1> DEFINE Inv == TypeOK /\ CreatesNamed /\ LawfulInv
<1>1. Init => Inv /\ Rules!Init
  BY TypeInit DEF Init, LawfulInv, Rules!Init, Asking
<1>2. Inv /\ [Next]_vars => Inv'
  BY TypeStep, LawfulStep
<1>3. Inv /\ [Next]_vars => [Rules!Next]_(Rules!vars)
  BY RulesStep
<1> QED BY <1>1, <1>2, <1>3, PTL DEF Spec, ImplementsRules, Rules!Spec

-----------------------------------------------------------------------------
(* Updates that ask for an address.                                        *)

\* The statement writes the address that was asked for.
WritesAddress(j) ==
  j.op = "update" /\ j.ask.email # Keep => j.statement = "row" /\ j.copy.email = j.ask.email

AddressInv == \A r \in Requests : jobs[r] # Free => WritesAddress(jobs[r])

LEMMA DecisionWritesAddress ==
  ASSUME NoMixedChanges, TypeOK, NEW r \in Requests, Decision(r)
  PROVE  WritesAddress(jobs'[r])
<1>1. ASSUME NEW a \in Actors, NEW u \in Users, NEW c \in Changes, UpdateUser(r, a, u, c)
      PROVE  WritesAddress(jobs'[r])
  <2> DEFINE copy == Updated(rows[u], c)
             adminChange == copy.role # rows[u].role \/ copy.status # rows[u].status
  <2>1. /\ jobs'[r].copy = copy
        /\ jobs'[r].ask = [NoAsk EXCEPT !.email = c.email, !.role = c.role, !.status = c.status]
        /\ jobs'[r].statement = IF adminChange /\ ~ProfileChanged(c, copy) THEN "admin" ELSE "row"
    BY <1>1, DecideJob DEF UpdateUser
  <2>2. rows[u] \in Rows
    BY DEF TypeOK
  <2>3. jobs'[r].ask.email = c.email
    BY <2>1 DEF NoAsk
  <2>4. c.email # Keep /\ ~c.profile => ~adminChange
    BY <2>2 DEF NoMixedChanges, Updated, Or, Rows
  <2>5. c.email # Keep => copy.email = c.email
    BY <2>2 DEF Updated, Or, Rows
  <2> HIDE DEF copy, adminChange
  <2> QED BY <2>1, <2>3, <2>4, <2>5 DEF WritesAddress, ProfileChanged
<1>2. ASSUME NEW op, op # "update", NEW a, NEW u, NEW statement, NEW copy, NEW ask,
             Decide(r, op, a, u, statement, copy, ask)
      PROVE  WritesAddress(jobs'[r])
  BY <1>2, DecideJob DEF WritesAddress
<1> QED
  BY <1>1, <1>2 DEF Decision, CreateUser, DeleteUser, AdminResetPassword, ChangePassword,
                    ForgotPassword, ResetPassword, UpdateUserPermissions

LEMMA AddressStep == NoMixedChanges /\ TypeOK /\ AddressInv /\ [Next]_vars => AddressInv'
<1> SUFFICES ASSUME NoMixedChanges, TypeOK, AddressInv, [Next]_vars PROVE AddressInv'
  OBVIOUS
<1>1. ASSUME NEW r \in Requests, Decision(r) PROVE AddressInv'
  <2>1. WritesAddress(jobs'[r])
    BY <1>1, DecisionWritesAddress
  <2>2. \A q \in Requests \ {r} : jobs'[q] = jobs[q]
    BY <1>1, DecisionType DEF GoodDecision, TypeOK
  <2> QED BY <2>1, <2>2 DEF AddressInv, WritesAddress
<1>2. ASSUME \A q \in Requests : jobs'[q] = jobs[q] \/ jobs'[q] = Free PROVE AddressInv'
  BY <1>2 DEF AddressInv, WritesAddress
<1>3. ASSUME NEW r \in Requests, Execute(r) PROVE AddressInv'
  BY <1>2, <1>3, ExecuteParts DEF TypeOK
<1>4. ASSUME NEW r \in Requests,
             Fail(r) \/ (\E t \in (1..tokens) \ expired : ExpireToken(t)) \/ UNCHANGED vars
      PROVE  AddressInv'
  BY <1>2, <1>4, QuietStep
<1>5. CASE Requests = {}
  BY <1>5 DEF AddressInv
<1> QED BY <1>1, <1>3, <1>4, <1>5 DEF Next

\* MixedUpdatesStored fails for one kind of request only: if no update asks for an address and
\* a role or status and leaves the name out, every update that is answered with success
\* stores the address it asked for.
THEOREM UnmixedUpdatesStored == ASSUME NoMixedChanges PROVE Spec => MixedUpdatesStored
<1> DEFINE Inv == TypeOK /\ CreatesNamed /\ AddressInv
           Stores == \A r \in Requests :
                       /\ jobs[r] # Free
                       /\ jobs[r].op = "update"
                       /\ jobs[r].ask.email # Keep
                       /\ Execute(r)
                       => rows'[jobs[r].user].email = jobs[r].ask.email
<1>1. Init => Inv
  BY TypeInit DEF Init, AddressInv
<1>2. Inv /\ [Next]_vars => Inv'
  BY NoMixedChanges, TypeStep, AddressStep
<1>3. Inv => Stores
  BY ExecuteParts DEF AddressInv, WritesAddress, Written
<1> QED BY <1>1, <1>2, <1>3, PTL DEF Spec, MixedUpdatesStored

-----------------------------------------------------------------------------
(* Requests that keep apart.                                               *)

\* No two requests are between decision and statement on one row.
Apart ==
  \A q, r \in Requests : jobs[q] # Free /\ jobs[r] # Free /\ jobs[q].user = jobs[r].user => q = r

CurrentInv ==
  /\ stale = {}
  /\ \A r \in Requests : jobs[r] # Free => jobs[r].base = rows[jobs[r].user]

LEMMA DecisionCurrent ==
  ASSUME TypeOK, NEW r \in Requests, Decision(r)
  PROVE  jobs'[r].base = rows[jobs'[r].user]
<1>1. ASSUME NEW op, NEW a, NEW u, NEW statement, NEW copy, NEW ask,
             Decide(r, op, a, u, statement, copy, ask)
      PROVE  jobs'[r].base = rows[jobs'[r].user]
  BY <1>1, DecideJob
<1> QED
  BY <1>1 DEF Decision, CreateUser, UpdateUser, DeleteUser, AdminResetPassword,
              ChangePassword, ForgotPassword, ResetPassword, UpdateUserPermissions

LEMMA CurrentStep == TypeOK /\ CurrentInv /\ Apart /\ [Next]_vars => CurrentInv'
<1> SUFFICES ASSUME TypeOK, CurrentInv, Apart, [Next]_vars PROVE CurrentInv'
  OBVIOUS
<1>1. ASSUME NEW r \in Requests, Decision(r) PROVE CurrentInv'
  <2>1. GoodDecision(r) /\ jobs'[r].base = rows[jobs'[r].user]
    BY <1>1, DecisionType, DecisionCurrent
  <2>2. rows' = rows /\ stale' = stale /\ \A q \in Requests \ {r} : jobs'[q] = jobs[q]
    BY <2>1 DEF GoodDecision, history, TypeOK
  <2> QED BY <2>1, <2>2 DEF CurrentInv
<1>2. ASSUME NEW r \in Requests, Execute(r) PROVE CurrentInv'
  <2>1. stale' = {}
    BY <1>2 DEF Execute, CurrentInv
  <2>2. ASSUME NEW q \in Requests, jobs'[q] # Free
        PROVE  jobs'[q].base = rows'[jobs'[q].user]
    <3>1. q # r /\ jobs'[q] = jobs[q] /\ jobs[r] # Free
      BY <1>2, <2>2, ExecuteParts DEF TypeOK
    <3>2. jobs[q].user \in Users \ {jobs[r].user}
      BY <2>2, <3>1 DEF Apart, TypeOK, Jobs
    <3> QED BY <1>2, <2>2, <3>1, <3>2, ExecuteParts DEF CurrentInv
  <2> QED BY <2>1, <2>2 DEF CurrentInv
<1>3. ASSUME NEW r \in Requests,
             Fail(r) \/ (\E t \in (1..tokens) \ expired : ExpireToken(t)) \/ UNCHANGED vars
      PROVE  CurrentInv'
  BY <1>3, QuietStep DEF CurrentInv
<1>4. CASE Requests = {}
  BY <1>4 DEF Next, ExpireToken, vars, history, CurrentInv
<1> QED BY <1>1, <1>2, <1>3, <1>4 DEF Next

\* Requests for different rows may interleave at will: as long as no two are between decision
\* and statement on the same one, and no update is mixed, the table is what the answered
\* requests asked for.  All that is ever lost, kept or brought back is so by two on one row.
THEOREM ApartIsSerial ==
  ASSUME NoMixedChanges
  PROVE  Spec /\ []Apart => [](stale = {} /\ rows = wanted)
<1> DEFINE Inv == TypeOK /\ CreatesNamed /\ SerialInv /\ CurrentInv
<1>1. Init => Inv
  BY TypeInit DEF Init, SerialInv, SerialUnlessStale, CurrentInv
<1>2. Inv /\ Apart /\ [Next]_vars => Inv'
  BY NoMixedChanges, TypeStep, SerialStep, CurrentStep
<1>3. Inv => stale = {} /\ rows = wanted
  BY DEF SerialInv, SerialUnlessStale, CurrentInv, TypeOK
<1> QED BY <1>1, <1>2, <1>3, PTL DEF Spec
=============================================================================
