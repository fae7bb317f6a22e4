----------------------------- MODULE Delegation -----------------------------
(***************************************************************************)
(* Effective permissions: how they are computed from an account's row, its *)
(* role and the dictionary (GetUserPermissions, internal/rbac/service.go), *)
(* put into the claims of a pair of tokens (Login, RefreshToken), used by  *)
(* their bearer, and handed on (UpdateUserPermissions).                    *)
(*                                                                         *)
(* Module Sessions takes an account's permissions as one value and follows *)
(* the revocation of tokens; here revocation is left out, and what matters *)
(* is where a permission in a token comes from.  GetUserPermissions reads  *)
(* three tables with three queries, and anything may happen between them.  *)
(***************************************************************************)
EXTENDS Integers, FiniteSets

CONSTANTS
  Users,      \* accounts
  Roles,      \* their roles; SUPER_ADMIN is one
  Perms,      \* names in the dictionary, permission:delegate and user:read among them
  RolePerms,  \* role_permissions, which no handler changes
  InitRole,   \* the roles at the start
  Moves,      \* bound: the role changes that are made
  Switchable, \* permissions that are switched on and off
  Slots,      \* bound: pairs of tokens in circulation
  Readers,    \* slots for requests that calculate permissions
  Writers     \* slots for requests that delegate

SUPER == "SUPER_ADMIN"

ASSUME DelegationAssumption ==
  /\ SUPER \in Roles
  /\ RolePerms \in [Roles -> SUBSET Perms]
  /\ InitRole \in [Users -> Roles]
  /\ Moves \subseteq Users \X Roles
  /\ Switchable \subseteq Perms

Free == [op |-> "none"]
Pairs == [user : Users, role : Roles, perms : SUBSET Perms, access : BOOLEAN, refresh : BOOLEAN]

\* A calculation of the permissions of an account, for a new pair or to be shown.
Calculations == [op : {"login", "refresh", "show"},
                 stage : {"row", "dictionary", "role"},
                 slot : Slots,               \* where its pair will go
                 user : Users,
                 role : Roles,               \* for the claims
                 spare : SUBSET Perms,       \* what is signed when a query fails
                 row : [role : Roles, custom : SUBSET Perms],
                 dict : SUBSET Perms,
                 ever : SUBSET Perms,        \* history: what was effective meanwhile, which
                                             \* is anything once the dictionary has changed,
                 always : SUBSET Perms]      \* and what was all the time

\* A delegation: the list to be stored in the row.
Delegations == [op : {"write"}, user : Users, list : SUBSET Perms]

VARIABLES
  role,     \* users.role
  custom,   \* users.custom_permissions
  active,   \* the permissions with is_active
  pairs,    \* the tokens in circulation
  calcs,    \* calculations under way
  writes,   \* delegations under way
  crowned,  \* history: accounts that have been SUPER_ADMIN
  rooted    \* history: permissions of a role some account has had, or delegated by
            \* an account that has been SUPER_ADMIN

tables == <<role, custom, active>>
vars == <<tables, pairs, calcs, writes, crowned, rooted>>

TypeOK ==
  /\ role \in [Users -> Roles]
  /\ custom \in [Users -> SUBSET Perms]
  /\ active \subseteq Perms
  /\ pairs \in [Slots -> Pairs \cup {Free}]
  /\ calcs \in [Readers -> Calculations \cup {Free}]
  /\ writes \in [Writers -> Delegations \cup {Free}]
  /\ crowned \subseteq Users
  /\ rooted \subseteq Perms

Init ==
  /\ role = InitRole
  /\ custom = [u \in Users |-> {}]
  /\ active = Perms
  /\ pairs = [x \in Slots |-> Free]
  /\ calcs = [r \in Readers |-> Free]
  /\ writes = [w \in Writers |-> Free]
  /\ crowned = {u \in Users : InitRole[u] = SUPER}
  /\ rooted = UNION {RolePerms[InitRole[u]] : u \in Users}

At(r, stage) == calcs[r] # Free /\ calcs[r].stage = stage

\* What each account may do by the tables as they are.
Effective == [u \in Users |->
  active \cap (IF role[u] = SUPER THEN Perms ELSE RolePerms[role[u]] \cup custom[u])]

\* The calculations under way see the tables change.
Witnessed ==
  [r \in Readers |->
    IF calcs[r] = Free
    THEN Free
    ELSE [calcs[r] EXCEPT
           !.ever = IF active' = active THEN @ \cup Effective'[calcs[r].user] ELSE Perms,
           !.always = @ \cap Effective'[calcs[r].user]]]

-----------------------------------------------------------------------------
(* What the world does.                                                    *)

\* UpdateUser gives the account another role; module UserRows has its rules.
SetRole(u, to) ==
  /\ role' = [role EXCEPT ![u] = to]
  /\ UNCHANGED <<custom, active, pairs, writes>>
  /\ calcs' = Witnessed
  /\ crowned' = IF to = SUPER THEN crowned \cup {u} ELSE crowned
  /\ rooted' = rooted \cup RolePerms[to]

\* Nothing in the program writes the dictionary; its keepers switch permissions on and off.
Switch(p) ==
  /\ active' = IF p \in active THEN active \ {p} ELSE active \cup {p}
  /\ UNCHANGED <<role, custom, pairs, writes, crowned, rooted>>
  /\ calcs' = Witnessed

\* The access token runs out, later the refresh token.
Expire(x) ==
  /\ pairs[x] # Free
  /\ pairs' = [pairs EXCEPT ![x] =
       IF pairs[x].access /\ pairs[x].refresh THEN [pairs[x] EXCEPT !.access = FALSE] ELSE Free]
  /\ UNCHANGED <<tables, calcs, writes, crowned, rooted>>

-----------------------------------------------------------------------------
(* Effective permissions.                                                  *)

\* RequirePermission.
Can(t, permission) == t.role = SUPER \/ permission \in t.perms

Begin(r, op, x, u, claimed, spare) ==
  /\ calcs[r] = Free
  /\ calcs' = [calcs EXCEPT ![r] =
       [op |-> op, stage |-> "row", slot |-> x, user |-> u, role |-> claimed, spare |-> spare,
        row |-> [role |-> claimed, custom |-> {}], dict |-> {},
        ever |-> Effective[u], always |-> Effective[u]]]
  /\ UNCHANGED <<tables, writes, crowned, rooted>>

\* Variant: the claims have no role.
LoginRoleless(r, x, u) ==
  /\ pairs[x] = Free
  /\ Begin(r, "login", x, u, "none", {})
  /\ UNCHANGED pairs

\* Login has let the account in, with the role of the row it read.
Login(r, x, u) ==
  /\ pairs[x] = Free
  /\ Begin(r, "login", x, u, role[u], {})
  /\ UNCHANGED pairs

\* RefreshToken revokes the token presented and keeps the role and the permissions of its
\* claims; the client keeps its access token (x # y) or throws it away.
Refresh(r, y, x) ==
  /\ pairs[y] # Free
  /\ pairs[y].refresh
  /\ x = y \/ pairs[x] = Free
  /\ Begin(r, "refresh", x, pairs[y].user, pairs[y].role, pairs[y].perms)
  /\ pairs' = [pairs EXCEPT ![y] =
       IF x # y /\ pairs[y].access THEN [pairs[y] EXCEPT !.refresh = FALSE] ELSE Free]

\* GET /roles-permissions/users/{userId}/permissions; who passes the guard of the route
\* passes that of the service.
Show(r, y, u) ==
  /\ pairs[y] # Free
  /\ pairs[y].access
  /\ Can(pairs[y], "user:read")
  /\ Begin(r, "show", y, u, role[u], {})
  /\ UNCHANGED pairs

\* FindByID.
ReadRow(r) ==
  /\ At(r, "row")
  /\ calcs' = [calcs EXCEPT ![r].stage = "dictionary",
       ![r].row = [role |-> role[calcs[r].user], custom |-> custom[calcs[r].user]]]
  /\ UNCHANGED <<tables, pairs, writes, crowned, rooted>>

\* FindAllPermissions: those with is_active.
ReadDictionary(r) ==
  /\ At(r, "dictionary")
  /\ calcs' = [calcs EXCEPT ![r].stage = "role", ![r].dict = active]
  /\ UNCHANGED <<tables, pairs, writes, crowned, rooted>>

\* Variant: a name that is not in the dictionary as read stays in the list.
NamesUnchecked(j, rolePerms) ==
  IF j.row.role = SUPER THEN j.dict ELSE rolePerms \cup j.row.custom

\* Variant: a refresh keeps the permissions of the old token.
NamesKept(j, rolePerms) ==
  j.spare \cup (j.dict \cap (IF j.row.role = SUPER THEN Perms ELSE rolePerms \cup j.row.custom))

\* EffectivePermissionNames: a SUPER_ADMIN has the dictionary, another account those of
\* its role and of its row that are in it.
Names(j, rolePerms) ==
  j.dict \cap (IF j.row.role = SUPER THEN Perms ELSE rolePerms \cup j.row.custom)

\* What FindRolePermissionsByName finds now for the role, as read, makes this of it.
Found(r) == Names(calcs[r], RolePerms[calcs[r].row.role] \cap active)

\* GenerateTokenPair signs the claims, or the permissions are shown.
Finish(r, names) ==
  /\ LET j == calcs[r]
     IN  pairs' = IF j.op # "show" /\ pairs[j.slot] = Free
                    THEN [pairs EXCEPT ![j.slot] =
                           [user |-> j.user, role |-> j.role, perms |-> names,
                            access |-> TRUE, refresh |-> TRUE]]
                    ELSE pairs
  /\ calcs' = [calcs EXCEPT ![r] = Free]
  /\ UNCHANGED <<tables, writes, crowned, rooted>>

\* FindRolePermissionsByName, and the answer.
ReadRole(r) == At(r, "role") /\ Finish(r, Found(r))

\* A query fails: a login goes on without permissions, a refresh with the old ones, and
\* there is nothing to show.
FailRead(r) == calcs[r] # Free /\ Finish(r, calcs[r].spare)

-----------------------------------------------------------------------------
(* Delegation.                                                             *)

\* Variant: whoever may delegate may delegate everything.
MayHandOnAll(t, ps) == Can(t, "permission:delegate")

\* A SUPER_ADMIN hands on what it likes, a delegate what its own claims have.
MayHandOn(t, ps) ==
  /\ Can(t, "permission:delegate")
  /\ \A p \in ps : t.role = SUPER \/ p \in t.perms

\* UpdateUserPermissions to its SELECT of the target, not oneself; permissions that are not
\* active are refused, also when they are to be taken away.
UpdateUserPermissions(w, y, u, op, ps) ==
  /\ pairs[y] # Free
  /\ pairs[y].access
  /\ pairs[y].user # u
  /\ ps # {}
  /\ MayHandOn(pairs[y], ps)
  /\ ps \subseteq active
  /\ writes[w] = Free
  /\ writes' = [writes EXCEPT ![w] =
       [op |-> "write", user |-> u,
        list |-> IF op = "add" THEN custom[u] \cup ps ELSE custom[u] \ ps]]
  /\ rooted' = IF op = "add" /\ pairs[y].user \in crowned THEN rooted \cup ps ELSE rooted
  /\ UNCHANGED <<tables, pairs, calcs, crowned>>

\* UpdateCustomPermissions: the whole list.
WriteList(w) ==
  /\ writes[w] # Free
  /\ custom' = [custom EXCEPT ![writes[w].user] = writes[w].list]
  /\ UNCHANGED <<role, active, pairs, crowned, rooted>>
  /\ calcs' = Witnessed
  /\ writes' = [writes EXCEPT ![w] = Free]

\* A query or the statement fails.
FailDelegation(w) ==
  /\ writes[w] # Free
  /\ writes' = [writes EXCEPT ![w] = Free]
  /\ UNCHANGED <<tables, pairs, calcs, crowned, rooted>>

Calculate(r) == ReadRow(r) \/ ReadDictionary(r) \/ ReadRole(r) \/ FailRead(r)

Write(w) == WriteList(w) \/ FailDelegation(w)

Ask(r) ==
  \/ \E x \in Slots, u \in Users : Login(r, x, u) \/ Show(r, x, u)
  \/ \E y, x \in Slots : Refresh(r, y, x)

Delegate(w) ==
  \E y \in Slots, u \in Users, op \in {"add", "remove"}, ps \in SUBSET Perms :
    UpdateUserPermissions(w, y, u, op, ps)

Next ==
  \/ \E r \in Readers : Ask(r) \/ Calculate(r)
  \/ \E w \in Writers : Delegate(w) \/ Write(w)
  \/ \E x \in Slots : Expire(x)
  \/ \E m \in Moves : SetRole(m[1], m[2])
  \/ \E p \in Switchable : Switch(p)

\* Requests go on and tokens run out; nobody has to ask for anything.
Fairness ==
  /\ \A r \in Readers : WF_vars(Calculate(r))
  /\ \A w \in Writers : WF_vars(Write(w))
  /\ \A x \in Slots : WF_vars(Expire(x))

Spec == Init /\ [][Next]_vars /\ Fairness

-----------------------------------------------------------------------------
(* Properties.                                                             *)

\* Authority has a root: what no role that was given out has, and no account that has been
\* SUPER_ADMIN delegated, is in no row and in no claims of an account that never was one,
\* through any chain of delegations, stale tokens and refreshes.
Rooted ==
  /\ \A u \in Users : custom[u] \subseteq rooted
  /\ \A x \in Slots : pairs[x] # Free /\ pairs[x].user \notin crowned =>
       pairs[x].role # SUPER /\ pairs[x].perms \subseteq rooted

\* Three queries without a snapshot: no permission the account had all the while is
\* missing from the answer, and none is in it that the account did not have at some
\* moment, unless the dictionary changed between the queries.
CalculatedFairly ==
  \A r \in Readers : At(r, "role") =>
    /\ calcs[r].always \subseteq Found(r)
    /\ Found(r) \subseteq calcs[r].ever

\* A permission taken from an account, or switched off, for good is in none of its tokens
\* in the end, unless refreshes go on to fail to read the tables or to meet a change of
\* the dictionary between their queries.
TakenAwayInTheEnd ==
  \A u \in Users, p \in Perms :
    /\ <>[](p \notin Effective[u])
    /\ <>[][FALSE]_active
    /\ <>[][\A r \in Readers : FailRead(r) => ReadRole(r)]_vars
    => <>[](\A x \in Slots : pairs[x] # Free /\ pairs[x].user = u => p \notin pairs[x].perms)
=============================================================================
