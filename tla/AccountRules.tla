----------------------------- MODULE AccountRules -----------------------------
(***************************************************************************)
(* What the administration of accounts promises: an account changes in one *)
(* step, from what it is, by a request of someone who may ask for that     *)
(* change of it now.  A request that was decided on an older row spoils    *)
(* the account, of which no more is promised than that it stays one and    *)
(* keeps an address of its own.  UserRows implements it.                   *)
(***************************************************************************)
CONSTANTS
  Users,     \* accounts
  Requests,  \* slots for requests,
  Free,      \* one of which is free
  Actors,    \* who asks: [id, role, perms],
  Anyone,    \* and who has no claims to show
  InitRows,  \* the accounts at the start
  Freed      \* an address that may be shared

VARIABLES
  rows,      \* the accounts
  requests,  \* requests under way: whose, and for which account
  spoiled    \* accounts that a request decided on an older row has changed

vars == <<rows, requests, spoiled>>

Pending == [by : Actors \cup {Anyone}, user : Users]

Init ==
  /\ rows = InitRows
  /\ requests = [r \in Requests |-> Free]
  /\ spoiled = {}

Super(a) == a.role = "SUPER_ADMIN"
Holds(a, permission) == Super(a) \/ permission \in a.perms

-----------------------------------------------------------------------------
(* May a make the row of account u, as it is, into the new one?            *)

\* A new account has a password to be changed; a SUPER_ADMIN is made by one.
Register(a, row, new) ==
  /\ row.status = "ABSENT"
  /\ Holds(a, "user:create")
  /\ new.status = "ACTIVE"
  /\ new.pw = "generated" /\ new.temp
  /\ new.token = 0 /\ new.perms = {}
  /\ new.role = "SUPER_ADMIN" => Super(a)

\* The one promotion that is not a SUPER_ADMIN's.
MayAppoint(a, from, to) ==
  Super(a) \/ (a.role = "CHIEF_OFFICER" /\ from = "SME_OFFICER" /\ to = "DIRECTOR")

\* Nobody changes their own role or status, and an account that was deleted stays deleted.
Edit(a, u, row, new) ==
  /\ row.status \notin {"ABSENT", "DELETED"}
  /\ Holds(a, "user:update")
  /\ new = [row EXCEPT !.email = new.email, !.role = new.role, !.status = new.status]
  /\ new.role # row.role => a.id # u /\ MayAppoint(a, row.role, new.role)
  /\ new.status # row.status => a.id # u /\ (new.status \in {"DISABLED", "DELETED"} => Super(a))

Remove(a, u, row, new) ==
  /\ row.status \notin {"ABSENT", "DELETED"}
  /\ a.id # u
  /\ Holds(a, "user:delete")
  /\ row.role = "SUPER_ADMIN" => Super(a)
  /\ new = [row EXCEPT !.status = "DELETED", !.email = Freed]

Renew(a, row, new) ==
  /\ row.status # "ABSENT"
  /\ Holds(a, "user:update")
  /\ new = [row EXCEPT !.pw = "generated", !.temp = TRUE]

Choose(a, u, row, new) ==
  /\ row.status # "ABSENT"
  /\ a.id = u
  /\ new = [row EXCEPT !.pw = "chosen", !.temp = FALSE]

\* Permissions are given and taken by those who have them, never to and from oneself.
Delegate(a, u, row, new) ==
  /\ row.status # "ABSENT"
  /\ a.id # u
  /\ Holds(a, "permission:delegate")
  /\ new = [row EXCEPT !.perms = new.perms]
  /\ Super(a) \/ (new.perms \ row.perms) \cup (row.perms \ new.perms) \subseteq a.perms

\* Anyone may ask for a token for an active account; whoever has it sets a password, once.
Forget(row, new) ==
  /\ row.status = "ACTIVE"
  /\ new.token # 0
  /\ new = [row EXCEPT !.token = new.token]

Recover(row, new) ==
  /\ row.status # "ABSENT"
  /\ row.token # 0
  /\ new = [row EXCEPT !.pw = "chosen", !.temp = FALSE, !.token = 0]

\* Those without claims can do no more than that.
Lawful(a, u, row, new) ==
  \/ Register(a, row, new)
  \/ Edit(a, u, row, new)
  \/ Remove(a, u, row, new)
  \/ Renew(a, row, new)
  \/ Choose(a, u, row, new)
  \/ Delegate(a, u, row, new)
  \/ Forget(row, new)
  \/ Recover(row, new)

-----------------------------------------------------------------------------
Ask(r) ==
  /\ requests[r] = Free
  /\ \E q \in Pending : requests' = [requests EXCEPT ![r] = q]
  /\ UNCHANGED <<rows, spoiled>>

Refuse(r) ==
  /\ requests[r] \in Pending
  /\ requests' = [requests EXCEPT ![r] = Free]
  /\ UNCHANGED <<rows, spoiled>>

Change(a, u) == Lawful(a, u, rows[u], rows'[u]) /\ UNCHANGED spoiled

Spoil(u) == spoiled' = spoiled \cup {u}

\* What every change keeps: the other accounts, and that two never share an address.
Serve(r) ==
  LET u == requests[r].user IN
  /\ requests[r] \in Pending
  /\ requests' = [requests EXCEPT ![r] = Free]
  /\ \A v \in Users \ {u} : rows'[v] = rows[v]
  /\ rows'[u].status # "ABSENT"
  /\ \A v \in Users \ {u} :
       rows[v].status # "ABSENT" => rows'[u].email = Freed \/ rows'[u].email # rows[v].email
  /\ Change(requests[r].by, u) \/ Spoil(u)

Next == \E r \in Requests : Ask(r) \/ Refuse(r) \/ Serve(r)

Spec == Init /\ [][Next]_vars
=============================================================================
