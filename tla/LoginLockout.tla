---------------------------- MODULE LoginLockout ----------------------------
(***************************************************************************)
(* The temporary account lock of POST /api/auth/login.                     *)
(*                                                                         *)
(* Login (internal/auth/handler.go) works on a copy of the users row: it   *)
(* reads the row, looks at locked_until in the copy, spends a while        *)
(* computing Argon2, and only then writes.  Between the read and the write *)
(* other attempts on the same account fail, lock it or clear its lock.     *)
(* The two columns the lock lives in are written by two statements only:   *)
(* IncrementFailedLogin and ResetFailedLogin (internal/user/repository.go).*)
(*                                                                         *)
(* locked_until is modelled by the time left: NoLock is the SQL NULL, a    *)
(* positive number is a lock in force, 0 a lock whose time has passed and  *)
(* whose column has not been cleared.  The application and the database    *)
(* are assumed to read the same clock.                                     *)
(***************************************************************************)
EXTENDS Integers

CONSTANTS
  Users,        \* the accounts
  Requests,     \* slots for concurrent login requests
  Nobody,       \* the subject of a free slot
  Threshold,    \* 5: failures that lock an account
  LockTicks,    \* 15 minutes, in clock ticks
  MaxFailures   \* bound: failed_login_count saturates here

ASSUME LockoutAssumption ==
  /\ Threshold \in Nat \ {0}
  /\ LockTicks \in Nat \ {0}
  /\ MaxFailures \in Nat
  /\ MaxFailures >= Threshold
  /\ Nobody \notin Users

VARIABLES
  count,     \* users.failed_login_count
  lock,      \* users.locked_until, as time left
  active,    \* users.status = "ACTIVE"
  stage,     \* where each request stands in Login
  subject,   \* the account the request names
  seen,      \* the copy of the row FindByEmail returned
  failures,  \* history: failures stored since the last reset
  inflight   \* history: attempts under way when the lock took effect

row == <<count, lock, active>>
request == <<stage, subject, seen>>
history == <<failures, inflight>>
vars == <<row, request, history>>

NoLock == -1
Copies == [count : 0..MaxFailures, locked : BOOLEAN, active : BOOLEAN]
Blank == [count |-> 0, locked |-> FALSE, active |-> FALSE]

\* "more >= n" never exceeds the bound; nothing below it is lost.
Capped(n) == IF n > MaxFailures THEN MaxFailures ELSE n

TypeOK ==
  /\ count \in [Users -> 0..MaxFailures]
  /\ lock \in [Users -> NoLock..LockTicks]
  /\ active \in [Users -> BOOLEAN]
  /\ stage \in [Requests -> {"free", "verify", "issue"}]
  /\ subject \in [Requests -> Users \cup {Nobody}]
  /\ seen \in [Requests -> Copies]
  /\ failures \in [Users -> 0..MaxFailures]
  /\ inflight \in [Users -> SUBSET Requests]

Init ==
  /\ count = [u \in Users |-> 0]
  /\ lock = [u \in Users |-> NoLock]
  /\ active = [u \in Users |-> TRUE]
  /\ stage = [r \in Requests |-> "free"]
  /\ subject = [r \in Requests |-> Nobody]
  /\ seen = [r \in Requests |-> Blank]
  /\ failures = [u \in Users |-> 0]
  /\ inflight = [u \in Users |-> {}]

-----------------------------------------------------------------------------
(* The lock and the two statements that write it.                          *)

\* LockedUntil.After(time.Now())
Locked(u) == lock[u] > 0

\* The attempts on u that have read its row and are not answered yet.
Attempts(u) == {r \in Requests : subject[r] = u /\ stage[r] # "free"}

\* Variant: the quarter of an hour is added to the lock there is.
IncrementAddsUp(r, u) ==
  /\ count' = [count EXCEPT ![u] = Capped(@ + 1)]
  /\ lock' = [lock EXCEPT ![u] = IF count[u] + 1 >= Threshold THEN LockTicks + @ ELSE @]

\* Variant: the count is computed from the copy of the row.
IncrementFromCopy(r, u) ==
  /\ count' = [count EXCEPT ![u] = Capped(seen[r].count + 1)]
  /\ lock' = [lock EXCEPT ![u] = IF seen[r].count + 1 >= Threshold THEN LockTicks ELSE @]

\* UPDATE ... SET failed_login_count = failed_login_count + 1, locked_until =
\* CASE WHEN failed_login_count + 1 >= 5 THEN NOW() + 15 minutes ELSE as it was.
IncrementFailedLogin(r, u) ==
  /\ count' = [count EXCEPT ![u] = Capped(@ + 1)]
  /\ lock' = [lock EXCEPT ![u] = IF count[u] + 1 >= Threshold THEN LockTicks ELSE @]

\* UPDATE ... SET failed_login_count = 0, locked_until = NULL
ResetFailedLogin(u) ==
  /\ count' = [count EXCEPT ![u] = 0]
  /\ lock' = [lock EXCEPT ![u] = NoLock]

\* The request is answered; its copy of the row is gone.
Answer(r) ==
  /\ stage' = [stage EXCEPT ![r] = "free"]
  /\ subject' = [subject EXCEPT ![r] = Nobody]
  /\ seen' = [seen EXCEPT ![r] = Blank]

-----------------------------------------------------------------------------
(* Login, one action for each stretch between two points where another     *)
(* request can come in.                                                    *)

\* Variant: the lock is not looked at.
FindLocked(r, u) ==
  /\ stage[r] = "free"
  /\ stage' = [stage EXCEPT ![r] = "verify"]
  /\ subject' = [subject EXCEPT ![r] = u]
  /\ seen' = [seen EXCEPT ![r] =
       [count |-> count[u], locked |-> lock[u] # NoLock, active |-> active[u]]]
  /\ UNCHANGED <<row, history>>

\* FindByEmail or FindByUsername, then the lock check on the copy.  A locked
\* account is answered at once and leaves no trace in the row.
Find(r, u) ==
  /\ stage[r] = "free"
  /\ ~Locked(u)
  /\ stage' = [stage EXCEPT ![r] = "verify"]
  /\ subject' = [subject EXCEPT ![r] = u]
  /\ seen' = [seen EXCEPT ![r] =
       [count |-> count[u], locked |-> lock[u] # NoLock, active |-> active[u]]]
  /\ UNCHANGED <<row, history>>

\* CheckPassword fails.  The failure is stored, or the statement fails and its
\* error is dropped; the request is answered 401 either way.
WrongPassword(r) ==
  LET u == subject[r] IN
  /\ stage[r] = "verify"
  /\ \/ /\ IncrementFailedLogin(r, u)
        /\ failures' = [failures EXCEPT ![u] = Capped(@ + 1)]
        /\ inflight' = [inflight EXCEPT ![u] = (IF Locked(u) THEN @ ELSE Attempts(u)) \ {r}]
     \/ /\ inflight' = [inflight EXCEPT ![u] = @ \ {r}]
        /\ UNCHANGED <<count, lock, failures>>
  /\ Answer(r)
  /\ UNCHANGED active

\* The copy says there is something to clear.
NeedsReset(r) == seen[r].count > 0 \/ seen[r].locked

\* CheckPassword succeeds.  The lock columns are cleared when the COPY had a
\* failure or a lock, unless that statement fails, whose error is dropped; only
\* then is the status looked at, in the copy too.
CorrectPassword(r) ==
  LET u == subject[r] IN
  /\ stage[r] = "verify"
  /\ \/ /\ NeedsReset(r)
        /\ ResetFailedLogin(u)
        /\ failures' = [failures EXCEPT ![u] = 0]
     \/ UNCHANGED <<count, lock, failures>>
  /\ \/ /\ seen[r].active
        /\ stage' = [stage EXCEPT ![r] = "issue"]
        /\ UNCHANGED <<subject, seen, inflight>>
     \/ /\ ~seen[r].active
        /\ Answer(r)
        /\ inflight' = [inflight EXCEPT ![u] = @ \ {r}]
  /\ UNCHANGED active

\* GetUserPermissions, GenerateTokenPair, the LOGIN audit entry and the
\* detached UpdateLastLogin: none of them reads or writes the lock.
Issue(r) ==
  /\ stage[r] = "issue"
  /\ Answer(r)
  /\ inflight' = [inflight EXCEPT ![subject[r]] = @ \ {r}]
  /\ UNCHANGED <<row, failures>>

\* An administrator's UpdateRoleAndStatus.  The other statements on the row, those of
\* both password resets included, write neither these columns nor the lock's.
SetStatus(u) ==
  /\ active' = [active EXCEPT ![u] = ~@]
  /\ UNCHANGED <<count, lock, request, history>>

\* Time passes.
Tick ==
  /\ \E u \in Users : Locked(u)
  /\ lock' = [u \in Users |-> IF Locked(u) THEN lock[u] - 1 ELSE lock[u]]
  /\ UNCHANGED <<count, active, request, history>>

Step(r) == WrongPassword(r) \/ CorrectPassword(r) \/ Issue(r)

Next ==
  \/ \E r \in Requests, u \in Users : Find(r, u)
  \/ \E r \in Requests : Step(r)
  \/ \E u \in Users : SetStatus(u)
  \/ Tick

\* A handler that has read the row runs to its answer, and time passes.
\* Nothing makes a client log in.
Fairness == WF_vars(Tick) /\ \A r \in Requests : WF_vars(Step(r))

Spec == Init /\ [][Next]_vars /\ Fairness

-----------------------------------------------------------------------------
(* What the lock promises.                                                 *)

\* The lock column is set exactly when the threshold of failures has been stored
\* since the last reset: failures that arrive together are all counted, and none
\* of them is undone by an attempt working on an older copy of the row.
LockMatchesFailures ==
  \A u \in Users : (lock[u] # NoLock) <=> (failures[u] >= Threshold)

\* While a lock is in force the only attempts that may still test a password or
\* be let in are those that were already under way when it took effect; each of
\* them once.
OnlyInFlightPassLock ==
  \A u \in Users : Locked(u) => Attempts(u) \subseteq inflight[u]

\* A lock ends: attempts under way may extend it, but only finitely often.
LockEnds == \A u \in Users : Locked(u) ~> ~Locked(u)
=============================================================================
