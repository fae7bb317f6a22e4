-------------------------- MODULE LoginLockoutProofs --------------------------
(***************************************************************************)
(* The lock of LoginLockout, for any number of accounts and of concurrent  *)
(* requests, any threshold and any duration.                               *)
(***************************************************************************)
EXTENDS LoginLockout, TLAPS

\* A request that is under way names an account.
SubjectKnown == \A r \in Requests : stage[r] # "free" => subject[r] \in Users

\* The stored count is the number of failures: no attempt overwrites another's.
CountIsFailures == count = failures

\* Adding one below the bound and cutting at it stays in range, and reaches the
\* threshold exactly when the sum does.
LEMMA CappedFact ==
  ASSUME NEW n \in 0..MaxFailures
  PROVE  /\ Capped(n + 1) \in 0..MaxFailures
         /\ (Capped(n + 1) >= Threshold) <=> (n + 1 >= Threshold)
BY LockoutAssumption DEF Capped

\* Typing: every statement and handler step keeps the columns and the copies in range.
LEMMA TypeInit == Init => TypeOK /\ SubjectKnown
BY LockoutAssumption DEF Init, TypeOK, SubjectKnown, NoLock, Copies, Blank

LEMMA TypeStep == TypeOK /\ SubjectKnown /\ [Next]_vars => TypeOK' /\ SubjectKnown'
<1> SUFFICES ASSUME TypeOK, SubjectKnown, [Next]_vars
             PROVE  TypeOK' /\ SubjectKnown'
  OBVIOUS
<1> USE LockoutAssumption DEF TypeOK, SubjectKnown
<1>1. ASSUME NEW r \in Requests, NEW u \in Users, Find(r, u)
      PROVE  TypeOK' /\ SubjectKnown'
  BY <1>1 DEF Find, Copies, row, history, NoLock
<1>2. ASSUME NEW r \in Requests, WrongPassword(r)
      PROVE  TypeOK' /\ SubjectKnown'
  <2>1. subject[r] \in Users
    BY <1>2 DEF WrongPassword
  <2>2. stage' \in [Requests -> {"free", "verify", "issue"}] /\ SubjectKnown'
        /\ subject' \in [Requests -> Users \cup {Nobody}] /\ seen' \in [Requests -> Copies]
    BY <1>2 DEF WrongPassword, Answer, Blank, Copies
  <2>3. count' \in [Users -> 0..MaxFailures] /\ lock' \in [Users -> NoLock..LockTicks]
        /\ failures' \in [Users -> 0..MaxFailures]
    BY <1>2, <2>1, CappedFact DEF WrongPassword, IncrementFailedLogin, NoLock
  <2>4. inflight' \in [Users -> SUBSET Requests]
    BY <1>2, <2>1 DEF WrongPassword, Attempts
  <2> QED BY <1>2, <2>2, <2>3, <2>4 DEF WrongPassword
<1>3. ASSUME NEW r \in Requests, CorrectPassword(r)
      PROVE  TypeOK' /\ SubjectKnown'
  <2>1. subject[r] \in Users
    BY <1>3 DEF CorrectPassword
  <2>2. stage' \in [Requests -> {"free", "verify", "issue"}] /\ SubjectKnown'
        /\ subject' \in [Requests -> Users \cup {Nobody}] /\ seen' \in [Requests -> Copies]
        /\ inflight' \in [Users -> SUBSET Requests]
    <3>1. CASE /\ stage' = [stage EXCEPT ![r] = "issue"]
               /\ UNCHANGED <<subject, seen, inflight>>
      BY <3>1, <2>1
    <3>2. CASE Answer(r) /\ inflight' = [inflight EXCEPT ![subject[r]] = @ \ {r}]
      BY <3>2, <2>1 DEF Answer, Blank, Copies
    <3> QED BY <1>3, <3>1, <3>2 DEF CorrectPassword
  <2>3. count' \in [Users -> 0..MaxFailures] /\ lock' \in [Users -> NoLock..LockTicks]
        /\ failures' \in [Users -> 0..MaxFailures]
    BY <1>3, <2>1 DEF CorrectPassword, ResetFailedLogin, NoLock
  <2> QED BY <1>3, <2>2, <2>3 DEF CorrectPassword
<1>4. ASSUME NEW r \in Requests, Issue(r)
      PROVE  TypeOK' /\ SubjectKnown'
  BY <1>4 DEF Issue, Answer, Blank, Copies, row
<1>5. ASSUME NEW u \in Users, SetStatus(u)
      PROVE  TypeOK' /\ SubjectKnown'
  BY <1>5 DEF SetStatus, request, history
<1>6. CASE Tick
  BY <1>6 DEF Tick, Locked, NoLock, request, history
<1>7. CASE UNCHANGED vars
  BY <1>7 DEF vars, row, request, history
<1> QED BY <1>1, <1>2, <1>3, <1>4, <1>5, <1>6, <1>7 DEF Next, Step

\* Every reachable state is well typed.
THEOREM TypeCorrect == Spec => []TypeOK
<1>1. Init => TypeOK /\ SubjectKnown
  BY TypeInit
<1>2. TypeOK /\ SubjectKnown /\ [Next]_vars => TypeOK' /\ SubjectKnown'
  BY TypeStep
<1> QED BY <1>1, <1>2, PTL DEF Spec

-----------------------------------------------------------------------------
(* The count and the lock.  A lock is set exactly at the threshold because *)
(* the count is exact: the increment works on the row, never on the copy.  *)

LEMMA LockStep ==
  TypeOK /\ SubjectKnown /\ CountIsFailures /\ LockMatchesFailures /\ [Next]_vars
    => CountIsFailures' /\ LockMatchesFailures'
<1> SUFFICES ASSUME TypeOK, SubjectKnown, CountIsFailures, LockMatchesFailures, [Next]_vars
             PROVE  CountIsFailures' /\ LockMatchesFailures'
  OBVIOUS
<1> USE LockoutAssumption DEF CountIsFailures, LockMatchesFailures
<1>1. ASSUME UNCHANGED <<count, lock, failures>>
      PROVE  CountIsFailures' /\ LockMatchesFailures'
  BY <1>1
<1>2. ASSUME NEW r \in Requests, WrongPassword(r)
      PROVE  CountIsFailures' /\ LockMatchesFailures'
  <2>1. CASE /\ IncrementFailedLogin(r, subject[r])
             /\ failures' = [failures EXCEPT ![subject[r]] = Capped(@ + 1)]
    <3>1. subject[r] \in Users /\ count[subject[r]] \in 0..MaxFailures
      BY <1>2 DEF WrongPassword, TypeOK, SubjectKnown
    <3>2. (Capped(count[subject[r]] + 1) >= Threshold) <=> (count[subject[r]] + 1 >= Threshold)
      BY <3>1, CappedFact
    <3>3. count[subject[r]] + 1 < Threshold => count[subject[r]] < Threshold
      BY <3>1
    <3> QED BY <2>1, <3>1, <3>2, <3>3 DEF IncrementFailedLogin, NoLock, TypeOK
  <2> QED BY <1>1, <1>2, <2>1 DEF WrongPassword
<1>3. ASSUME NEW r \in Requests, CorrectPassword(r)
      PROVE  CountIsFailures' /\ LockMatchesFailures'
  <2>1. CASE /\ ResetFailedLogin(subject[r])
             /\ failures' = [failures EXCEPT ![subject[r]] = 0]
    BY <2>1 DEF ResetFailedLogin, NoLock, TypeOK
  <2> QED BY <1>1, <1>3, <2>1 DEF CorrectPassword
<1>4. CASE Tick
  <2> USE <1>4 DEF Tick, TypeOK, Locked, NoLock, history
  <2>1. ASSUME NEW u \in Users
        PROVE  (lock'[u] # NoLock) <=> (lock[u] # NoLock)
    OBVIOUS
  <2> QED BY <2>1
<1> QED
  BY <1>1, <1>2, <1>3, <1>4
     DEF Next, Step, Find, Issue, SetStatus, vars, row, request, history

\* Spec => []LockMatchesFailures: for every number of accounts and of concurrent
\* attempts, an account is locked exactly when the threshold has been reached.
THEOREM LockCorrect == Spec => []LockMatchesFailures
<1> DEFINE Inv == TypeOK /\ SubjectKnown /\ CountIsFailures /\ LockMatchesFailures
<1>1. Init => Inv
  <2>1. Init => CountIsFailures /\ LockMatchesFailures
    BY LockoutAssumption DEF Init, CountIsFailures, LockMatchesFailures, NoLock
  <2> QED BY <2>1, TypeInit
<1>2. Inv /\ [Next]_vars => Inv'
  BY TypeStep, LockStep
<1>3. Inv => LockMatchesFailures
  OBVIOUS
<1> QED BY <1>1, <1>2, <1>3, PTL DEF Spec

-----------------------------------------------------------------------------
(* Attempts under a lock.  Once a lock is in force Find refuses the        *)
(* account, so the attempts on it can only become fewer.                   *)

LEMMA InFlightStep ==
  TypeOK /\ SubjectKnown /\ OnlyInFlightPassLock /\ [Next]_vars => OnlyInFlightPassLock'
<1> SUFFICES ASSUME TypeOK, SubjectKnown, OnlyInFlightPassLock, [Next]_vars,
                    NEW u \in Users, Locked(u)'
             PROVE  Attempts(u)' \subseteq inflight'[u]
  BY DEF OnlyInFlightPassLock
<1> USE LockoutAssumption DEF TypeOK, SubjectKnown
<1>1. ASSUME Locked(u), Attempts(u)' \subseteq Attempts(u), inflight'[u] = inflight[u]
      PROVE  Attempts(u)' \subseteq inflight'[u]
  BY <1>1 DEF OnlyInFlightPassLock
<1>2. ASSUME NEW r \in Requests, NEW w \in Users, Find(r, w)
      PROVE  Attempts(u)' \subseteq inflight'[u]
  BY <1>1, <1>2 DEF Find, Attempts, Locked, row, history
<1>3. ASSUME NEW r \in Requests, Answer(r), lock' = lock, subject[r] \in Users,
             inflight' = [inflight EXCEPT ![subject[r]] = @ \ {r}]
      PROVE  Attempts(u)' \subseteq inflight'[u]
  <2>1. Attempts(u)' = Attempts(u) \ {r} /\ Locked(u)
    BY <1>3 DEF Answer, Attempts, Locked
  <2> QED BY <1>3, <2>1 DEF OnlyInFlightPassLock
<1>4. ASSUME NEW r \in Requests, WrongPassword(r)
      PROVE  Attempts(u)' \subseteq inflight'[u]
  <2>1. subject[r] \in Users /\ Attempts(u)' = Attempts(u) \ {r}
    BY <1>4 DEF WrongPassword, Answer, Attempts
  <2>2. CASE IncrementFailedLogin(r, subject[r])
             /\ inflight' = [inflight EXCEPT ![subject[r]] =
                               (IF Locked(subject[r]) THEN @ ELSE Attempts(subject[r])) \ {r}]
    <3>1. CASE subject[r] = u
      BY <2>1, <2>2, <3>1 DEF OnlyInFlightPassLock
    <3>2. CASE subject[r] # u
      BY <2>1, <2>2, <3>2 DEF OnlyInFlightPassLock, IncrementFailedLogin, Locked
    <3> QED BY <3>1, <3>2
  <2> QED BY <1>3, <1>4, <2>1, <2>2 DEF WrongPassword
<1>5. ASSUME NEW r \in Requests, CorrectPassword(r)
      PROVE  Attempts(u)' \subseteq inflight'[u]
  <2>1. subject[r] \in Users /\ Locked(u)
    BY <1>5 DEF CorrectPassword, ResetFailedLogin, Locked, NoLock
  <2>2. CASE /\ stage' = [stage EXCEPT ![r] = "issue"]
             /\ UNCHANGED <<subject, seen, inflight>>
    BY <1>1, <1>5, <2>1, <2>2 DEF CorrectPassword, Attempts
  <2>3. CASE Answer(r) /\ inflight' = [inflight EXCEPT ![subject[r]] = @ \ {r}]
    <3>1. Attempts(u)' = Attempts(u) \ {r}
      BY <2>3 DEF Answer, Attempts
    <3> QED BY <2>1, <2>3, <3>1 DEF OnlyInFlightPassLock
  <2> QED BY <1>5, <2>2, <2>3 DEF CorrectPassword
<1>6. ASSUME NEW r \in Requests, Issue(r)
      PROVE  Attempts(u)' \subseteq inflight'[u]
  BY <1>3, <1>6 DEF Issue, row
<1>7. CASE Tick
  BY <1>1, <1>7 DEF Tick, Locked, Attempts, request, history
<1>8. CASE (\E w \in Users : SetStatus(w)) \/ UNCHANGED vars
  BY <1>1, <1>8 DEF SetStatus, Locked, Attempts, vars, row, request, history
<1> QED BY <1>2, <1>4, <1>5, <1>6, <1>7, <1>8 DEF Next, Step

\* Spec => []OnlyInFlightPassLock: however many requests run at once, an attempt
\* that starts under a lock never gets to test a password.
THEOREM LockHolds == Spec => []OnlyInFlightPassLock
<1> DEFINE Inv == TypeOK /\ SubjectKnown /\ OnlyInFlightPassLock
<1>1. Init => Inv
  <2>1. Init => OnlyInFlightPassLock
    BY LockoutAssumption DEF Init, OnlyInFlightPassLock, Locked, NoLock
  <2> QED BY <2>1, TypeInit
<1>2. Inv /\ [Next]_vars => Inv'
  BY TypeStep, InFlightStep
<1>3. Inv => OnlyInFlightPassLock
  OBVIOUS
<1> QED BY <1>1, <1>2, <1>3, PTL DEF Spec

-----------------------------------------------------------------------------
(* The end of a lock.  LockEnds needs the clock, but also that a lock is   *)
(* not made longer for ever.                                               *)

\* While an account stays locked no attempt on it begins, and its lock is made longer only
\* by one that ends.
LockRunsDown ==
  \A u \in Users : Locked(u) /\ Locked(u)' =>
    /\ Attempts(u)' \subseteq Attempts(u)
    /\ Attempts(u)' = Attempts(u) => lock'[u] <= lock[u]

LEMMA RunsDownStep == TypeOK /\ SubjectKnown /\ [Next]_vars => LockRunsDown
<1> SUFFICES ASSUME TypeOK, SubjectKnown, [Next]_vars, NEW u \in Users, Locked(u), Locked(u)'
             PROVE  /\ Attempts(u)' \subseteq Attempts(u)
                    /\ Attempts(u)' = Attempts(u) => lock'[u] <= lock[u]
  BY DEF LockRunsDown
<1> USE LockoutAssumption DEF TypeOK, SubjectKnown
<1>0. lock[u] \in Int
  BY DEF NoLock
<1>1. ASSUME Attempts(u)' = Attempts(u), lock'[u] = lock[u]
      PROVE  Attempts(u)' \subseteq Attempts(u) /\ lock'[u] <= lock[u]
  BY <1>0, <1>1
<1>2. ASSUME NEW r \in Requests, NEW w \in Users, Find(r, w)
      PROVE  Attempts(u)' = Attempts(u) /\ lock'[u] = lock[u]
  BY <1>2 DEF Find, Attempts, Locked, row
<1>3. ASSUME NEW r \in Requests, subject[r] \in Users, stage[r] # "free", Answer(r),
             subject[r] # u => lock'[u] = lock[u]
      PROVE  /\ Attempts(u)' \subseteq Attempts(u)
             /\ Attempts(u)' = Attempts(u) => lock'[u] = lock[u]
  <2>1. Attempts(u)' = Attempts(u) \ {r}
    BY <1>3 DEF Answer, Attempts
  <2>2. subject[r] = u => r \in Attempts(u)
    BY <1>3 DEF Attempts
  <2> QED BY <1>3, <2>1, <2>2
<1>4. ASSUME NEW r \in Requests, WrongPassword(r)
      PROVE  /\ Attempts(u)' \subseteq Attempts(u)
             /\ Attempts(u)' = Attempts(u) => lock'[u] = lock[u]
  <2>1. subject[r] \in Users /\ stage[r] # "free" /\ Answer(r)
    BY <1>4 DEF WrongPassword
  <2>2. subject[r] # u => lock'[u] = lock[u]
    BY <1>4, <2>1 DEF WrongPassword, IncrementFailedLogin
  <2> QED BY <1>3, <2>1, <2>2
<1>5. ASSUME NEW r \in Requests, CorrectPassword(r)
      PROVE  /\ Attempts(u)' \subseteq Attempts(u)
             /\ Attempts(u)' = Attempts(u) => lock'[u] = lock[u]
  <2>1. subject[r] \in Users /\ stage[r] # "free"
    BY <1>5 DEF CorrectPassword
  <2>2. lock'[u] = lock[u]
    BY <1>5, <2>1 DEF CorrectPassword, ResetFailedLogin, Locked, NoLock
  <2>3. CASE /\ stage' = [stage EXCEPT ![r] = "issue"]
             /\ UNCHANGED <<subject, seen, inflight>>
    BY <2>1, <2>2, <2>3 DEF Attempts
  <2>4. CASE Answer(r)
    BY <1>3, <2>1, <2>2, <2>4
  <2> QED BY <1>5, <2>3, <2>4 DEF CorrectPassword
<1>6. ASSUME NEW r \in Requests, Issue(r)
      PROVE  /\ Attempts(u)' \subseteq Attempts(u)
             /\ Attempts(u)' = Attempts(u) => lock'[u] = lock[u]
  BY <1>3, <1>6 DEF Issue, row
<1>7. CASE Tick
  <2>1. Attempts(u)' = Attempts(u) /\ lock'[u] = lock[u] - 1
    BY <1>7 DEF Tick, Locked, Attempts, request
  <2> QED BY <1>0, <2>1
<1>8. CASE (\E w \in Users : SetStatus(w)) \/ UNCHANGED vars
  BY <1>1, <1>8 DEF SetStatus, Attempts, vars, row, request
<1> QED BY <1>0, <1>1, <1>2, <1>4, <1>5, <1>6, <1>7, <1>8 DEF Next, Step

\* Spec => [][LockRunsDown]_vars: a lock is made longer at most as often as there were attempts
\* under way when it took effect, so it is the clock alone that LockEnds depends on.
THEOREM LocksRunDown == Spec => [][LockRunsDown]_vars
<1>1. TypeOK /\ SubjectKnown /\ [Next]_vars => TypeOK' /\ SubjectKnown' /\ [LockRunsDown]_vars
  BY TypeStep, RunsDownStep
<1> QED BY TypeInit, <1>1, PTL DEF Spec
=============================================================================
