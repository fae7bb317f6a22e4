--------------------------- MODULE SessionsProofs ---------------------------
(* What the revocation table guarantees, for every number of tokens and     *)
(* requests, every lifetime and every clock skew.                           *)
EXTENDS Sessions, TLAPS

\* A request under way presents a token that was issued.
JobsPresent ==
  \A r \in Requests :
    /\ jobs[r].op = "access" => jobs[r].jti \in AccessJtis \cap issued
    /\ jobs[r].op = "refresh" => jobs[r].jti \in RefreshJtis \cap issued

\* The mark a request gets at its beginning stays true.
FlagsTrue ==
  \A r \in Requests :
    jobs[r].op \in {"access", "refresh"} /\ jobs[r].flag => jobs[r].jti \in out

\* A refresh has seen the account as it is now.
HeldNow ==
  \A r \in Requests :
    jobs[r].op = "refresh" => accounts[claims[jobs[r].jti].user] \in jobs[r].held

TypeInv == TypeOK /\ JobsPresent
LeakInv == RevocationKept /\ FlagsTrue /\ NoLiveLeak
FreshInv == HeldNow /\ FreshPermissions

-----------------------------------------------------------------------------
(* Types.                                                                  *)

\* The value a token never issued has for its claims is one.
LEMMA SomeClaims == (CHOOSE c \in Claims : TRUE) \in Claims
<1>1. PICK u \in Users, a \in Accounts : TRUE  BY SessionsAssumption
<1>2. [user |-> u, role |-> a.role, perms |-> a.perms] \in Claims
  BY DEF Claims, PermSets
<1> QED  BY <1>2

\* There is a permission set to put into the slot of a logout.
LEMMA SomePerms == (CHOOSE p \in PermSets : TRUE) \in PermSets
<1>1. PICK a \in Accounts : TRUE  BY SessionsAssumption
<1>2. a.perms \in PermSets  BY DEF PermSets
<1> QED  BY <1>2

\* A free slot is not mistaken for a request.
LEMMA FreeSlot == Free.op = "none"
BY DEF Free

\* The bound below which no remaining time falls.
LEMMA FloorBelow == Floor \in Int /\ Floor < 0
BY SessionsAssumption DEF Floor

\* What is left of a request that gets past the check.
LEMMA PassedJob ==
  ASSUME NEW job \in Jobs
  PROVE  LET new == [job EXCEPT !.stage = "rotate", !.flag = FALSE]
         IN new \in Jobs /\ new.op = job.op /\ new.jti = job.jti /\ ~new.flag
              /\ new.held = job.held /\ new.stage = "rotate"
BY DEF Jobs

\* A ticker that starts has a whole period before it.
LEMMA WholePeriod == CleanupPeriod \in 1..CleanupPeriod
BY SessionsAssumption

\* Signing a pair keeps the tokens well typed.
LEMMA GenerateTypes ==
  ASSUME TypeOK, NEW a \in AccessJtis, NEW f \in RefreshJtis, NEW c \in Claims,
         GenerateTokenPair(a, f, c)
  PROVE  /\ issued \subseteq issued' /\ issued' \subseteq Jtis
         /\ claims' \in [Jtis -> Claims]
         /\ left' \in [Jtis -> Int] /\ \A j \in Jtis : left'[j] >= Floor
         /\ \A j \in issued : left'[j] = left[j] /\ claims'[j] = claims[j]
<1> USE DEF TypeOK, GenerateTokenPair, Jtis
<1>1. issued \subseteq issued' /\ issued' \subseteq Jtis  OBVIOUS
<1>2. claims' \in [Jtis -> Claims]  OBVIOUS
<1>3. left' \in [Jtis -> Int]  BY SessionsAssumption
<1>4. \A j \in Jtis : left'[j] >= Floor  BY SessionsAssumption, FloorBelow
<1>5. \A j \in issued : left'[j] = left[j] /\ claims'[j] = claims[j]  OBVIOUS
<1> QED  BY <1>1, <1>2, <1>3, <1>4, <1>5

\* Storing a revocation, or failing to, of a token that was issued.
LEMMA RevokeTypes ==
  ASSUME TypeOK, NEW j \in issued, Revoke(j)
  PROVE  revoked' \subseteq issued /\ out' \subseteq issued
BY DEF TypeOK, Revoke

\* The initial state is well typed.
LEMMA TypeInit == Init => TypeInv
<1> SUFFICES ASSUME Init PROVE TypeInv  OBVIOUS
<1> USE DEF Init
<1>a. claims \in [Jtis -> Claims]  BY SomeClaims
<1>b. left \in [Jtis -> Int] /\ \A j \in Jtis : left[j] >= Floor  BY FloorBelow
<1>c. ticker \in 1..CleanupPeriod /\ due \in BOOLEAN  BY WholePeriod
<1>1. TypeOK  BY <1>a, <1>b, <1>c DEF TypeOK
<1>2. JobsPresent  BY FreeSlot DEF JobsPresent
<1> QED  BY <1>1, <1>2 DEF TypeInv

\* Every step keeps the types, and the tokens requests present issued.
LEMMA TypeStep == TypeInv /\ [Next]_vars => TypeInv'
<1> SUFFICES ASSUME TypeInv, [Next]_vars PROVE TypeInv'  OBVIOUS
<1> USE DEF TypeInv, cleaner
<1>1. ASSUME NEW u \in Users, NEW a \in AccessJtis, NEW f \in RefreshJtis, Login(u, a, f)
      PROVE  TypeInv'
  <2> DEFINE c == [user |-> u, role |-> accounts[u].role, perms |-> accounts[u].perms]
  <2>1. c \in Claims  BY DEF TypeOK, Claims, PermSets
  <2>2. GenerateTokenPair(a, f, c)  BY <1>1 DEF Login
  <2> HIDE DEF c
  <2>3. TypeOK'  BY <1>1, <2>1, <2>2, GenerateTypes DEF TypeOK, Login, history
  <2>4. JobsPresent'
    BY <1>1, <2>1, <2>2, GenerateTypes DEF JobsPresent, Login
  <2> QED  BY <2>3, <2>4
<1>2. ASSUME NEW r \in Requests, NEW op \in {"access", "refresh"}, NEW j \in Jtis,
             op = "access" => j \in AccessJtis, op = "refresh" => j \in RefreshJtis,
             Begin(r, op, j)
      PROVE  TypeInv'
  <2>1. j \in issued /\ claims[j].perms \in PermSets /\ claims[j].user \in Users
    BY <1>2 DEF Begin, Valid, TypeOK, Claims
  <2>2. jobs'[r] \in Jobs
    BY <1>2, <2>1 DEF Begin, Become, Jobs, TypeOK
  <2>3. TypeOK'
    BY <1>2, <2>2 DEF TypeOK, Begin, Become, tokens, history
  <2>4. JobsPresent'
    BY <1>2, <2>1 DEF JobsPresent, Begin, Become, tokens, TypeOK
  <2> QED  BY <2>3, <2>4
<1>3. ASSUME NEW r \in Requests, Check(r)  PROVE  TypeInv'
  <2>1. jobs[r] \in Jobs /\ jobs[r].op \in {"access", "refresh"}
    BY <1>3 DEF Check, At, TypeOK
  <2> DEFINE new == [jobs[r] EXCEPT !.stage = "rotate", !.flag = FALSE]
  <2>2. new \in Jobs /\ new.op = jobs[r].op /\ new.jti = jobs[r].jti
    BY <2>1, PassedJob
  <2>3. \/ jobs' = [jobs EXCEPT ![r] = Free]
        \/ jobs' = [jobs EXCEPT ![r] = new]
    BY <1>3 DEF Check, Pass, Become
  <2> HIDE DEF new
  <2>4. TypeOK'
    BY <1>3, <2>2, <2>3 DEF TypeOK, Check, tokens
  <2>5. JobsPresent'
    BY <1>3, <2>2, <2>3, FreeSlot DEF JobsPresent, TypeOK, Check, tokens
  <2> QED  BY <2>4, <2>5
<1>4. ASSUME NEW r \in Requests, Rotate(r)  PROVE  TypeInv'
  <2>1. jobs[r] \in Jobs /\ jobs[r].jti \in issued
    BY <1>4 DEF Rotate, At, TypeOK, JobsPresent
  <2>2. revoked' \subseteq issued /\ out' \subseteq issued
    BY <1>4, <2>1, RevokeTypes DEF Rotate
  <2>3. TypeOK'
    BY <1>4, <2>1, <2>2 DEF TypeOK, Rotate, Become, Jobs, tokens
  <2>4. JobsPresent'
    BY <1>4, <2>1 DEF JobsPresent, TypeOK, Rotate, Become, tokens, Jobs
  <2> QED  BY <2>3, <2>4
<1>5. ASSUME NEW r \in Requests, ReadPermissions(r)  PROVE  TypeInv'
  <2>1. jobs[r] \in Jobs /\ jobs[r].jti \in RefreshJtis \cap issued
    BY <1>5 DEF ReadPermissions, At, TypeOK, JobsPresent
  <2>2. accounts[claims[jobs[r].jti].user].perms \in PermSets
    BY <2>1 DEF TypeOK, Claims, PermSets
  <2>3. jobs'[r] \in Jobs /\ jobs'[r].jti = jobs[r].jti /\ jobs'[r].op = jobs[r].op
    <3> DEFINE perms == accounts[claims[jobs[r].jti].user].perms
               new == [jobs[r] EXCEPT !.stage = "issue", !.perms = perms]
               old == [jobs[r] EXCEPT !.stage = "issue", !.fallback = TRUE]
    <3>0. perms \in PermSets  BY <2>2
    <3> HIDE DEF perms
    <3>1. new \in Jobs /\ new.jti = jobs[r].jti /\ new.op = jobs[r].op
      BY <2>1, <3>0 DEF Jobs
    <3>2. old \in Jobs /\ old.jti = jobs[r].jti /\ old.op = jobs[r].op
      BY <2>1 DEF Jobs
    <3>3. jobs' = [jobs EXCEPT ![r] = new] \/ jobs' = [jobs EXCEPT ![r] = old]
      BY <1>5 DEF ReadPermissions, Become, perms
    <3> HIDE DEF new, old
    <3> QED  BY <3>1, <3>2, <3>3 DEF TypeOK
  <2>4. TypeOK'
    BY <1>5, <2>3 DEF TypeOK, ReadPermissions, Become, tokens, history
  <2>5. JobsPresent'
    BY <1>5, <2>3 DEF JobsPresent, TypeOK, ReadPermissions, Become, tokens
  <2> QED  BY <2>4, <2>5
<1>6. ASSUME NEW r \in Requests, NEW a \in AccessJtis, NEW f \in RefreshJtis, Issue(r, a, f)
      PROVE  TypeInv'
  <2> DEFINE c == [claims[jobs[r].jti] EXCEPT !.perms = jobs[r].perms]
  <2>1. jobs[r] \in Jobs /\ jobs[r].jti \in RefreshJtis \cap issued
    BY <1>6 DEF Issue, At, TypeOK, JobsPresent
  <2>2. c \in Claims  BY <2>1 DEF TypeOK, Claims, Jobs
  <2>3. GenerateTokenPair(a, f, c)  BY <1>6 DEF Issue
  <2> HIDE DEF c
  <2>4. TypeOK'
    BY <1>6, <2>1, <2>2, <2>3, GenerateTypes DEF TypeOK, Issue, Become
  <2>5. JobsPresent'
    BY <1>6, <2>2, <2>3, GenerateTypes, FreeSlot DEF JobsPresent, Issue, Become, TypeOK
  <2> QED  BY <2>4, <2>5
<1>7. ASSUME NEW r \in Requests, NEW a \in AccessJtis \cup {NoJti},
             NEW f \in RefreshJtis \cup {NoJti}, BeginLogout(r, a, f)
      PROVE  TypeInv'
  <2>1. jobs'[r] \in Jobs /\ jobs'[r].op = "logout"
    BY <1>7, SomePerms DEF BeginLogout, Become, Jobs, TypeOK, Jtis
  <2>2. TypeOK'
    BY <1>7, <2>1 DEF TypeOK, BeginLogout, Become, tokens, history
  <2>3. JobsPresent'
    BY <1>7, <2>1 DEF JobsPresent, BeginLogout, Become, tokens, TypeOK
  <2> QED  BY <2>2, <2>3
<1>8. ASSUME NEW r \in Requests, LogoutAccess(r)  PROVE  TypeInv'
  <2>1. jobs[r] \in Jobs /\ jobs[r].op = "logout"
    BY <1>8 DEF LogoutAccess, At, TypeOK
  <2>2. revoked' \subseteq issued /\ out' \subseteq issued
    BY <1>8, RevokeTypes DEF LogoutAccess, RevokeIfValid, Valid, TypeOK
  <2>3. Valid(jobs[r].jti) \in BOOLEAN  BY DEF Valid
  <2>4. jobs'[r] \in Jobs /\ jobs'[r].op = "logout"
    BY <1>8, <2>1, <2>3 DEF LogoutAccess, Become, Jobs, TypeOK
  <2>5. TypeOK'
    BY <1>8, <2>2, <2>4 DEF TypeOK, LogoutAccess, Become, tokens
  <2>6. JobsPresent'
    BY <1>8, <2>4 DEF JobsPresent, TypeOK, LogoutAccess, Become, tokens
  <2> QED  BY <2>5, <2>6
<1>9. ASSUME NEW r \in Requests, LogoutRefresh(r)  PROVE  TypeInv'
  <2>1. revoked' \subseteq issued /\ out' \subseteq issued
    BY <1>9, RevokeTypes DEF LogoutRefresh, RevokeIfValid, Valid, TypeOK
  <2>2. audited' = audited  BY <1>9 DEF LogoutRefresh, Protected
  <2>3. TypeOK'
    BY <1>9, <2>1, <2>2 DEF TypeOK, LogoutRefresh, Become, tokens
  <2>4. JobsPresent'
    BY <1>9, FreeSlot DEF JobsPresent, TypeOK, LogoutRefresh, Become, tokens
  <2> QED  BY <2>3, <2>4
<1>10. ASSUME NEW u \in Users, NEW account \in Accounts, AdminChange(u, account)
       PROVE  TypeInv'
  <2>1. \A r \in Requests :
          \/ jobs'[r] = jobs[r]
          \/ /\ jobs[r] # Free
             /\ jobs'[r] = [jobs[r] EXCEPT !.held = @ \cup {account}]
    BY <1>10 DEF AdminChange
  <2>2. \A r \in Requests :
          /\ jobs'[r] \in Jobs \cup {Free}
          /\ jobs'[r].op = jobs[r].op
          /\ jobs'[r] # Free => jobs'[r].jti = jobs[r].jti
    <3> SUFFICES ASSUME NEW r \in Requests
                 PROVE  /\ jobs'[r] \in Jobs \cup {Free}
                        /\ jobs'[r].op = jobs[r].op
                        /\ jobs'[r] # Free => jobs'[r].jti = jobs[r].jti
      OBVIOUS
    <3>1. jobs[r] \in Jobs \cup {Free}  BY DEF TypeOK
    <3> DEFINE new == [jobs[r] EXCEPT !.held = @ \cup {account}]
    <3>2. jobs[r] \in Jobs => new \in Jobs /\ new.op = jobs[r].op /\ new.jti = jobs[r].jti
      BY <1>10 DEF Jobs
    <3>3. jobs'[r] = jobs[r] \/ (jobs[r] # Free /\ jobs'[r] = new)  BY <2>1
    <3> HIDE DEF new
    <3> QED  BY <3>1, <3>2, <3>3
  <2>3. jobs' \in [Requests -> Jobs \cup {Free}]  BY <1>10, <2>2 DEF AdminChange
  <2>4. TypeOK'
    BY <1>10, <2>3 DEF TypeOK, AdminChange, tokens, history
  <2>5. JobsPresent'
    BY <1>10, <2>2, FreeSlot DEF JobsPresent, AdminChange, tokens
  <2> QED  BY <2>4, <2>5
<1>11. CASE Cleanup
  BY <1>11 DEF TypeOK, JobsPresent, Cleanup, Outdated, tokens, history
<1>12. CASE Restart
  BY <1>12, FreeSlot, WholePeriod DEF TypeOK, JobsPresent, Restart, tokens, history
<1>13. CASE Tick
  <2>1. left' \in [Jtis -> Int] /\ \A j \in Jtis : left'[j] >= Floor
    BY <1>13, FloorBelow DEF Tick, TypeOK
  <2>2. ticker' \in 1..CleanupPeriod /\ due' \in BOOLEAN
    BY <1>13, SessionsAssumption DEF Tick, TypeOK
  <2> QED  BY <1>13, <2>1, <2>2 DEF TypeOK, JobsPresent, Tick, history
<1>14. CASE UNCHANGED vars
  BY <1>14 DEF TypeOK, JobsPresent, vars, tokens, history
<1> QED
  BY <1>1, <1>2, <1>3, <1>4, <1>5, <1>6, <1>7, <1>8, <1>9, <1>10, <1>11, <1>12, <1>13, <1>14
  DEF Next, Refresh, Jtis

\* The state is well typed; in particular only issued tokens are revoked.
THEOREM TypeCorrect == Spec => []TypeOK
<1>1. TypeInv => TypeOK  BY DEF TypeInv
<1> QED  BY TypeInit, TypeStep, <1>1, PTL DEF Spec

-----------------------------------------------------------------------------
(* Revoked tokens stay out.                                                *)

\* A request that is still marked was marked before, for the same token.
Continues(r) ==
  jobs'[r].op \in {"access", "refresh"} /\ jobs'[r].flag =>
    /\ jobs[r].op \in {"access", "refresh"} /\ jobs[r].flag
    /\ jobs'[r].jti = jobs[r].jti

\* Marks stay true while stored revocations only grow.
LEMMA FlagsKept ==
  ASSUME FlagsTrue, out \subseteq out', \A r \in Requests : Continues(r)
  PROVE  FlagsTrue'
BY DEF FlagsTrue, Continues

\* Storing a revocation, or failing to, keeps those stored before.
LEMMA RevokeKeeps ==
  ASSUME RevocationKept, NEW j, Revoke(j), left' = left
  PROVE  RevocationKept' /\ out \subseteq out'
BY DEF RevocationKept, Revoke

\* The invariant holds at the beginning.
LEMMA LeakInit == Init => LeakInv
BY FreeSlot DEF Init, LeakInv, RevocationKept, FlagsTrue, NoLiveLeak

\* A request marked at its beginning is stopped by a check of the live token.
LEMMA MarkedIsStopped ==
  ASSUME TypeInv, LeakInv, DbLag >= 0, NEW r \in Requests,
         jobs[r].op \in {"access", "refresh"}, jobs[r].flag, left[jobs[r].jti] > 0
  PROVE  IsRevoked(jobs[r].jti)
<1> DEFINE j == jobs[r].jti
<1>1. j \in out /\ j \in Jtis  BY DEF LeakInv, FlagsTrue, TypeInv, TypeOK
<1>2. left[j] + DbLag > 0  BY <1>1, SessionsAssumption DEF TypeInv, TypeOK
<1>3. j \in revoked  BY <1>1, <1>2, SessionsAssumption DEF LeakInv, RevocationKept, TypeInv, TypeOK
<1> QED  BY <1>2, <1>3 DEF IsRevoked

\* Every step keeps the invariant.
LEMMA LeakStep == TypeInv /\ LeakInv /\ [Next]_vars => LeakInv'
<1> SUFFICES ASSUME TypeInv, LeakInv, [Next]_vars PROVE LeakInv'  OBVIOUS
<1> USE DEF LeakInv
<1>a. jobs \in [Requests -> Jobs \cup {Free}] /\ out \subseteq issued
  BY DEF TypeInv, TypeOK
<1>1. ASSUME NEW u \in Users, NEW a \in AccessJtis, NEW f \in RefreshJtis, Login(u, a, f)
      PROVE  LeakInv'
  <2> DEFINE c == [user |-> u, role |-> accounts[u].role, perms |-> accounts[u].perms]
  <2>1. c \in Claims  BY DEF TypeInv, TypeOK, Claims, PermSets
  <2>2. GenerateTokenPair(a, f, c)  BY <1>1 DEF Login
  <2> HIDE DEF c
  <2>3. \A j \in issued : left'[j] = left[j]  BY <2>1, <2>2, GenerateTypes DEF TypeInv
  <2> QED  BY <1>1, <1>a, <2>3 DEF Login, history, RevocationKept, FlagsTrue, NoLiveLeak
<1>2. ASSUME NEW r \in Requests, NEW op \in {"access", "refresh"}, NEW j \in Jtis,
             Begin(r, op, j)
      PROVE  LeakInv'
  <2>1. jobs'[r].flag = (j \in out) /\ jobs'[r].jti = j
    BY <1>2, <1>a DEF Begin, Become
  <2>2. \A q \in Requests \ {r} : jobs'[q] = jobs[q]  BY <1>2, <1>a DEF Begin, Become
  <2> QED  BY <1>2, <2>1, <2>2 DEF Begin, tokens, history, RevocationKept, FlagsTrue, NoLiveLeak
<1>3. ASSUME NEW r \in Requests, Check(r)  PROVE  LeakInv'
  <2>1. jobs[r] \in Jobs /\ jobs[r].op \in {"access", "refresh"}
    BY <1>3, <1>a DEF Check, At
  <2> DEFINE new == [jobs[r] EXCEPT !.stage = "rotate", !.flag = FALSE]
  <2>2. ~new.flag  BY <2>1, PassedJob
  <2>3. \/ jobs' = [jobs EXCEPT ![r] = Free]
        \/ jobs' = [jobs EXCEPT ![r] = new]
    BY <1>3 DEF Check, Pass, Become
  <2> HIDE DEF new
  <2>4. \A q \in Requests : Continues(q)  BY <1>a, <2>2, <2>3, FreeSlot DEF Continues
  <2>5. FlagsTrue'  BY <1>3, <2>4, FlagsKept DEF Check
  <2>6. RevocationKept'  BY <1>3 DEF Check, tokens, RevocationKept
  <2>7. ASSUME DbLag >= 0 PROVE "live" \notin leaks'
    <3>1. "live" \notin leaks  BY <2>7 DEF NoLiveLeak
    <3>2. jobs[r].flag /\ left[jobs[r].jti] > 0 => IsRevoked(jobs[r].jti)
      BY <2>1, <2>7, MarkedIsStopped
    <3> QED  BY <1>3, <3>1, <3>2 DEF Check
  <2> QED  BY <2>5, <2>6, <2>7 DEF NoLiveLeak
<1>4. ASSUME NEW r \in Requests, Rotate(r)  PROVE  LeakInv'
  <2>1. RevocationKept' /\ out \subseteq out'
    BY <1>4, RevokeKeeps DEF Rotate, tokens
  <2>2. jobs[r] \in Jobs  BY <1>4, <1>a DEF Rotate, At
  <2>3. \A q \in Requests : Continues(q)
    BY <1>4, <1>a, <2>2 DEF Rotate, Become, Continues, Jobs
  <2> QED  BY <1>4, <2>1, <2>3, FlagsKept DEF Rotate, NoLiveLeak
<1>5. ASSUME NEW r \in Requests, ReadPermissions(r)  PROVE  LeakInv'
  <2>1. jobs[r] \in Jobs  BY <1>5, <1>a DEF ReadPermissions, At
  <2> DEFINE perms == accounts[claims[jobs[r].jti].user].perms
             new == [jobs[r] EXCEPT !.stage = "issue", !.perms = perms]
             old == [jobs[r] EXCEPT !.stage = "issue", !.fallback = TRUE]
             Same(job) == job.op = jobs[r].op /\ job.jti = jobs[r].jti /\ job.flag = jobs[r].flag
  <2>a. Same(old)  BY <2>1 DEF Jobs
  <2>b. Same(new)  BY <2>1 DEF Jobs
  <2>c. jobs' = [jobs EXCEPT ![r] = new] \/ jobs' = [jobs EXCEPT ![r] = old]
    BY <1>5 DEF ReadPermissions, Become
  <2> HIDE DEF new, old
  <2>2. \A q \in Requests : Continues(q)
    BY <1>a, <2>a, <2>b, <2>c DEF Continues
  <2>3. FlagsTrue'  BY <1>5, <2>2, FlagsKept DEF ReadPermissions, history
  <2> QED  BY <1>5, <2>3 DEF ReadPermissions, tokens, history, RevocationKept, NoLiveLeak
<1>6. ASSUME NEW r \in Requests, NEW a \in AccessJtis, NEW f \in RefreshJtis, Issue(r, a, f)
      PROVE  LeakInv'
  <2> DEFINE c == [claims[jobs[r].jti] EXCEPT !.perms = jobs[r].perms]
  <2>1. jobs[r] \in Jobs /\ jobs[r].jti \in RefreshJtis \cap issued
    BY <1>6 DEF Issue, At, TypeInv, TypeOK, JobsPresent
  <2>2. c \in Claims  BY <2>1 DEF TypeInv, TypeOK, Claims, Jobs
  <2>3. GenerateTokenPair(a, f, c)  BY <1>6 DEF Issue
  <2> HIDE DEF c
  <2>4. \A j \in issued : left'[j] = left[j]  BY <2>2, <2>3, GenerateTypes DEF TypeInv
  <2>5. RevocationKept'  BY <1>6, <1>a, <2>4 DEF Issue, RevocationKept
  <2>6. \A q \in Requests : Continues(q)
    BY <1>6, <1>a, FreeSlot DEF Issue, Become, Continues
  <2> QED  BY <1>6, <2>5, <2>6, FlagsKept DEF Issue, NoLiveLeak
<1>7. ASSUME NEW r \in Requests, NEW a, NEW f, BeginLogout(r, a, f)  PROVE  LeakInv'
  <2>1. \A q \in Requests : Continues(q)
    BY <1>7, <1>a DEF BeginLogout, Become, Continues
  <2> QED
    BY <1>7, <2>1, FlagsKept DEF BeginLogout, tokens, history, RevocationKept, NoLiveLeak
<1>8. ASSUME NEW r \in Requests, LogoutAccess(r)  PROVE  LeakInv'
  <2>1. RevocationKept' /\ out \subseteq out'
    BY <1>8, RevokeKeeps DEF LogoutAccess, RevokeIfValid, tokens, RevocationKept
  <2>2. jobs[r] \in Jobs /\ jobs[r].op = "logout"  BY <1>8, <1>a DEF LogoutAccess, At
  <2>3. \A q \in Requests : Continues(q)
    BY <1>8, <1>a, <2>2 DEF LogoutAccess, Become, Continues, Jobs
  <2> QED  BY <1>8, <2>1, <2>3, FlagsKept DEF LogoutAccess, NoLiveLeak
<1>9. ASSUME NEW r \in Requests, LogoutRefresh(r)  PROVE  LeakInv'
  <2>1. RevocationKept' /\ out \subseteq out'
    BY <1>9, RevokeKeeps DEF LogoutRefresh, RevokeIfValid, tokens, RevocationKept
  <2>2. \A q \in Requests : Continues(q)
    BY <1>9, <1>a, FreeSlot DEF LogoutRefresh, Become, Continues
  <2> QED  BY <1>9, <2>1, <2>2, FlagsKept DEF LogoutRefresh, NoLiveLeak
<1>10. ASSUME NEW u \in Users, NEW account \in Accounts, AdminChange(u, account)
       PROVE  LeakInv'
  <2>1. \A r \in Requests : Continues(r)
    <3> SUFFICES ASSUME NEW r \in Requests PROVE Continues(r)  OBVIOUS
    <3>1. CASE jobs'[r] = jobs[r]  BY <3>1 DEF Continues
    <3>2. CASE jobs[r] # Free /\ jobs'[r] = [jobs[r] EXCEPT !.held = @ \cup {account}]
      BY <1>a, <3>2 DEF Continues, Jobs
    <3> QED  BY <1>10, <3>1, <3>2 DEF AdminChange
  <2>2. FlagsTrue'  BY <1>10, <2>1, FlagsKept DEF AdminChange, history
  <2> QED  BY <1>10, <2>2 DEF AdminChange, tokens, history, RevocationKept, NoLiveLeak
<1>11. CASE Cleanup
  <2>1. RevocationKept'
    BY <1>11, <1>a, SessionsAssumption
    DEF Cleanup, Outdated, tokens, history, RevocationKept, TypeInv, TypeOK
  <2> QED  BY <1>11, <2>1 DEF Cleanup, history, FlagsTrue, NoLiveLeak
<1>12. CASE Restart
  BY <1>12, FreeSlot DEF Restart, tokens, history, RevocationKept, FlagsTrue, NoLiveLeak
<1>13. CASE Tick
  <2>1. \A j \in Jtis : left'[j] <= left[j] /\ left'[j] \in Int /\ left[j] \in Int
    BY <1>13, FloorBelow DEF Tick, TypeInv, TypeOK
  <2>2. \A j \in out : left'[j] + DbLag >= 0 => left[j] + DbLag >= 0
    BY <1>a, <2>1, SessionsAssumption DEF TypeInv, TypeOK
  <2>3. RevocationKept'  BY <1>13, <2>2 DEF Tick, history, RevocationKept
  <2> QED  BY <1>13, <2>3 DEF Tick, history, FlagsTrue, NoLiveLeak
<1>14. CASE UNCHANGED vars
  BY <1>14 DEF vars, tokens, history, RevocationKept, FlagsTrue, NoLiveLeak
<1> QED
  BY <1>1, <1>2, <1>3, <1>4, <1>5, <1>6, <1>7, <1>8, <1>9, <1>10, <1>11, <1>12, <1>13, <1>14
  DEF Next, Refresh, Jtis

\* Neither the hourly DELETE nor a restart forgets a stored revocation before the
\* database takes the token for expired.
THEOREM RevocationsKept == Spec => []RevocationKept
<1>1. LeakInv => RevocationKept  BY DEF LeakInv
<1> QED  BY TypeInit, TypeStep, LeakInit, LeakStep, <1>1, PTL DEF Spec

\* When the database's clock is not ahead, no request that begins after the revocation
\* of its token was stored gets through a check that works while the token is live.
THEOREM RevokedStayOut == Spec => []NoLiveLeak
<1>1. LeakInv => NoLiveLeak  BY DEF LeakInv
<1> QED  BY TypeInit, TypeStep, LeakInit, LeakStep, <1>1, PTL DEF Spec

-----------------------------------------------------------------------------
(* Refreshed permissions are current.                                      *)

\* A refresh whose slot and account a step leaves alone.
Undisturbed(r) ==
  jobs'[r].op = "refresh" =>
    /\ jobs'[r] = jobs[r]
    /\ accounts'[claims'[jobs[r].jti].user] = accounts[claims[jobs[r].jti].user]

\* Requests left alone keep the invariant.
LEMMA FreshKept ==
  ASSUME FreshInv, \A r \in Requests : Undisturbed(r)
  PROVE  FreshInv'
<1>1. HeldNow'  BY DEF FreshInv, HeldNow, Undisturbed
<1>2. FreshPermissions'
  <2> SUFFICES ASSUME NEW r \in Requests, At(r, "refresh", "issue")', ~jobs'[r].fallback
               PROVE  \E h \in jobs'[r].held : h.perms = jobs'[r].perms
    BY DEF FreshPermissions
  <2>1. jobs'[r] = jobs[r]  BY DEF Undisturbed, At
  <2>2. At(r, "refresh", "issue")  BY <2>1 DEF At
  <2> QED  BY <2>1, <2>2 DEF FreshInv, FreshPermissions
<1> QED  BY <1>1, <1>2 DEF FreshInv

\* The invariant holds at the beginning.
LEMMA FreshInit == Init => FreshInv
BY FreeSlot DEF Init, FreshInv, HeldNow, FreshPermissions, At

\* Every step keeps it.
LEMMA FreshStep == TypeInv /\ FreshInv /\ [Next]_vars => FreshInv'
<1> SUFFICES ASSUME TypeInv, FreshInv, [Next]_vars PROVE FreshInv'  OBVIOUS
<1>a. jobs \in [Requests -> Jobs \cup {Free}]  BY DEF TypeInv, TypeOK
<1>b. \A r \in Requests : jobs[r].op = "refresh" => jobs[r].jti \in issued
  BY DEF TypeInv, JobsPresent
\* A step that changes one slot, to one that is not a refresh, and signs nothing.
<1>c. ASSUME NEW r \in Requests, NEW job, jobs' = [jobs EXCEPT ![r] = job],
             job.op # "refresh", accounts' = accounts, claims' = claims
      PROVE  FreshInv'
  BY <1>a, <1>c, FreshKept DEF Undisturbed
\* One that changes a refresh, but neither what it has seen nor what it has read.
<1>d. ASSUME NEW r \in Requests, NEW job, jobs' = [jobs EXCEPT ![r] = job],
             jobs[r].op = "refresh", accounts' = accounts, claims' = claims,
             job.jti = jobs[r].jti, job.held = jobs[r].held,
             job.stage # "issue" \/ job.fallback
               \/ job.perms = accounts[claims[jobs[r].jti].user].perms
      PROVE  FreshInv'
  <2>1. \A q \in Requests \ {r} : jobs'[q] = jobs[q]  BY <1>d, <1>a
  <2>2. jobs'[r] = job  BY <1>d, <1>a
  <2>3. HeldNow'  BY <1>d, <2>1, <2>2 DEF FreshInv, HeldNow
  <2>4. accounts[claims[jobs[r].jti].user] \in job.held  BY <1>d DEF FreshInv, HeldNow
  <2>5. FreshPermissions'
    BY <1>d, <2>1, <2>2, <2>4 DEF FreshInv, FreshPermissions, At
  <2> QED  BY <2>3, <2>5 DEF FreshInv
<1>1. ASSUME NEW u \in Users, NEW a \in AccessJtis, NEW f \in RefreshJtis, Login(u, a, f)
      PROVE  FreshInv'
  <2> DEFINE c == [user |-> u, role |-> accounts[u].role, perms |-> accounts[u].perms]
  <2>1. c \in Claims  BY DEF TypeInv, TypeOK, Claims, PermSets
  <2>2. GenerateTokenPair(a, f, c)  BY <1>1 DEF Login
  <2> HIDE DEF c
  <2>3. \A j \in issued : claims'[j] = claims[j]  BY <2>1, <2>2, GenerateTypes DEF TypeInv
  <2> QED  BY <1>1, <1>b, <2>3, FreshKept DEF Login, Undisturbed
<1>2. ASSUME NEW r \in Requests, NEW op \in {"access", "refresh"}, NEW j \in Jtis,
             Begin(r, op, j)
      PROVE  FreshInv'
  <2>1. /\ jobs'[r].jti = j
        /\ jobs'[r].op = "refresh" => jobs'[r].held = {accounts[claims[j].user]}
        /\ jobs'[r].stage = "check"
    BY <1>2, <1>a DEF Begin, Become
  <2>2. \A q \in Requests \ {r} : jobs'[q] = jobs[q]  BY <1>2, <1>a DEF Begin, Become
  <2>3. HeldNow'  BY <1>2, <2>1, <2>2 DEF FreshInv, HeldNow, Begin, tokens
  <2>4. FreshPermissions'  BY <2>1, <2>2 DEF FreshInv, FreshPermissions, At
  <2> QED  BY <2>3, <2>4 DEF FreshInv
<1>3. ASSUME NEW r \in Requests, Check(r)  PROVE  FreshInv'
  <2>1. jobs[r] \in Jobs /\ jobs[r].op \in {"access", "refresh"}
    BY <1>3, <1>a DEF Check, At
  <2>2. CASE jobs' = [jobs EXCEPT ![r] = Free]
    BY <1>3, <2>2, <1>c, FreeSlot DEF Check, tokens
  <2> DEFINE new == [jobs[r] EXCEPT !.stage = "rotate", !.flag = FALSE]
  <2>3. CASE jobs[r].op = "refresh" /\ jobs' = [jobs EXCEPT ![r] = new]
    <3>1. new.jti = jobs[r].jti /\ new.held = jobs[r].held /\ new.stage = "rotate"
      BY <2>1, PassedJob
    <3> HIDE DEF new
    <3> QED  BY <1>3, <2>3, <3>1, <1>d DEF Check, tokens
  <2> QED  BY <1>3, <2>1, <2>2, <2>3 DEF Check, Pass, Become
<1>4. ASSUME NEW r \in Requests, Rotate(r)  PROVE  FreshInv'
  <2> DEFINE new == [jobs[r] EXCEPT !.stage = "permissions"]
  <2>1. jobs[r] \in Jobs /\ jobs[r].op = "refresh"  BY <1>4, <1>a DEF Rotate, At
  <2>2. new.jti = jobs[r].jti /\ new.held = jobs[r].held /\ new.stage = "permissions"
    BY <2>1 DEF Jobs
  <2>3. jobs' = [jobs EXCEPT ![r] = new]  BY <1>4 DEF Rotate, Become
  <2> HIDE DEF new
  <2> QED  BY <1>4, <2>1, <2>2, <2>3, <1>d DEF Rotate, tokens
<1>5. ASSUME NEW r \in Requests, ReadPermissions(r)  PROVE  FreshInv'
  <2>1. jobs[r] \in Jobs /\ jobs[r].op = "refresh"  BY <1>5, <1>a DEF ReadPermissions, At
  <2> DEFINE perms == accounts[claims[jobs[r].jti].user].perms
             new == [jobs[r] EXCEPT !.stage = "issue", !.perms = perms]
             old == [jobs[r] EXCEPT !.stage = "issue", !.fallback = TRUE]
  <2>2. new.jti = jobs[r].jti /\ new.held = jobs[r].held /\ new.perms = perms
    BY <2>1 DEF Jobs
  <2>3. old.jti = jobs[r].jti /\ old.held = jobs[r].held /\ old.fallback
    BY <2>1 DEF Jobs
  <2>4. jobs' = [jobs EXCEPT ![r] = new] \/ jobs' = [jobs EXCEPT ![r] = old]
    BY <1>5 DEF ReadPermissions, Become
  <2>5. accounts' = accounts /\ claims' = claims  BY <1>5 DEF ReadPermissions, tokens
  <2> HIDE DEF new, old
  <2>6. CASE jobs' = [jobs EXCEPT ![r] = new]  BY <2>1, <2>2, <2>5, <2>6, <1>d
  <2>7. CASE jobs' = [jobs EXCEPT ![r] = old]  BY <2>1, <2>3, <2>5, <2>7, <1>d
  <2> QED  BY <2>4, <2>6, <2>7
<1>6. ASSUME NEW r \in Requests, NEW a \in AccessJtis, NEW f \in RefreshJtis, Issue(r, a, f)
      PROVE  FreshInv'
  <2> DEFINE c == [claims[jobs[r].jti] EXCEPT !.perms = jobs[r].perms]
  <2>1. jobs[r] \in Jobs /\ jobs[r].jti \in RefreshJtis \cap issued
    BY <1>6 DEF Issue, At, TypeInv, TypeOK, JobsPresent
  <2>2. c \in Claims  BY <2>1 DEF TypeInv, TypeOK, Claims, Jobs
  <2>3. GenerateTokenPair(a, f, c)  BY <1>6 DEF Issue
  <2> HIDE DEF c
  <2>4. \A j \in issued : claims'[j] = claims[j]  BY <2>2, <2>3, GenerateTypes DEF TypeInv
  <2>5. jobs' = [jobs EXCEPT ![r] = Free] /\ accounts' = accounts
    BY <1>6 DEF Issue, Become
  <2> QED  BY <1>a, <1>b, <2>4, <2>5, FreeSlot, FreshKept DEF Undisturbed
<1>7. ASSUME NEW r \in Requests, NEW a, NEW f, BeginLogout(r, a, f)  PROVE  FreshInv'
  <2> DEFINE job == [op |-> "logout", stage |-> "access", jti |-> a, other |-> f, flag |-> FALSE,
                     held |-> {}, perms |-> CHOOSE p \in PermSets : TRUE, fallback |-> FALSE]
  <2>1. jobs' = [jobs EXCEPT ![r] = job] /\ job.op # "refresh"
    BY <1>7 DEF BeginLogout, Become
  <2> HIDE DEF job
  <2> QED  BY <1>7, <2>1, <1>c DEF BeginLogout, tokens
<1>8. ASSUME NEW r \in Requests, LogoutAccess(r)  PROVE  FreshInv'
  <2> DEFINE new == [jobs[r] EXCEPT !.stage = "refresh"]
  <2>1. jobs[r] \in Jobs /\ jobs[r].op = "logout"  BY <1>8, <1>a DEF LogoutAccess, At
  <2>2. jobs' = [jobs EXCEPT ![r] = new]  BY <1>8 DEF LogoutAccess, Become
  <2>3. new.op # "refresh"  BY <2>1 DEF Jobs
  <2> HIDE DEF new
  <2> QED  BY <1>8, <2>2, <2>3, <1>c DEF LogoutAccess, tokens
<1>9. ASSUME NEW r \in Requests, LogoutRefresh(r)  PROVE  FreshInv'
  BY <1>9, <1>c, FreeSlot DEF LogoutRefresh, Become, tokens
<1>10. ASSUME NEW u \in Users, NEW account \in Accounts, AdminChange(u, account)
       PROVE  FreshInv'
  <2>a. accounts' = [accounts EXCEPT ![u] = account] /\ claims' = claims
    BY <1>10 DEF AdminChange, tokens
  <2>b. accounts \in [Users -> Accounts]  BY DEF TypeInv, TypeOK
  <2>1. ASSUME NEW r \in Requests, jobs'[r].op = "refresh"
        PROVE  /\ jobs[r] # Free /\ jobs[r].op = "refresh"
               /\ jobs'[r].jti = jobs[r].jti /\ jobs'[r].stage = jobs[r].stage
               /\ jobs'[r].perms = jobs[r].perms /\ jobs'[r].fallback = jobs[r].fallback
               /\ jobs[r].held \subseteq jobs'[r].held
               /\ claims[jobs[r].jti].user = u => account \in jobs'[r].held
    <3>1. CASE jobs'[r] = jobs[r] /\ ~(jobs[r] # Free /\ jobs[r].op = "refresh"
                                        /\ claims[jobs[r].jti].user = u)
      BY <2>1, <3>1, FreeSlot
    <3>2. CASE jobs[r] # Free /\ jobs[r].op = "refresh"
               /\ jobs'[r] = [jobs[r] EXCEPT !.held = @ \cup {account}]
      BY <1>a, <3>2 DEF Jobs
    <3> QED  BY <1>10, <3>1, <3>2 DEF AdminChange
  <2>2. HeldNow'
    <3> SUFFICES ASSUME NEW r \in Requests, jobs'[r].op = "refresh"
                 PROVE  accounts'[claims'[jobs'[r].jti].user] \in jobs'[r].held
      BY DEF HeldNow
    <3>1. CASE claims[jobs[r].jti].user = u  BY <2>a, <2>b, <2>1, <3>1
    <3>2. CASE claims[jobs[r].jti].user # u
      <4>1. accounts[claims[jobs[r].jti].user] \in jobs[r].held  BY <2>1 DEF FreshInv, HeldNow
      <4>2. accounts'[claims[jobs[r].jti].user] = accounts[claims[jobs[r].jti].user]
        <5>1. jobs[r].jti \in Jtis  BY <1>b, <2>1 DEF TypeInv, TypeOK
        <5>2. claims[jobs[r].jti].user \in Users  BY <5>1 DEF TypeInv, TypeOK, Claims
        <5> QED  BY <2>a, <2>b, <3>2, <5>2
      <4> QED  BY <2>1, <2>a, <4>1, <4>2
    <3> QED  BY <3>1, <3>2
  <2>3. FreshPermissions'
    <3> SUFFICES ASSUME NEW r \in Requests, At(r, "refresh", "issue")', ~jobs'[r].fallback
                 PROVE  \E h \in jobs'[r].held : h.perms = jobs'[r].perms
      BY DEF FreshPermissions
    <3>1. jobs'[r].op = "refresh" /\ jobs'[r].stage = "issue"  BY DEF At
    <3>2. At(r, "refresh", "issue") /\ ~jobs[r].fallback  BY <2>1, <3>1 DEF At
    <3>3. PICK h \in jobs[r].held : h.perms = jobs[r].perms
      BY <3>2 DEF FreshInv, FreshPermissions
    <3> QED  BY <2>1, <3>1, <3>3
  <2> QED  BY <2>2, <2>3 DEF FreshInv
<1>11. CASE Cleanup
  BY <1>11, FreshKept DEF Cleanup, tokens, Undisturbed
<1>12. CASE Restart
  BY <1>12, FreeSlot, FreshKept DEF Restart, tokens, Undisturbed
<1>13. CASE Tick
  BY <1>13, FreshKept DEF Tick, Undisturbed
<1>14. CASE UNCHANGED vars
  BY <1>14, FreshKept DEF vars, tokens, Undisturbed
<1> QED
  BY <1>1, <1>2, <1>3, <1>4, <1>5, <1>6, <1>7, <1>8, <1>9, <1>10, <1>11, <1>12, <1>13, <1>14
  DEF Next, Refresh, Jtis

\* A refresh that can compute the permissions signs those the account had while it ran,
\* whatever an administrator does meanwhile.
THEOREM RefreshedPermissionsCurrent == Spec => []FreshPermissions
<1>1. FreshInv => FreshPermissions  BY DEF FreshInv
<1> QED  BY TypeInit, TypeStep, FreshInit, FreshStep, <1>1, PTL DEF Spec

-----------------------------------------------------------------------------
(* Rows of the table are taken out when, and only when, they are outdated.  *)

RowsOutdate ==
  /\ \A j \in Outdated : j \in revoked' => j \in Outdated'
  /\ \A j \in revoked \ Outdated : j \in revoked'

\* No step signs a token again, so none has more time left afterwards.
OnlyLess == \A j \in issued : left'[j] <= left[j]

LEMMA GenerateOnlyLess ==
  ASSUME TypeInv, NEW a, NEW f, NEW c, GenerateTokenPair(a, f, c)
  PROVE  OnlyLess
BY DEF TypeInv, TypeOK, GenerateTokenPair, OnlyLess, Jtis

LEMMA TimeRunsDown == TypeInv /\ [Next]_vars => OnlyLess
<1> SUFFICES ASSUME TypeInv, [Next]_vars PROVE OnlyLess  OBVIOUS
<1>1. ASSUME left' = left  PROVE OnlyLess
  BY <1>1, SessionsAssumption DEF OnlyLess, TypeInv, TypeOK
<1>2. ASSUME NEW u \in Users, NEW a \in AccessJtis, NEW f \in RefreshJtis, Login(u, a, f)
      PROVE  OnlyLess
  BY <1>2, GenerateOnlyLess DEF Login
<1>3. ASSUME NEW r \in Requests, NEW a \in AccessJtis, NEW f \in RefreshJtis, Issue(r, a, f)
      PROVE  OnlyLess
  BY <1>3, GenerateOnlyLess DEF Issue
<1>4. CASE Tick
  BY <1>4, FloorBelow DEF Tick, OnlyLess, TypeInv, TypeOK
<1>5. ASSUME NEW r \in Requests, Check(r) \/ Rotate(r) \/ ReadPermissions(r)  PROVE OnlyLess
  BY <1>1, <1>5 DEF Check, Rotate, ReadPermissions, tokens
<1>6. ASSUME NEW r \in Requests, LogoutAccess(r) \/ LogoutRefresh(r)  PROVE OnlyLess
  BY <1>1, <1>6 DEF LogoutAccess, LogoutRefresh, tokens
<1>7. ASSUME NEW r \in Requests, NEW op, NEW j, Begin(r, op, j)  PROVE OnlyLess
  BY <1>1, <1>7 DEF Begin, tokens
<1>8. ASSUME NEW r \in Requests, NEW a, NEW f, BeginLogout(r, a, f)  PROVE OnlyLess
  BY <1>1, <1>8 DEF BeginLogout, tokens
<1>9. ASSUME NEW u \in Users, NEW b \in Accounts, AdminChange(u, b)  PROVE OnlyLess
  BY <1>1, <1>9 DEF AdminChange, tokens
<1>10. CASE Cleanup \/ Restart \/ UNCHANGED vars
  BY <1>1, <1>10 DEF Cleanup, Restart, vars, tokens
<1> QED
  BY <1>2, <1>3, <1>4, <1>5, <1>6, <1>7, <1>8, <1>9, <1>10 DEF Next, Refresh

\* Only the cleanup takes rows out, and only those that are outdated.
LEMMA RowsStay == [Next]_vars => \A j \in revoked \ Outdated : j \in revoked'
<1> SUFFICES ASSUME [Next]_vars, NEW j \in revoked, j \notin Outdated PROVE j \in revoked'
  OBVIOUS
<1>1. CASE Cleanup
  BY <1>1 DEF Cleanup
<1>2. ASSUME NEW r \in Requests,
             Rotate(r) \/ LogoutAccess(r) \/ LogoutRefresh(r)
      PROVE  j \in revoked'
  BY <1>2 DEF Rotate, LogoutAccess, LogoutRefresh, RevokeIfValid, Revoke
<1>3. ASSUME NEW r \in Requests,
             \/ Check(r) \/ ReadPermissions(r)
             \/ \E a \in AccessJtis, f \in RefreshJtis : Issue(r, a, f)
             \/ \E i \in Jtis : Begin(r, "access", i) \/ Begin(r, "refresh", i)
             \/ \E a \in AccessJtis \cup {NoJti}, f \in RefreshJtis \cup {NoJti} :
                  BeginLogout(r, a, f)
      PROVE  j \in revoked'
  BY <1>3 DEF Check, ReadPermissions, Issue, Begin, BeginLogout
<1>4. CASE \/ \E u \in Users, a \in AccessJtis, f \in RefreshJtis : Login(u, a, f)
           \/ \E u \in Users, b \in Accounts : AdminChange(u, b)
           \/ Restart \/ Tick \/ UNCHANGED vars
  BY <1>4 DEF Login, AdminChange, Restart, Tick, vars
<1> QED  BY <1>1, <1>2, <1>3, <1>4 DEF Next, Refresh, Jtis

LEMMA OutdateStep == TypeInv /\ [Next]_vars => RowsOutdate
<1> SUFFICES ASSUME TypeInv, [Next]_vars PROVE RowsOutdate  OBVIOUS
<1>1. ASSUME NEW j \in Outdated, j \in revoked'  PROVE j \in Outdated'
  <2>1. j \in issued /\ left'[j] <= left[j] /\ left[j] + DbLag < 0
    BY <1>1, TimeRunsDown DEF Outdated, OnlyLess, TypeInv, TypeOK
  <2>2. j \in Jtis /\ left[j] \in Int
    BY <2>1 DEF TypeInv, TypeOK
  <2>3. left'[j] \in Int
    BY <2>2, TypeStep DEF TypeInv, TypeOK
  <2>4. left'[j] + DbLag < 0
    BY <2>1, <2>2, <2>3, SessionsAssumption
  <2> QED  BY <1>1, <2>4 DEF Outdated
<1> QED  BY <1>1, RowsStay DEF RowsOutdate

\* At the end of its time each row is outdated, whatever the skew.
LEMMA FloorIsOutdated ==
  ASSUME NEW j \in revoked, left[j] = Floor
  PROVE  j \in Outdated
BY SessionsAssumption DEF Outdated, Floor

\* A row that the DELETE may take out stays one until it is taken out, whatever tokens are
\* issued or exchanged meanwhile, and no other row goes: what RowsCleaned needs besides a
\* cleanup that runs and succeeds.
THEOREM OutdatedForGood == Spec => [][RowsOutdate]_vars
<1>1. TypeInv /\ [Next]_vars => [RowsOutdate]_vars
  BY OutdateStep
<1> QED  BY <1>1, TypeInit, TypeStep, PTL DEF Spec

-----------------------------------------------------------------------------
(* When a refresh token is exchanged once.                                 *)

\* No two exchanges of one token are under way.
Apart ==
  \A q, r \in Requests :
    jobs[q].op = "refresh" /\ jobs[r].op = "refresh" /\ jobs[q].jti = jobs[r].jti => q = r

\* The revocation of a token that is exchanged is stored, and a check that meets a token whose
\* revocation was stored stops the request.
Stored == \A r \in Requests : Rotate(r) => jobs[r].jti \in out'
Stopped == \A r \in Requests : Check(r) /\ jobs[r].jti \in out => jobs'[r] = Free

\* A refresh past its check.
Exchanging(r) == jobs[r].op = "refresh" /\ jobs[r].stage # "check"

RotationInv ==
  /\ spent \subseteq out
  /\ \A r \in Requests : Exchanging(r) =>
       /\ jobs[r].jti \notin spent
       /\ jobs[r].stage # "rotate" => jobs[r].jti \in out

\* An exchange that a step leaves alone, or takes to the storing of its revocation.
GoesOn(r) ==
  Exchanging(r)' =>
    /\ Exchanging(r)
    /\ jobs'[r].jti = jobs[r].jti
    /\ jobs'[r].stage = jobs[r].stage \/ jobs[r].jti \in out'

LEMMA RotationKept ==
  ASSUME RotationInv, spent' = spent, out \subseteq out', \A r \in Requests : GoesOn(r)
  PROVE  RotationInv'
BY DEF RotationInv, GoesOn, Exchanging

LEMMA RotationStep ==
  TypeInv /\ RotationInv /\ Apart /\ [Next]_vars /\ [Stored /\ Stopped]_vars => RotationInv'
<1> SUFFICES ASSUME TypeInv, RotationInv, Apart, [Next]_vars, [Stored /\ Stopped]_vars
             PROVE  RotationInv'
  OBVIOUS
<1>a. jobs \in [Requests -> Jobs \cup {Free}]
  BY DEF TypeInv, TypeOK
\* A step that leaves in one slot what is no exchange past its check.
<1>b. ASSUME NEW r \in Requests, NEW job, jobs' = [jobs EXCEPT ![r] = job],
             job.op # "refresh" \/ job.stage = "check", spent' = spent, out \subseteq out'
      PROVE  RotationInv'
  <2>1. \A q \in Requests \ {r} : jobs'[q] = jobs[q]  BY <1>a, <1>b
  <2>2. jobs'[r] = job  BY <1>a, <1>b
  <2>3. \A q \in Requests : GoesOn(q)  BY <1>b, <2>1, <2>2 DEF GoesOn, Exchanging
  <2> QED  BY <1>b, <2>3, RotationKept
<1>1. ASSUME NEW u \in Users, NEW a \in AccessJtis, NEW f \in RefreshJtis, Login(u, a, f)
      PROVE  RotationInv'
  BY <1>1, RotationKept DEF Login, history, GoesOn, Exchanging
<1>2. ASSUME NEW r \in Requests, NEW op, NEW j, Begin(r, op, j)
      PROVE  RotationInv'
  <2>1. jobs'[r].stage = "check" /\ \A q \in Requests \ {r} : jobs'[q] = jobs[q]
    BY <1>2, <1>a DEF Begin, Become
  <2>2. spent' = spent /\ out' = out
    BY <1>2 DEF Begin, history
  <2>3. \A q \in Requests : GoesOn(q)
    BY <2>1 DEF GoesOn, Exchanging
  <2> QED  BY <2>2, <2>3, RotationKept
<1>3. ASSUME NEW r \in Requests, Check(r)  PROVE RotationInv'
  <2>0. jobs' # jobs /\ jobs[r] \in Jobs
    <3>1. jobs[r] # Free /\ jobs[r] \in Jobs  BY <1>3, <1>a DEF Check, At
    <3>2. jobs[r].stage = "check"  BY <1>3 DEF Check, At
    <3>3. jobs'[r] = Free \/ jobs'[r].stage = "rotate"
      BY <1>3, <1>a, <3>1, PassedJob DEF Check, Pass, Become
    <3> QED  BY <3>1, <3>2, <3>3
  <2>1. Stopped  BY <2>0 DEF vars
  <2>2. /\ spent' = spent /\ out' = out
        /\ \A q \in Requests \ {r} : jobs'[q] = jobs[q]
    BY <1>3, <1>a DEF Check, Pass, Become
  <2>3. CASE jobs'[r] = Free
    <3>1. jobs'[r].op # "refresh"  BY <2>3, FreeSlot
    <3>2. \A q \in Requests : GoesOn(q)  BY <2>2, <3>1 DEF GoesOn, Exchanging
    <3> QED  BY <2>2, <3>2, RotationKept
  <2>4. CASE jobs'[r] # Free
    <3>1. jobs[r].jti \notin out  BY <1>3, <2>1, <2>4 DEF Stopped
    <3>2. jobs'[r].jti = jobs[r].jti /\ jobs'[r].stage = "rotate"
      BY <1>3, <1>a, <2>0, <2>4, PassedJob DEF Check, Pass, Become
    <3> QED  BY <2>2, <3>1, <3>2 DEF RotationInv, Exchanging
  <2> QED  BY <2>3, <2>4
<1>4. ASSUME NEW r \in Requests, Rotate(r)  PROVE RotationInv'
  <2>1. /\ jobs[r] # Free /\ jobs[r] \in Jobs /\ jobs[r].op = "refresh" /\ jobs[r].stage = "rotate"
        /\ spent' = spent /\ out \subseteq out'
        /\ \A q \in Requests \ {r} : jobs'[q] = jobs[q]
    BY <1>4, <1>a DEF Rotate, At, Become, Revoke
  <2>2. jobs'[r].op = "refresh" /\ jobs'[r].stage = "permissions" /\ jobs'[r].jti = jobs[r].jti
    BY <1>4, <1>a, <2>1 DEF Rotate, Become, Jobs
  <2>3. Stored  BY <2>1, <2>2 DEF vars
  <2>4. jobs[r].jti \in out'  BY <1>4, <2>3 DEF Stored
  <2>5. \A q \in Requests : GoesOn(q)  BY <2>1, <2>2, <2>4 DEF GoesOn, Exchanging
  <2> QED  BY <2>1, <2>5, RotationKept
<1>5. ASSUME NEW r \in Requests, ReadPermissions(r)  PROVE RotationInv'
  <2>1. /\ jobs[r] # Free /\ jobs[r] \in Jobs /\ jobs[r].op = "refresh"
        /\ jobs[r].stage = "permissions" /\ spent' = spent /\ out' = out
        /\ \A q \in Requests \ {r} : jobs'[q] = jobs[q]
    BY <1>5, <1>a DEF ReadPermissions, At, Become, history
  <2>2. jobs'[r].jti = jobs[r].jti
    BY <1>5, <1>a, <2>1 DEF ReadPermissions, Become, Jobs
  <2>3. jobs[r].jti \in out  BY <2>1 DEF RotationInv, Exchanging
  <2>4. \A q \in Requests : GoesOn(q)  BY <2>1, <2>2, <2>3 DEF GoesOn, Exchanging
  <2> QED  BY <2>1, <2>4, RotationKept
<1>6. ASSUME NEW r \in Requests, NEW a \in AccessJtis, NEW f \in RefreshJtis, Issue(r, a, f)
      PROVE  RotationInv'
  <2>1. /\ jobs[r].op = "refresh" /\ jobs[r].stage = "issue"
        /\ spent' = spent \cup {jobs[r].jti} /\ out' = out
        /\ jobs'[r].op = "none" /\ \A q \in Requests \ {r} : jobs'[q] = jobs[q]
    BY <1>6, <1>a, FreeSlot DEF Issue, At, Become
  <2>2. jobs[r].jti \in out  BY <2>1 DEF RotationInv, Exchanging
  <2>3. ASSUME NEW q \in Requests, Exchanging(q)'  PROVE Exchanging(q) /\ jobs'[q] = jobs[q] /\ jobs[q].jti # jobs[r].jti
    BY <2>1, <2>3 DEF Exchanging, Apart
  <2> QED  BY <2>1, <2>2, <2>3 DEF RotationInv
<1>7. ASSUME NEW r \in Requests, NEW a, NEW f, BeginLogout(r, a, f)  PROVE RotationInv'
  BY <1>7, <1>b DEF BeginLogout, Become, history
<1>8. ASSUME NEW r \in Requests, LogoutAccess(r)  PROVE RotationInv'
  <2>1. jobs[r] \in Jobs /\ jobs[r].op = "logout"
    BY <1>8, <1>a DEF LogoutAccess, At
  <2>2. [jobs[r] EXCEPT !.stage = "refresh"].op = "logout"
    BY <2>1 DEF Jobs
  <2> QED  BY <1>8, <1>b, <2>2 DEF LogoutAccess, RevokeIfValid, Revoke, Become
<1>9. ASSUME NEW r \in Requests, LogoutRefresh(r)  PROVE RotationInv'
  BY <1>9, <1>b, FreeSlot DEF LogoutRefresh, RevokeIfValid, Revoke, Become
<1>10. ASSUME NEW u \in Users, NEW account \in Accounts, AdminChange(u, account)
       PROVE  RotationInv'
  <2>1. \A r \in Requests : GoesOn(r)
    <3> SUFFICES ASSUME NEW r \in Requests  PROVE GoesOn(r)
      OBVIOUS
    <3> DEFINE new == [jobs[r] EXCEPT !.held = @ \cup {account}]
    <3>1. jobs'[r] = jobs[r] \/ (jobs[r] # Free /\ jobs'[r] = new)
      BY <1>10 DEF AdminChange
    <3>2. jobs[r] \in Jobs => new.op = jobs[r].op /\ new.jti = jobs[r].jti /\ new.stage = jobs[r].stage
      BY DEF Jobs
    <3> HIDE DEF new
    <3> QED  BY <1>a, <3>1, <3>2 DEF GoesOn, Exchanging
  <2> QED  BY <1>10, <2>1, RotationKept DEF AdminChange, history
<1>11. CASE Restart
  BY <1>11, FreeSlot, RotationKept DEF Restart, history, GoesOn, Exchanging
<1>12. CASE Cleanup \/ Tick \/ UNCHANGED vars
  BY <1>12, RotationKept DEF Cleanup, Tick, vars, history, GoesOn, Exchanging
<1> QED
  BY <1>1, <1>2, <1>3, <1>4, <1>5, <1>6, <1>7, <1>8, <1>9, <1>10, <1>11, <1>12 DEF Next, Refresh

\* OneSuccessor fails for three reasons only: two exchanges of the token at once, a revocation
\* that is not stored, and a check that lets a revoked token through.
THEOREM ExchangedOnce == Spec /\ []Apart /\ [][Stored /\ Stopped]_vars => OneSuccessor
<1> DEFINE Once == \A r \in Requests, a \in AccessJtis, f \in RefreshJtis :
                     Issue(r, a, f) => jobs[r].jti \notin spent
<1>1. Init => RotationInv
  BY FreeSlot DEF Init, RotationInv, Exchanging
<1>2. RotationInv => Once
  BY DEF RotationInv, Exchanging, Issue, At
<1> QED
  BY <1>1, <1>2, TypeInit, TypeStep, RotationStep, PTL DEF Spec, OneSuccessor
=============================================================================
