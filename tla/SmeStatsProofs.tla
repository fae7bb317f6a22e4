--------------------------- MODULE SmeStatsProofs ---------------------------
(* What the cache of the statistics serves, for every register, every       *)
(* number of requests and every set of aggregates.                          *)
EXTENDS SmeStats, FiniteSetTheorems, TLAPS

\* A response whose queries no change has overlapped is that of the table as it is.
ResponsesCurrent ==
  \A r \in Readers, a \in Attrs :
    ~overlapped[r] /\ workers[r][a] = "done" => got[r][a] = Count(a)

\* A creation that has not run its statement has its uuid for itself.
UuidsFresh ==
  \A w \in Writers :
    jobs[w] # Free /\ jobs[w].op = "create" /\ jobs[w].stage = "statement" =>
      /\ smes[jobs[w].sme].state = "unused"
      /\ \A v \in Writers \ {w} : jobs[v] # Free => jobs[v].sme # jobs[w].sme

CacheInv == ResponsesCurrent /\ CacheCurrent

-----------------------------------------------------------------------------
(* Types.                                                                  *)

\* An aggregate counts rows.
LEMMA CountType == \A a : Count(a) \in Counts
<1> SUFFICES ASSUME NEW a, NEW v \in Values
             PROVE  Cardinality({s \in Smes : Stored(s) /\ smes[s].rec[a] = v}) \in Nat
  BY DEF Count, Counts
<1>1. IsFiniteSet({s \in Smes : Stored(s) /\ smes[s].rec[a] = v})
  BY SmeStatsAssumption, FS_Subset
<1> QED  BY <1>1, FS_CardinalityType

\* The empty response and the blank record are well typed.
LEMMA BlankTypes == NoResponse \in [Attrs -> Counts] /\ NoRec \in Recs
<1>1. NoRows \in Counts  BY DEF NoRows, Counts
<1>2. NoResponse \in [Attrs -> Counts]  BY <1>1 DEF NoResponse
<1>3. NoRec \in Recs  BY SmeStatsAssumption DEF NoRec, Recs
<1> QED  BY <1>2, <1>3

\* What a process starts with is well typed.
LEMMA StartTypes ==
  /\ [w \in Writers |-> Free] \in [Writers -> Jobs \cup {Free}]
  /\ [r \in Readers |-> AllIdle]
       \in [Readers -> [Attrs -> {"idle", "running", "done", "failing", "failed"}]]
  /\ [r \in Readers |-> NoResponse] \in [Readers -> [Attrs -> Counts]]
  /\ [r \in Readers |-> FALSE] \in [Readers -> BOOLEAN]
  /\ 0 \in 0..CacheTtl
<1>1. AllIdle \in [Attrs -> {"idle", "running", "done", "failing", "failed"}]  BY DEF AllIdle
<1>2. [r \in Readers |-> AllIdle]
        \in [Readers -> [Attrs -> {"idle", "running", "done", "failing", "failed"}]]  BY <1>1
<1>3. [r \in Readers |-> NoResponse] \in [Readers -> [Attrs -> Counts]]  BY BlankTypes
<1>4. 0 \in 0..CacheTtl  BY SmeStatsAssumption
<1> QED  BY <1>2, <1>3, <1>4

LEMMA TypeInit == Init => TypeOK
<1> SUFFICES ASSUME Init PROVE TypeOK  OBVIOUS
<1>1. smes \in [Smes -> [state : {"unused", "stored", "deleted"}, rec : Recs]]
  BY BlankTypes DEF Init
<1> QED  BY <1>1, StartTypes, BlankTypes DEF Init, TypeOK

\* A row is changed to a record of the register, or deleted.
LEMMA ChangeRowTypes ==
  ASSUME TypeOK, NEW j \in Jobs, ChangeRow(j)
  PROVE  /\ smes' \in [Smes -> [state : {"unused", "stored", "deleted"}, rec : Recs]]
         /\ overlapped' \in [Readers -> BOOLEAN]
<1>1. [state |-> IF j.op = "delete" THEN "deleted" ELSE "stored", rec |-> j.rec]
        \in [state : {"unused", "stored", "deleted"}, rec : Recs]
  BY DEF Jobs
<1>2. smes' \in [Smes -> [state : {"unused", "stored", "deleted"}, rec : Recs]]
  BY <1>1 DEF TypeOK, ChangeRow, Jobs
<1>3. ASSUME NEW r \in Readers PROVE (overlapped[r] \/ Running(r)) \in BOOLEAN
  BY DEF TypeOK, Running
<1>4. overlapped' \in [Readers -> BOOLEAN]  BY <1>3 DEF ChangeRow
<1> QED  BY <1>2, <1>4

\* A request that decides on a statement is well typed.
LEMMA DecideTypes ==
  ASSUME TypeOK, NEW w \in Writers, NEW op \in {"create", "update", "delete"},
         NEW s \in Smes, NEW rec \in Recs, Decide(w, op, s, rec)
  PROVE  TypeOK'
<1>1. [op |-> op, sme |-> s, rec |-> rec, stage |-> "statement"] \in Jobs  BY DEF Jobs
<1> QED  BY <1>1 DEF TypeOK, Decide, readers, caching

LEMMA TypeStep == TypeOK /\ [Next]_vars => TypeOK'
<1> SUFFICES ASSUME TypeOK, [Next]_vars PROVE TypeOK'  OBVIOUS
<1>1. ASSUME NEW w \in Writers, NEW s \in Smes, NEW rec \in Recs, CreateSME(w, s, rec)
      PROVE  TypeOK'
  <2>1. [rec EXCEPT !["status"] = Active] \in Recs  BY SmeStatsAssumption DEF Recs
  <2> QED  BY <1>1, <2>1, DecideTypes DEF CreateSME
<1>2. ASSUME NEW w \in Writers, NEW s \in Smes, NEW rec \in Recs, NEW withStatus \in BOOLEAN,
             UpdateSME(w, s, rec, withStatus)
      PROVE  TypeOK'
  <2>1. smes[s].rec["status"] \in Values  BY SmeStatsAssumption DEF TypeOK, Recs
  <2>2. [rec EXCEPT !["status"] = smes[s].rec["status"]] \in Recs  BY <2>1 DEF Recs
  <2> QED  BY <1>2, <2>2, DecideTypes DEF UpdateSME
<1>3. ASSUME NEW w \in Writers, NEW s \in Smes, DeleteSME(w, s)  PROVE TypeOK'
  BY <1>3, BlankTypes, DecideTypes DEF DeleteSME
<1>4. ASSUME NEW w \in Writers, Execute(w)  PROVE TypeOK'
  <2>1. jobs[w] \in Jobs  BY <1>4 DEF Execute, TypeOK
  <2>2. [jobs[w] EXCEPT !.stage = "invalidate"] \in Jobs  BY <2>1 DEF Jobs
  <2>3. jobs' \in [Writers -> Jobs \cup {Free}]  BY <1>4, <2>2 DEF Execute, TypeOK
  <2> QED  BY <1>4, <2>1, <2>3, ChangeRowTypes DEF Execute, TypeOK, caching
<1>5. ASSUME NEW w \in Writers, ExecuteUnanswered(w)  PROVE TypeOK'
  <2>1. jobs[w] \in Jobs  BY <1>5 DEF ExecuteUnanswered, TypeOK
  <2>2. missed' \in BOOLEAN  BY <1>5 DEF ExecuteUnanswered, TypeOK
  <2> QED  BY <1>5, <2>1, <2>2, ChangeRowTypes DEF ExecuteUnanswered, TypeOK
<1>6. ASSUME NEW w \in Writers, Fail(w)  PROVE TypeOK'
  <2>1. jobs' \in [Writers -> Jobs \cup {Free}]  BY <1>6 DEF Fail, TypeOK
  <2> QED  BY <1>6, <2>1 DEF Fail, TypeOK, readers, caching
<1>7. ASSUME NEW w \in Writers, Invalidate(w)  PROVE TypeOK'
  <2>1. jobs' \in [Writers -> Jobs \cup {Free}]  BY <1>7 DEF Invalidate, TypeOK
  <2>2. left' \in 0..CacheTtl /\ missed' \in BOOLEAN  BY <1>7, StartTypes DEF Invalidate
  <2> QED  BY <1>7, <2>1, <2>2 DEF Invalidate, TypeOK, readers
<1>8. ASSUME NEW r \in Readers, NEW withFilter \in BOOLEAN, GetStatsOverview(r, withFilter)
      PROVE  TypeOK'
  BY <1>8 DEF GetStatsOverview, TypeOK, caching
<1>9. ASSUME NEW r \in Readers, NEW a \in Attrs, Query(r, a)  PROVE TypeOK'
  <2>1. got' \in [Readers -> [Attrs -> Counts]]
    <3>1. [got[r] EXCEPT ![a] = Count(a)] \in [Attrs -> Counts]  BY CountType DEF TypeOK
    <3>2. got' = got \/ got' = [got EXCEPT ![r] = [got[r] EXCEPT ![a] = Count(a)]]
      BY <1>9 DEF Query
    <3> QED  BY <3>1, <3>2 DEF TypeOK
  <2>2. workers' \in [Readers -> [Attrs -> {"idle", "running", "done", "failing", "failed"}]]
    <3>1. ASSUME NEW to \in {"done", "failing"}
          PROVE  [workers[r] EXCEPT ![a] = to]
                   \in [Attrs -> {"idle", "running", "done", "failing", "failed"}]
      BY DEF TypeOK
    <3>2. \E to \in {"done", "failing"} :
            workers' = [workers EXCEPT ![r] = [workers[r] EXCEPT ![a] = to]]
      BY <1>9 DEF Query, Worker
    <3> QED  BY <3>1, <3>2 DEF TypeOK
  <2> QED  BY <1>9, <2>1, <2>2 DEF Query, Worker, TypeOK, caching
<1>10. ASSUME NEW r \in Readers, NEW a \in Attrs, SendError(r, a)  PROVE TypeOK'
  BY <1>10 DEF SendError, Worker, TypeOK, caching
<1>11. ASSUME NEW r \in Readers, Collect(r)  PROVE TypeOK'
  <2>1. /\ cache' \in [Attrs -> Counts]
        /\ left' \in 0..CacheTtl
        /\ missed' \in BOOLEAN
    BY <1>11, SmeStatsAssumption DEF Collect, TypeOK, caching
  <2>2. got' \in [Readers -> [Attrs -> Counts]]  BY <1>11, BlankTypes DEF Collect, TypeOK
  <2>3. workers' \in [Readers -> [Attrs -> {"idle", "running", "done", "failing", "failed"}]]
    BY <1>11 DEF Collect, TypeOK, AllIdle
  <2> QED  BY <1>11, <2>1, <2>2, <2>3 DEF Collect, TypeOK
<1>12. CASE Tick
  BY <1>12, SmeStatsAssumption DEF Tick, TypeOK, readers
<1>13. CASE Restart
  BY <1>13, BlankTypes, StartTypes DEF Restart, TypeOK
<1>14. CASE UNCHANGED vars
  BY <1>14 DEF vars, readers, caching, TypeOK
<1> QED
  BY <1>1, <1>2, <1>3, <1>4, <1>5, <1>6, <1>7, <1>8, <1>9, <1>10, <1>11, <1>12, <1>13, <1>14
  DEF Next, Change, Serve

\* The state is well typed: no response or cache entry counts what there is not.
THEOREM TypeCorrect == Spec => []TypeOK
BY TypeInit, TypeStep, PTL DEF Spec

-----------------------------------------------------------------------------
(* The cache.                                                              *)

\* Aggregates change with the table only.
LEMMA CountKept ==
  ASSUME smes' = smes
  PROVE  \A a : Count(a)' = Count(a)
BY DEF Count, Stored

\* A change of the table marks the responses that are not complete.
LEMMA ChangeMarks ==
  ASSUME TypeOK, NEW j, ChangeRow(j), workers' = workers
  PROVE  ResponsesCurrent'
<1> SUFFICES ASSUME NEW r \in Readers, NEW a \in Attrs, ~overlapped'[r], workers'[r][a] = "done"
             PROVE  FALSE
  BY DEF ResponsesCurrent
<1>1. Running(r)  BY DEF Running
<1> QED  BY <1>1 DEF ChangeRow

LEMMA CacheInit == Init => CacheInv
BY SmeStatsAssumption DEF Init, CacheInv, ResponsesCurrent, CacheCurrent, AllIdle

\* A step that leaves table, responses and cache alone, and no request to invalidate
\* disappears.
LEMMA CacheKept ==
  ASSUME CacheInv, smes' = smes, readers' = readers, caching' = caching,
         Invalidating => Invalidating'
  PROVE  CacheInv'
BY CountKept DEF CacheInv, ResponsesCurrent, CacheCurrent, readers, caching

LEMMA CacheStep == TypeOK /\ CacheInv /\ [Next]_vars => CacheInv'
<1> SUFFICES ASSUME TypeOK, CacheInv, [Next]_vars PROVE CacheInv'  OBVIOUS
<1>a. ASSUME NEW w \in Writers, NEW op, NEW s, NEW rec, Decide(w, op, s, rec)
      PROVE  CacheInv'
  <2>1. Invalidating => Invalidating'
    BY <1>a DEF Invalidating, Decide, TypeOK
  <2> QED  BY <1>a, <2>1, CacheKept DEF Decide
<1>1. ASSUME NEW w \in Writers, NEW s \in Smes, NEW rec \in Recs, CreateSME(w, s, rec)
      PROVE  CacheInv'
  BY <1>1, <1>a DEF CreateSME
<1>2. ASSUME NEW w \in Writers, NEW s \in Smes, NEW rec \in Recs, NEW withStatus \in BOOLEAN,
             UpdateSME(w, s, rec, withStatus)
      PROVE  CacheInv'
  BY <1>2, <1>a DEF UpdateSME
<1>3. ASSUME NEW w \in Writers, NEW s \in Smes, DeleteSME(w, s)  PROVE CacheInv'
  BY <1>3, <1>a DEF DeleteSME
<1>4. ASSUME NEW w \in Writers, Execute(w)  PROVE CacheInv'
  <2>1. ResponsesCurrent'  BY <1>4, ChangeMarks DEF Execute
  <2>2. jobs[w] \in Jobs /\ jobs'[w] = [jobs[w] EXCEPT !.stage = "invalidate"]
    BY <1>4 DEF Execute, TypeOK
  <2>3. jobs'[w].stage = "invalidate" /\ jobs'[w].op # "none"  BY <2>2 DEF Jobs
  <2>4. Invalidating'  BY <2>3 DEF Invalidating, Free
  <2> QED  BY <2>1, <2>4 DEF CacheInv, CacheCurrent
<1>5. ASSUME NEW w \in Writers, ExecuteUnanswered(w)  PROVE CacheInv'
  <2>1. ResponsesCurrent'  BY <1>5, ChangeMarks DEF ExecuteUnanswered
  <2>2. CacheCurrent'  BY <1>5 DEF ExecuteUnanswered, CacheCurrent
  <2> QED  BY <2>1, <2>2 DEF CacheInv
<1>6. ASSUME NEW w \in Writers, Fail(w)  PROVE CacheInv'
  <2>1. Invalidating => Invalidating'
    BY <1>6 DEF Invalidating, Fail, TypeOK
  <2> QED  BY <1>6, <2>1, CacheKept DEF Fail
<1>7. ASSUME NEW w \in Writers, Invalidate(w)  PROVE CacheInv'
  <2>1. ResponsesCurrent'
    BY <1>7, CountKept DEF Invalidate, readers, CacheInv, ResponsesCurrent
  <2>2. CacheCurrent'  BY <1>7 DEF Invalidate, CacheCurrent
  <2> QED  BY <2>1, <2>2 DEF CacheInv
<1>b. ASSUME smes' = smes, caching' = caching, jobs' = jobs, ResponsesCurrent'
      PROVE  CacheInv'
  BY <1>b, CountKept DEF CacheInv, CacheCurrent, caching, Invalidating
<1>8. ASSUME NEW r \in Readers, NEW withFilter \in BOOLEAN, GetStatsOverview(r, withFilter)
      PROVE  CacheInv'
  <2>1. ResponsesCurrent'
    <3> SUFFICES ASSUME NEW q \in Readers, NEW a \in Attrs,
                        ~overlapped'[q], workers'[q][a] = "done"
                 PROVE  got'[q][a] = Count(a)'
      BY DEF ResponsesCurrent
    <3>1. q # r  BY <1>8 DEF GetStatsOverview, TypeOK
    <3> QED
      BY <1>8, <3>1, CountKept DEF GetStatsOverview, TypeOK, CacheInv, ResponsesCurrent
  <2> QED  BY <1>8, <2>1, <1>b DEF GetStatsOverview
<1>9. ASSUME NEW r \in Readers, NEW b \in Attrs, Query(r, b)  PROVE CacheInv'
  <2>1. smes' = smes /\ overlapped' = overlapped  BY <1>9 DEF Query, Worker
  <2>2. ResponsesCurrent'
    <3> SUFFICES ASSUME NEW q \in Readers, NEW a \in Attrs,
                        ~overlapped'[q], workers'[q][a] = "done"
                 PROVE  got'[q][a] = Count(a)
      BY <2>1, CountKept DEF ResponsesCurrent
    <3>1. CASE q = r /\ a = b  BY <1>9, <3>1 DEF Query, Worker, TypeOK
    <3>2. CASE ~(q = r /\ a = b)
      <4>1. workers'[q][a] = workers[q][a] /\ got'[q][a] = got[q][a]
        BY <1>9, <3>2 DEF Query, Worker, TypeOK
      <4> QED  BY <2>1, <4>1 DEF CacheInv, ResponsesCurrent
    <3> QED  BY <3>1, <3>2
  <2> QED  BY <1>9, <2>2, <1>b DEF Query, Worker
<1>10. ASSUME NEW r \in Readers, NEW b \in Attrs, SendError(r, b)  PROVE CacheInv'
  <2>1. ResponsesCurrent'
    BY <1>10, CountKept DEF SendError, Worker, TypeOK, CacheInv, ResponsesCurrent
  <2> QED  BY <1>10, <2>1, <1>b DEF SendError, Worker
<1>11. ASSUME NEW r \in Readers, Collect(r)  PROVE CacheInv'
  <2>1. smes' = smes /\ jobs' = jobs  BY <1>11 DEF Collect
  <2>2. ResponsesCurrent'
    <3> SUFFICES ASSUME NEW q \in Readers, NEW a \in Attrs,
                        ~overlapped'[q], workers'[q][a] = "done"
                 PROVE  got'[q][a] = Count(a)
      BY <2>1, CountKept DEF ResponsesCurrent
    <3>1. q # r  BY <1>11 DEF Collect, TypeOK, AllIdle
    <3> QED  BY <1>11, <3>1 DEF Collect, TypeOK, CacheInv, ResponsesCurrent
  <2>3. CASE Cacheable(r)
    <3>1. ~missed' => \A a \in Attrs : cache'[a] = Count(a)
      BY <1>11, <2>3 DEF Collect, Cacheable, CacheInv, ResponsesCurrent
    <3> QED  BY <2>1, <2>2, <3>1, CountKept DEF CacheInv, CacheCurrent
  <2>4. CASE ~Cacheable(r)
    BY <1>11, <2>1, <2>2, <2>4, <1>b DEF Collect
  <2> QED  BY <2>3, <2>4
<1>12. CASE Tick
  <2>1. ResponsesCurrent'
    BY <1>12, CountKept DEF Tick, readers, CacheInv, ResponsesCurrent
  <2>2. CacheCurrent'
    BY <1>12, CountKept DEF Tick, CacheInv, CacheCurrent, Invalidating
  <2> QED  BY <2>1, <2>2 DEF CacheInv
<1>13. CASE Restart
  BY <1>13 DEF Restart, CacheInv, ResponsesCurrent, CacheCurrent, AllIdle
<1>14. CASE UNCHANGED vars
  BY <1>14, CacheKept DEF vars, Invalidating
<1> QED
  BY <1>1, <1>2, <1>3, <1>4, <1>5, <1>6, <1>7, <1>8, <1>9, <1>10, <1>11, <1>12, <1>13, <1>14
  DEF Next, Change, Serve

\* The cache serves the table as it is, but for the three ways of missing a change.
THEOREM CacheCorrect == Spec => []CacheCurrent
<1>1. CacheInv => CacheCurrent  BY DEF CacheInv
<1> QED  BY TypeInit, TypeStep, CacheInit, CacheStep, <1>1, PTL DEF Spec

-----------------------------------------------------------------------------
(* Deletions.                                                              *)

\* A record is changed, or deleted, by a statement that finds it; one is created under a
\* uuid no record has had.
LEMMA ChangeRowKeepsDeleted ==
  ASSUME TypeOK, UuidsFresh, NEW w \in Writers, jobs[w] # Free, jobs[w].stage = "statement",
         ChangeRow(jobs[w])
  PROVE  \A s \in Smes : smes[s].state = "deleted" => smes'[s].state = "deleted"
<1> SUFFICES ASSUME NEW s \in Smes, smes[s].state = "deleted"
             PROVE  smes'[s].state = "deleted"
  OBVIOUS
<1>1. s # jobs[w].sme
  <2>1. CASE jobs[w].op = "create"  BY <2>1 DEF UuidsFresh
  <2>2. CASE Stored(jobs[w].sme)  BY <2>2 DEF Stored
  <2> QED  BY <2>1, <2>2 DEF ChangeRow
<1> QED  BY <1>1 DEF ChangeRow, TypeOK

LEMMA FreshInit == Init => UuidsFresh
BY DEF Init, UuidsFresh

\* A request that decides on a stored record, or on a fresh uuid, leaves uuids fresh.
LEMMA DecideFresh ==
  ASSUME TypeOK, UuidsFresh, NEW w \in Writers, NEW op, NEW s \in Smes, NEW rec,
         Decide(w, op, s, rec),
         \/ Stored(s) /\ op # "create"
         \/ smes[s].state = "unused" /\ \A v \in Writers : jobs[v] # Free => jobs[v].sme # s
  PROVE  UuidsFresh'
<1> DEFINE job == [op |-> op, sme |-> s, rec |-> rec, stage |-> "statement"]
<1>1. smes' = smes /\ jobs'[w] = job /\ \A v \in Writers \ {w} : jobs'[v] = jobs[v]
  BY DEF Decide, TypeOK
<1>2. job.op = op /\ job.sme = s  OBVIOUS
<1> HIDE DEF job
<1> SUFFICES ASSUME NEW v \in Writers,
                    jobs'[v] # Free, jobs'[v].op = "create", jobs'[v].stage = "statement"
             PROVE  /\ smes[jobs'[v].sme].state = "unused"
                    /\ \A u \in Writers \ {v} : jobs'[u] # Free => jobs'[u].sme # jobs'[v].sme
  BY <1>1 DEF UuidsFresh
<1>3. CASE v = w
  BY <1>1, <1>2, <1>3 DEF Stored
<1>4. CASE v # w
  <2>1. /\ smes[jobs[v].sme].state = "unused"
        /\ \A u \in Writers \ {v} : jobs[u] # Free => jobs[u].sme # jobs[v].sme
    BY <1>1, <1>4 DEF UuidsFresh
  <2>2. s # jobs[v].sme  BY <1>1, <1>4, <2>1 DEF Stored
  <2> QED  BY <1>1, <1>2, <1>4, <2>1, <2>2
<1> QED  BY <1>3, <1>4

\* A request that ends, or whose statement is done, leaves uuids fresh.
LEMMA SettleFresh ==
  ASSUME UuidsFresh, NEW w \in Writers,
         \A v \in Writers \ {w} : jobs'[v] = jobs[v],
         jobs'[w] = Free \/ (jobs'[w].stage = "invalidate" /\ jobs'[w].sme = jobs[w].sme),
         jobs[w] # Free,
         \A s \in Smes : s # jobs[w].sme => smes'[s] = smes[s],
         \A v \in Writers : jobs[v] # Free => jobs[v].sme \in Smes
  PROVE  UuidsFresh'
<1> SUFFICES ASSUME NEW v \in Writers,
                    jobs'[v] # Free, jobs'[v].op = "create", jobs'[v].stage = "statement"
             PROVE  /\ smes'[jobs'[v].sme].state = "unused"
                    /\ \A u \in Writers \ {v} : jobs'[u] # Free => jobs'[u].sme # jobs'[v].sme
  BY DEF UuidsFresh
<1>1. v # w  OBVIOUS
<1>2. /\ smes[jobs[v].sme].state = "unused"
      /\ \A u \in Writers \ {v} : jobs[u] # Free => jobs[u].sme # jobs[v].sme
  BY <1>1 DEF UuidsFresh
<1> QED  BY <1>1, <1>2

LEMMA FreshStep == TypeOK /\ UuidsFresh /\ [Next]_vars => UuidsFresh'
<1> SUFFICES ASSUME TypeOK, UuidsFresh, [Next]_vars PROVE UuidsFresh'  OBVIOUS
<1>a. \A v \in Writers : jobs[v] # Free => jobs[v] \in Jobs /\ jobs[v].sme \in Smes
  BY DEF TypeOK, Jobs
<1>b. ASSUME smes' = smes, jobs' = jobs PROVE UuidsFresh'  BY <1>b DEF UuidsFresh
<1>1. ASSUME NEW w \in Writers, NEW s \in Smes, NEW rec \in Recs, CreateSME(w, s, rec)
      PROVE  UuidsFresh'
  BY <1>1, DecideFresh DEF CreateSME
<1>2. ASSUME NEW w \in Writers, NEW s \in Smes, NEW rec \in Recs, NEW withStatus \in BOOLEAN,
             UpdateSME(w, s, rec, withStatus)
      PROVE  UuidsFresh'
  BY <1>2, DecideFresh DEF UpdateSME
<1>3. ASSUME NEW w \in Writers, NEW s \in Smes, DeleteSME(w, s)  PROVE UuidsFresh'
  BY <1>3, DecideFresh DEF DeleteSME
<1>4. ASSUME NEW w \in Writers, Execute(w)  PROVE UuidsFresh'
  <2>1. jobs'[w] = [jobs[w] EXCEPT !.stage = "invalidate"]  BY <1>4 DEF Execute, TypeOK
  <2>2. jobs'[w].stage = "invalidate" /\ jobs'[w].sme = jobs[w].sme
    BY <1>4, <1>a, <2>1 DEF Execute, Jobs
  <2>3. \A v \in Writers \ {w} : jobs'[v] = jobs[v]  BY <1>4 DEF Execute, TypeOK
  <2>4. \A s \in Smes : s # jobs[w].sme => smes'[s] = smes[s]
    BY <1>4 DEF Execute, ChangeRow, TypeOK
  <2> QED  BY <1>4, <1>a, <2>2, <2>3, <2>4, SettleFresh DEF Execute
<1>5. ASSUME NEW w \in Writers, ExecuteUnanswered(w)  PROVE UuidsFresh'
  <2>1. jobs'[w] = Free /\ \A v \in Writers \ {w} : jobs'[v] = jobs[v]
    BY <1>5 DEF ExecuteUnanswered, TypeOK
  <2>2. \A s \in Smes : s # jobs[w].sme => smes'[s] = smes[s]
    BY <1>5 DEF ExecuteUnanswered, ChangeRow, TypeOK
  <2> QED  BY <1>5, <1>a, <2>1, <2>2, SettleFresh DEF ExecuteUnanswered
<1>6. ASSUME NEW w \in Writers, Fail(w) \/ Invalidate(w)  PROVE UuidsFresh'
  <2>1. /\ jobs[w] # Free
        /\ smes' = smes
        /\ jobs'[w] = Free /\ \A v \in Writers \ {w} : jobs'[v] = jobs[v]
    BY <1>6 DEF Fail, Invalidate, TypeOK
  <2> QED  BY <1>a, <2>1, SettleFresh
<1>7. ASSUME NEW r \in Readers, NEW withFilter \in BOOLEAN, GetStatsOverview(r, withFilter)
      PROVE  UuidsFresh'
  BY <1>7, <1>b DEF GetStatsOverview
<1>8. ASSUME NEW r \in Readers, NEW a \in Attrs, Query(r, a) \/ SendError(r, a)
      PROVE  UuidsFresh'
  BY <1>8, <1>b DEF Query, SendError, Worker
<1>9. ASSUME NEW r \in Readers, Collect(r)  PROVE UuidsFresh'
  BY <1>9, <1>b DEF Collect
<1>10. CASE Tick  BY <1>10, <1>b DEF Tick
<1>11. CASE Restart  BY <1>11 DEF Restart, UuidsFresh
<1>12. CASE UNCHANGED vars  BY <1>12, <1>b DEF vars
<1> QED
  BY <1>1, <1>2, <1>3, <1>4, <1>5, <1>6, <1>7, <1>8, <1>9, <1>10, <1>11, <1>12
  DEF Next, Change, Serve

\* Whatever a request read before a record was deleted, its statement does not bring the
\* record back.
THEOREM DeletionsLast == Spec => DeletedForGood
<1> DEFINE Keeps == \A s \in Smes : smes[s].state = "deleted" => smes'[s].state = "deleted"
<1>1. TypeOK /\ UuidsFresh /\ [Next]_vars => [Keeps]_vars
  <2> SUFFICES ASSUME TypeOK, UuidsFresh, Next PROVE Keeps  OBVIOUS
  <2>1. ASSUME NEW w \in Writers, Execute(w) \/ ExecuteUnanswered(w)  PROVE Keeps
    BY <2>1, ChangeRowKeepsDeleted DEF Execute, ExecuteUnanswered
  <2>2. (\E w \in Writers : Execute(w) \/ ExecuteUnanswered(w)) \/ smes' = smes
    BY DEF Next, Change, Serve, CreateSME, UpdateSME, DeleteSME, Decide, Fail, Invalidate,
           GetStatsOverview, Query, SendError, Worker, Collect, Tick, Restart
  <2> QED  BY <2>1, <2>2
<1> QED  BY <1>1, TypeInit, TypeStep, FreshInit, FreshStep, PTL DEF Spec, DeletedForGood

-----------------------------------------------------------------------------
(* Refinement: the cache as CachedView sees it.                            *)

Truth == [a \in Attrs |-> Count(a)]
Excused == left > 0 /\ (missed \/ Invalidating)

LEMMA ViewInit == Init => View!Init
BY DEF Init, View!Init

\* A step that leaves table and cache alone, and whose request has no row to answer for
\* before or after it, is none of the cache's.
LEMMA ViewKept ==
  ASSUME smes' = smes, caching' = caching, Invalidating' = Invalidating
  PROVE  UNCHANGED View!vars
<1>1. Truth' = Truth  BY CountKept DEF Truth
<1> QED  BY <1>1 DEF Truth, caching, View!vars

\* A request that is free or about to run its statement has nothing to invalidate.
LEMMA InvalidatingKept ==
  ASSUME TypeOK, NEW w \in Writers, \A v \in Writers \ {w} : jobs'[v] = jobs[v],
         jobs[w] = Free \/ jobs[w].stage = "statement",
         jobs'[w] = Free \/ jobs'[w].stage = "statement"
  PROVE  Invalidating' = Invalidating
BY DEF Invalidating

LEMMA ViewStep == TypeOK /\ CacheInv /\ [Next]_vars => [View!Next]_(View!vars)
<1> SUFFICES ASSUME TypeOK, CacheInv, [Next]_vars PROVE View!Next \/ UNCHANGED View!vars
  OBVIOUS
<1> USE DEF View!Next
<1>a. ASSUME NEW w \in Writers, NEW op, NEW s, NEW rec, Decide(w, op, s, rec)
      PROVE  UNCHANGED View!vars
  <2>1. /\ \A v \in Writers \ {w} : jobs'[v] = jobs[v]
        /\ jobs[w] = Free /\ jobs'[w].stage = "statement"
    BY <1>a DEF Decide, TypeOK
  <2> QED  BY <1>a, <2>1, InvalidatingKept, ViewKept DEF Decide
<1>b. ASSUME smes' = smes, caching' = caching, jobs' = jobs  PROVE UNCHANGED View!vars
  <2>1. Invalidating' = Invalidating  BY <1>b DEF Invalidating
  <2> QED  BY <1>b, <2>1, ViewKept
<1>c. smes' = smes => Truth' = Truth  BY CountKept DEF Truth
<1>1. ASSUME NEW w \in Writers, NEW s \in Smes, NEW rec \in Recs, CreateSME(w, s, rec)
      PROVE  UNCHANGED View!vars
  BY <1>1, <1>a DEF CreateSME
<1>2. ASSUME NEW w \in Writers, NEW s \in Smes, NEW rec \in Recs, NEW withStatus \in BOOLEAN,
             UpdateSME(w, s, rec, withStatus)
      PROVE  UNCHANGED View!vars
  BY <1>2, <1>a DEF UpdateSME
<1>3. ASSUME NEW w \in Writers, NEW s \in Smes, DeleteSME(w, s)  PROVE UNCHANGED View!vars
  BY <1>3, <1>a DEF DeleteSME
<1>4. ASSUME NEW w \in Writers, Execute(w)  PROVE View!Change
  <2>1. jobs[w] \in Jobs /\ jobs'[w] = [jobs[w] EXCEPT !.stage = "invalidate"]
    BY <1>4 DEF Execute, TypeOK
  <2>2. jobs'[w].stage = "invalidate" /\ jobs'[w].op # "none"  BY <2>1 DEF Jobs
  <2>3. Invalidating'  BY <2>2 DEF Invalidating, Free
  <2>4. Excused' = (left > 0)  BY <1>4, <2>3 DEF Execute, Excused, caching
  <2> QED  BY <1>4, <2>4 DEF Execute, Excused, caching, View!Change
<1>5. ASSUME NEW w \in Writers, ExecuteUnanswered(w)  PROVE View!Change
  <2>1. left' = left /\ cache' = cache /\ missed' = (left > 0)  BY <1>5 DEF ExecuteUnanswered
  <2>2. left > 0 => Excused' = TRUE  BY <2>1 DEF Excused
  <2>3. ~(left > 0) => Excused' = FALSE  BY <2>1 DEF Excused
  <2> QED  BY <2>1, <2>2, <2>3 DEF Excused, View!Change
<1>6. ASSUME NEW w \in Writers, Fail(w)  PROVE UNCHANGED View!vars
  <2>1. /\ \A v \in Writers \ {w} : jobs'[v] = jobs[v]
        /\ jobs[w].stage = "statement" /\ jobs'[w] = Free
    BY <1>6 DEF Fail, TypeOK
  <2> QED  BY <1>6, <2>1, InvalidatingKept, ViewKept DEF Fail
<1>7. ASSUME NEW w \in Writers, Invalidate(w)  PROVE View!Drop
  <2>1. left' = 0 /\ Excused' = FALSE /\ Truth' = Truth
    BY <1>7, <1>c DEF Invalidate, Excused
  <2> QED  BY <2>1 DEF Excused, Truth, View!Drop
<1>8. ASSUME NEW r \in Readers, NEW withFilter \in BOOLEAN, GetStatsOverview(r, withFilter)
      PROVE  UNCHANGED View!vars
  BY <1>8, <1>b DEF GetStatsOverview
<1>9. ASSUME NEW r \in Readers, NEW a \in Attrs, Query(r, a) \/ SendError(r, a)
      PROVE  UNCHANGED View!vars
  BY <1>9, <1>b DEF Query, SendError, Worker
<1>10. ASSUME NEW r \in Readers, Collect(r)  PROVE View!Fill \/ UNCHANGED View!vars
  <2>1. CASE Cacheable(r)
    <3>1. left' = CacheTtl /\ CacheTtl > 0 /\ missed' = overlapped[r]
      BY <1>10, <2>1, SmeStatsAssumption DEF Collect
    <3>2. overlapped[r] => Excused'  BY <3>1 DEF Excused
    <3>3. ~overlapped[r] => cache' = Truth
      <4>1. got[r] \in [Attrs -> Counts] /\ cache' = got[r]  BY <1>10, <2>1 DEF Collect, TypeOK
      <4> QED  BY <2>1, <4>1 DEF Cacheable, CacheInv, ResponsesCurrent, Truth
    <3>4. Truth' = Truth  BY <1>10, <1>c DEF Collect
    <3>5. Excused' \in BOOLEAN  BY DEF Excused, Invalidating
    <3> QED  BY <3>1, <3>2, <3>3, <3>4, <3>5 DEF Excused, Truth, View!Fill
  <2>2. CASE ~Cacheable(r)
    BY <1>10, <2>2, <1>b DEF Collect
  <2> QED  BY <2>1, <2>2
<1>11. CASE Tick
  <2>1. left > 0 /\ left' = left - 1 /\ cache' = cache /\ Truth' = Truth  BY <1>11, <1>c DEF Tick
  <2>2. missed' = missed /\ Invalidating' = Invalidating  BY <1>11 DEF Tick, Invalidating
  <2>3. Excused' = (Excused /\ left' > 0)  BY <2>1, <2>2 DEF Excused
  <2>4. View!Age  BY <2>1, <2>3 DEF Excused, Truth, View!Age
  <2> QED  BY <2>4
<1>12. CASE Restart
  <2>1. left' = 0 /\ Excused' = FALSE /\ Truth' = Truth  BY <1>12, <1>c DEF Restart, Excused
  <2>2. View!Drop  BY <2>1 DEF Excused, Truth, View!Drop
  <2> QED  BY <2>2
<1>13. CASE UNCHANGED vars
  BY <1>13, <1>b DEF vars
<1> QED
  BY <1>1, <1>2, <1>3, <1>4, <1>5, <1>6, <1>7, <1>8, <1>9, <1>10, <1>11, <1>12, <1>13
  DEF Next, Change, Serve

\* The cache of GetStatsOverview implements CachedView: an answer is the table's or excused,
\* nothing but a change or a request excuses it, and no answer outlives the minute.
THEOREM CacheImplementsView == Spec => ImplementsView
BY TypeInit, TypeStep, CacheInit, CacheStep, ViewInit, ViewStep, PTL
DEF Spec, ImplementsView, View!Spec

\* What CachedView promises is enough: it answers with the truth unless it has an excuse,
\* whatever else the register and its requests do.
THEOREM ViewAnswersTruly == View!Spec => []View!TrueUnlessExcused
<1> USE DEF View!TrueUnlessExcused
<1>1. View!Init => View!TrueUnlessExcused  BY DEF View!Init
<1>2. View!TrueUnlessExcused /\ [View!Next]_(View!vars) => View!TrueUnlessExcused'
  BY DEF View!Next, View!vars, View!Change, View!Fill, View!Age, View!Drop
<1> QED  BY <1>1, <1>2, PTL DEF View!Spec

-----------------------------------------------------------------------------
(* Requests for the statistics.                                            *)

\* The goroutines of a request start together and end together.
WorkersTogether ==
  \A r \in Readers : (\A a \in Attrs : workers[r][a] = "idle") \/ (\A a \in Attrs : workers[r][a] # "idle")

\* A request under way can go on: its goroutines have all ended, or one has its query to
\* run, or an error to send and room for it.
RequestsProceed ==
  \A r \in Readers : Running(r) =>
    \/ Joined(r)
    \/ \E a \in Attrs :
         \/ workers[r][a] = "running"
         \/ /\ workers[r][a] = "failing"
            /\ Cardinality({b \in Attrs : workers[r][b] = "failed"}) < ErrsCapacity

\* A goroutine that has not sent its error leaves room for it.
LEMMA RoomForError ==
  ASSUME NEW r \in Readers, NEW a \in Attrs, workers[r][a] # "failed"
  PROVE  Cardinality({b \in Attrs : workers[r][b] = "failed"}) < ErrsCapacity
<1> DEFINE failed == {b \in Attrs : workers[r][b] = "failed"}
<1>1. IsFiniteSet(Attrs) /\ failed \subseteq Attrs /\ failed # Attrs
  BY SmeStatsAssumption
<1>2. Cardinality(failed) <= Cardinality(Attrs) /\ (Cardinality(failed) = Cardinality(Attrs) => failed = Attrs)
  BY <1>1, FS_Subset
<1>3. Cardinality(failed) \in Nat /\ Cardinality(Attrs) \in Nat
  BY <1>1, FS_Subset, FS_CardinalityType
<1> QED  BY <1>1, <1>2, <1>3 DEF ErrsCapacity

LEMMA TogetherStep == TypeOK /\ WorkersTogether /\ [Next]_vars => WorkersTogether'
<1> SUFFICES ASSUME TypeOK, WorkersTogether, [Next]_vars, NEW q \in Readers
             PROVE  \/ \A a \in Attrs : workers'[q][a] = "idle"
                    \/ \A a \in Attrs : workers'[q][a] # "idle"
  BY DEF WorkersTogether
<1>1. CASE workers' = workers
  BY <1>1 DEF WorkersTogether
<1>2. ASSUME NEW r \in Readers, NEW withFilter, GetStatsOverview(r, withFilter)
      PROVE  workers'[q] = workers[q] \/ \A a \in Attrs : workers'[q][a] # "idle"
  BY <1>2 DEF GetStatsOverview, TypeOK
<1>3. ASSUME NEW r \in Readers, NEW b \in Attrs, Query(r, b) \/ SendError(r, b)
      PROVE  \A a \in Attrs : workers'[q][a] = workers[q][a]
                              \/ (q = r /\ workers[q][b] # "idle" /\ workers'[q][a] # "idle")
  BY <1>3 DEF Query, SendError, Worker, TypeOK
<1>4. ASSUME NEW r \in Readers, Collect(r)
      PROVE  workers'[q] = workers[q] \/ \A a \in Attrs : workers'[q][a] = "idle"
  BY <1>4 DEF Collect, AllIdle, TypeOK
<1>5. CASE Restart
  BY <1>5 DEF Restart, AllIdle
<1>6. \/ workers' = workers
      \/ \E r \in Readers : \/ \E withFilter \in BOOLEAN : GetStatsOverview(r, withFilter)
                            \/ \E b \in Attrs : Query(r, b) \/ SendError(r, b)
                            \/ Collect(r)
      \/ Restart
  BY DEF Next, Change, Serve, CreateSME, UpdateSME, DeleteSME, Decide, Execute, ExecuteUnanswered,
         Fail, Invalidate, Tick, vars, readers
<1> QED  BY <1>1, <1>2, <1>3, <1>4, <1>5, <1>6 DEF WorkersTogether

\* No request for the statistics is ever stuck, however many of its queries fail: what
\* StatsAnswered needs besides the scheduler.
THEOREM NoRequestStuck == Spec => []RequestsProceed
<1>1. Init => WorkersTogether
  BY DEF Init, AllIdle, WorkersTogether
<1>2. TypeOK /\ WorkersTogether => RequestsProceed
  <2> SUFFICES ASSUME TypeOK, WorkersTogether, NEW r \in Readers, Running(r), ~Joined(r)
               PROVE  \E a \in Attrs :
                        \/ workers[r][a] = "running"
                        \/ /\ workers[r][a] = "failing"
                           /\ Cardinality({b \in Attrs : workers[r][b] = "failed"}) < ErrsCapacity
    BY DEF RequestsProceed
  <2>1. PICK a \in Attrs : workers[r][a] \notin {"done", "failed"}
    BY DEF Joined
  <2>2. workers[r][a] \in {"running", "failing"}
    BY <2>1 DEF WorkersTogether, Running, TypeOK
  <2> QED  BY <2>2, RoomForError
<1> QED  BY <1>1, <1>2, TypeInit, TypeStep, TogetherStep, PTL DEF Spec
=============================================================================
