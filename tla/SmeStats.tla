------------------------------ MODULE SmeStats ------------------------------
(***************************************************************************)
(* The register of SMEs and its statistics (internal/sme).  CreateSME,     *)
(* UpdateSME and DeleteSME run one statement and then invalidate the cache *)
(* of GetStatsOverview; GetStatsOverview asks the database one aggregate   *)
(* per goroutine, without a transaction, and caches the answers for a      *)
(* minute.  A record is what the aggregates tell apart; encryption, blind  *)
(* indexes and names are left out.                                         *)
(***************************************************************************)
EXTENDS Integers, FiniteSets

CONSTANTS
  Smes,      \* uuids, of present and future records
  Attrs,     \* the columns counted, one aggregate for each; "status" is one
  Values,    \* what they hold
  Active,    \* the status of a fresh record
  Writers,   \* slots for requests that change the register
  Readers,   \* slots for requests for the statistics
  CacheTtl   \* 60 seconds, in ticks

Recs == [Attrs -> Values]

ASSUME SmeStatsAssumption ==
  /\ IsFiniteSet(Smes)
  /\ IsFiniteSet(Attrs)
  /\ "status" \in Attrs
  /\ Active \in Values
  /\ CacheTtl \in Nat \ {0}

Counts == [Values -> Nat]
NoRows == [v \in Values |-> 0]
NoRec == [a \in Attrs |-> Active]
Free == [op |-> "none"]
Jobs == [op : {"create", "update", "delete"}, sme : Smes, rec : Recs,
         stage : {"statement", "invalidate"}]

VARIABLES
  smes,        \* the table
  jobs,        \* requests that change it
  workers,     \* the goroutines of each request for the statistics
  got,         \* its response so far
  filtered,    \* it names a sub-county or a ward: the cache is not for it
  overlapped,  \* history: the table has changed since it began
  cache,       \* statsCache
  left,        \* cacheExpiry, as time left
  missed       \* history: the cache may miss a change that nothing will invalidate it for

readers == <<workers, got, filtered, overlapped>>
caching == <<cache, left, missed>>
vars == <<smes, jobs, readers, caching>>

TypeOK ==
  /\ smes \in [Smes -> [state : {"unused", "stored", "deleted"}, rec : Recs]]
  /\ jobs \in [Writers -> Jobs \cup {Free}]
  /\ workers \in [Readers -> [Attrs -> {"idle", "running", "done", "failing", "failed"}]]
  /\ got \in [Readers -> [Attrs -> Counts]]
  /\ filtered \in [Readers -> BOOLEAN]
  /\ overlapped \in [Readers -> BOOLEAN]
  /\ cache \in [Attrs -> Counts]
  /\ left \in 0..CacheTtl
  /\ missed \in BOOLEAN

NoResponse == [a \in Attrs |-> NoRows]
AllIdle == [a \in Attrs |-> "idle"]

Init ==
  /\ smes = [s \in Smes |-> [state |-> "unused", rec |-> NoRec]]
  /\ jobs = [w \in Writers |-> Free]
  /\ workers = [r \in Readers |-> AllIdle]
  /\ got = [r \in Readers |-> NoResponse]
  /\ filtered = [r \in Readers |-> FALSE]
  /\ overlapped = [r \in Readers |-> FALSE]
  /\ cache = NoResponse
  /\ left = 0
  /\ missed = FALSE

-----------------------------------------------------------------------------
(* Changes of the register, for requests with the permission.              *)

Stored(s) == smes[s].state = "stored"

Decide(w, op, s, rec) ==
  /\ jobs[w] = Free
  /\ jobs' = [jobs EXCEPT ![w] = [op |-> op, sme |-> s, rec |-> rec, stage |-> "statement"]]
  /\ UNCHANGED <<smes, readers, caching>>

\* Variant: the status of the request is stored, and it has none.
CreateStatusless(w, s, rec) ==
  /\ smes[s].state = "unused"
  /\ \A v \in Writers : jobs[v] # Free => jobs[v].sme # s
  /\ Decide(w, "create", s, [rec EXCEPT !["status"] = "none"])

\* A fresh uuid; the status of the request is ignored.
CreateSME(w, s, rec) ==
  /\ smes[s].state = "unused"
  /\ \A v \in Writers : jobs[v] # Free => jobs[v].sme # s
  /\ Decide(w, "create", s, [rec EXCEPT !["status"] = Active])

\* FindByID, and every column from the request; the status is the row's, as read,
\* when the request has none.
UpdateSME(w, s, rec, withStatus) ==
  /\ Stored(s)
  /\ Decide(w, "update", s, IF withStatus THEN rec
                                          ELSE [rec EXCEPT !["status"] = smes[s].rec["status"]])

DeleteSME(w, s) ==
  /\ Stored(s)
  /\ Decide(w, "delete", s, NoRec)

Running(r) == \E a \in Attrs : workers[r][a] # "idle"

\* Variant: the UPDATE brings a deleted row back.
UpsertRow(j) ==
  /\ smes' = [smes EXCEPT ![j.sme] =
       [state |-> IF j.op = "delete" THEN "deleted" ELSE "stored", rec |-> j.rec]]
  /\ overlapped' = [r \in Readers |-> overlapped[r] \/ Running(r)]

\* INSERT, UPDATE ... WHERE id or DELETE ... WHERE id, when there is a row for it.
ChangeRow(j) ==
  /\ j.op = "create" \/ Stored(j.sme)
  /\ smes' = [smes EXCEPT ![j.sme] =
       [state |-> IF j.op = "delete" THEN "deleted" ELSE "stored", rec |-> j.rec]]
  /\ overlapped' = [r \in Readers |-> overlapped[r] \/ Running(r)]

\* The statement succeeds.
Execute(w) ==
  /\ jobs[w] # Free
  /\ jobs[w].stage = "statement"
  /\ ChangeRow(jobs[w])
  /\ jobs' = [jobs EXCEPT ![w].stage = "invalidate"]
  /\ UNCHANGED <<workers, got, filtered, caching>>

\* It is committed and its answer lost: the request fails, and invalidates nothing.
ExecuteUnanswered(w) ==
  /\ jobs[w] # Free
  /\ jobs[w].stage = "statement"
  /\ ChangeRow(jobs[w])
  /\ jobs' = [jobs EXCEPT ![w] = Free]
  /\ missed' = (left > 0)
  /\ UNCHANGED <<workers, got, filtered, cache, left>>

\* It changes nothing: an error, or the row has gone (sql.ErrNoRows).
Fail(w) ==
  /\ jobs[w] # Free
  /\ jobs[w].stage = "statement"
  /\ jobs' = [jobs EXCEPT ![w] = Free]
  /\ UNCHANGED <<smes, readers, caching>>

\* Variant: the expiry is left as it is.
InvalidateNothing(w) ==
  /\ jobs[w] # Free
  /\ jobs[w].stage = "invalidate"
  /\ jobs' = [jobs EXCEPT ![w] = Free]
  /\ UNCHANGED <<smes, readers, caching>>

\* invalidateStatsCache, and the audit entry.
Invalidate(w) ==
  /\ jobs[w] # Free
  /\ jobs[w].stage = "invalidate"
  /\ jobs' = [jobs EXCEPT ![w] = Free]
  /\ left' = 0
  /\ missed' = FALSE
  /\ UNCHANGED <<smes, readers, cache>>

-----------------------------------------------------------------------------
(* Statistics.                                                             *)

\* SELECT attribute, COUNT(*) ... GROUP BY attribute.
Count(a) == [v \in Values |-> Cardinality({s \in Smes : Stored(s) /\ smes[s].rec[a] = v})]

\* The cache is looked at first, unless the request has a filter; one it can answer is
\* answered at once.
GetStatsOverview(r, withFilter) ==
  /\ ~Running(r)
  /\ withFilter \/ left = 0
  /\ workers' = [workers EXCEPT ![r] = [a \in Attrs |-> "running"]]
  /\ filtered' = [filtered EXCEPT ![r] = withFilter]
  /\ overlapped' = [overlapped EXCEPT ![r] = FALSE]
  /\ UNCHANGED <<smes, jobs, got, caching>>

Worker(r, a, from, to) ==
  /\ workers[r][a] = from
  /\ workers' = [workers EXCEPT ![r][a] = to]
  /\ UNCHANGED <<smes, jobs, filtered, overlapped, caching>>

\* A goroutine's aggregate, of the rows committed when it runs, or its error.
Query(r, a) ==
  \/ Worker(r, a, "running", "done") /\ got' = [got EXCEPT ![r][a] = Count(a)]
  \/ Worker(r, a, "running", "failing") /\ UNCHANGED got

\* Variant: the channel has room for one error.
RoomForOne == 1

\* The capacity of errs: one place for each goroutine.
ErrsCapacity == Cardinality(Attrs)

\* errs <- err waits while the channel is full; nobody receives before wg.Wait returns.
SendError(r, a) ==
  /\ Cardinality({b \in Attrs : workers[r][b] = "failed"}) < ErrsCapacity
  /\ Worker(r, a, "failing", "failed")
  /\ UNCHANGED got

Joined(r) == \A a \in Attrs : workers[r][a] \in {"done", "failed"}

\* Variant: a response with an error is cached too.
CacheAnyway(r) == ~filtered[r]

\* The response is that of the whole table: it goes into the cache.
Cacheable(r) == ~filtered[r] /\ \A a \in Attrs : workers[r][a] = "done"

\* wg.Wait returns; a complete response is cached and the request answered.
Collect(r) ==
  /\ Joined(r)
  /\ IF Cacheable(r)
       THEN /\ cache' = got[r]
            /\ left' = CacheTtl
            /\ missed' = overlapped[r]
       ELSE UNCHANGED caching
  /\ workers' = [workers EXCEPT ![r] = AllIdle]
  /\ got' = [got EXCEPT ![r] = NoResponse]
  /\ filtered' = [filtered EXCEPT ![r] = FALSE]
  /\ overlapped' = [overlapped EXCEPT ![r] = FALSE]
  /\ UNCHANGED <<smes, jobs>>

\* Time passes.
Tick ==
  /\ left > 0
  /\ left' = left - 1
  /\ UNCHANGED <<smes, jobs, readers, cache, missed>>

\* The process is restarted.
Restart ==
  /\ jobs' = [w \in Writers |-> Free]
  /\ workers' = [r \in Readers |-> AllIdle]
  /\ got' = [r \in Readers |-> NoResponse]
  /\ filtered' = [r \in Readers |-> FALSE]
  /\ overlapped' = [r \in Readers |-> FALSE]
  /\ cache' = NoResponse
  /\ left' = 0
  /\ missed' = FALSE
  /\ UNCHANGED smes

Change(w) ==
  \/ \E s \in Smes :
       \/ \E rec \in Recs : CreateSME(w, s, rec)
       \/ \E rec \in Recs, withStatus \in BOOLEAN : UpdateSME(w, s, rec, withStatus)
       \/ DeleteSME(w, s)
  \/ Execute(w) \/ ExecuteUnanswered(w) \/ Fail(w)
  \/ Invalidate(w)

Serve(r) ==
  \/ \E a \in Attrs : Query(r, a) \/ SendError(r, a)
  \/ Collect(r)

Next ==
  \/ \E w \in Writers : Change(w)
  \/ \E r \in Readers : Serve(r) \/ \E withFilter \in BOOLEAN : GetStatsOverview(r, withFilter)
  \/ Tick
  \/ Restart

\* Queries return, goroutines that can run do, and time passes; requests come as they like.
Fairness == WF_vars(Tick) /\ \A r \in Readers : WF_vars(Serve(r))

Spec == Init /\ [][Next]_vars /\ Fairness

-----------------------------------------------------------------------------
(* Properties.                                                             *)

Invalidating == \E w \in Writers : jobs[w] # Free /\ jobs[w].stage = "invalidate"

\* What is served from the cache is what the table holds, unless a change is between its
\* statement and its invalidation, overlapped the queries that filled the cache, or
\* was committed by a request that failed.
CacheCurrent ==
  left > 0 /\ ~missed /\ ~Invalidating => \A a \in Attrs : cache[a] = Count(a)

\* The cache implements CachedView.
View == INSTANCE CachedView WITH
  Ttl <- CacheTtl,
  truth <- [a \in Attrs |-> Count(a)],
  answer <- cache,
  life <- left,
  excused <- left > 0 /\ (missed \/ Invalidating)

\* Every answer from the cache is that of the table or has an excuse, which only a change of the
\* register or a request for the statistics makes, and which is gone after a minute or with
\* the next invalidation (GetStatsOverview, invalidateStatsCache).
ImplementsView == View!Spec

\* Whatever was missed, a register that no longer changes is served as it is in the end.
CacheSettles ==
  <>[][FALSE]_smes => <>[](left > 0 => \A a \in Attrs : cache[a] = Count(a))

\* A request for the statistics is answered, however many of its queries fail.
StatsAnswered == \A r \in Readers : []<>~Running(r)

\* An update decided before a deletion does not bring the record back.
DeletedForGood ==
  [][\A s \in Smes : smes[s].state = "deleted" => smes'[s].state = "deleted"]_vars
=============================================================================
