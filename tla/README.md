# Verification of the SME backend

TLA+ modules for the Go backend in `src/` (county register of small enterprises: a
chi HTTP server over PostgreSQL, no transactions anywhere). TLC checks small instances;
TLAPS proves the main safety properties for every value of the constants.

## 1. The system

| Component | State | Operations | What it meets |
|---|---|---|---|
| Login and lock (`internal/auth/handler.go` Login, `internal/user/repository.go`) | `users.failed_login_count`, `locked_until` | Login, IncrementFailedLogin, ResetFailedLogin | concurrent attempts on one account; administrators |
| User rows (`internal/user`, password handlers of `internal/auth`, delegation in `internal/rbac`) | the other columns of `users` | CreateUser, UpdateUser, DeleteUser, both ResetPassword, ChangePassword, ForgotPassword, UpdateUserPermissions | each other, through one row |
| Sessions (`internal/auth`, `pkg/jwt`) | `revoked_tokens`; the claims inside tokens | Login, RefreshToken, Logout, RequireAuth, hourly cleanup | account changes, clocks, restarts |
| Audit log (`internal/audit`, `cmd/server/main.go`) | `logChan`, its worker, `audit_logs` | LogAsync, processLogs, Close, LogExport | every handler; shutdown |
| SME register (`internal/sme`) | `smes`; `statsCache`, `cacheExpiry` | CreateSME, UpdateSME, DeleteSME, SearchSMEs, GetStatsOverview, exports | concurrent writers and readers; the keys |
| Effective permissions (`internal/rbac`) | roles, role permissions, `custom_permissions`, the claims in tokens | GetUserPermissions, HasPermission, UpdateUserPermissions | Login and RefreshToken, user rows |
| Lists (`SearchUsers`, `SearchSMEs`, `SearchAuditLogs` and their handlers) | none of their own | a COUNT and a SELECT for each page | all that write the tables |
| Field encryption (`pkg/crypto`) | two keys from the environment | Encrypt, Decrypt, GenerateBlindIndex, ValidateKey | the register; restarts |
| Masking, exports, mail, config | none, or constants | pure functions and output | the log, external services |

Handlers run concurrently and share only the database, the audit channel, the statistics
cache and the connection pool. The components meet as follows: Login and RefreshToken read
`users` and put what they read into tokens; RequireAuth trusts the tokens and asks the
revocation table; services trust the claims; all of them log. The hard behaviours are

* read, compute, write back without a transaction, often a whole row (lost and stale updates);
* checks on copies as old as an Argon2 computation;
* two clocks, the application's and PostgreSQL's;
* a bounded queue that drops, a worker, and a shutdown with a timeout;
* a cache that is invalidated and refilled by different goroutines;
* single statements that fail, or commit while their answer is lost.

What makes each component correct: failures are all counted and a lock holds and ends;
rows are what was asked for, roles are given only by those who may, a generated password
must be changed; a revoked token stays out; permissions come from a role or from a
SUPER_ADMIN, are those of the account and go when they are taken; entries are stored once, in order, and not lost
by a clean shutdown; statistics served are the register's, or soon will be; a record shows what was last stored
and is found by what it shows; a walk through the pages shows every row, once.

`PROJECT.json` lists every component and, under `hazards`, every place where this code is
hard to test.

## 2. Modules

Each component has a module, an `MC` module with the small instances and a `Proofs` module.
A handler is cut into one action for each stretch between two points where another request
can intervene; a check that answers with an error and changes nothing is a guard.
Operators under a comment `Variant:` are not part of the specification: each is a plausible
mistake, used to show that a property would notice it.

**LoginLockout.** `count`, `lock` (time left; `NoLock` is NULL) and `active` are columns;
`stage`, `subject` and `seen` are Login's local state, `seen` being the copy of the row.
`Find` is the lookup and the lock check, `WrongPassword`, `CorrectPassword` and `Issue` the
rest of Login, `SetStatus` the other request that matters: no other writes these columns.
A statement whose error the code drops has an alternative that changes nothing. Application and
database are taken to read the same clock here. `failures` and `inflight` are
history.

**UserRows.** `rows` is the table; `jobs` holds, for each request, the statement its handler
has decided on, with the copy of the row it edited. `Written` says which columns each of the
statements of `repository.go` assigns. A decision names the row, the claims (`Actors`) and
the request (`Changes`); `Execute` runs the statement under the UNIQUE constraint, `Fail` is
its error; a statement that commits while its answer is lost counts as an `Execute`. `wanted` is each row as the answered requests asked for it, `stale` marks rows
hit by a statement decided on an older copy, `crowned` those a SUPER_ADMIN promoted; `by` and
`base` in a job, the claims and the row it was decided on, are history too. The
email stands for the username, which is written and checked with it.

**AccountRules** is what account administration promises, with a request as one step: who may
make which change of an account as it is now (`Lawful`). UserRows implements it with
`requests <- Asking`, `spoiled <- stale`: a statement on the row it was decided on is such a change, made for
the one who asked (`Change`); one that was overtaken spoils its row, and even then no other
account is touched, none vanishes and no address gets a second owner (`Spoil`).

**Sessions.** A token is its jti, with claims and time left. `revoked` is the table, `jobs` the
requests under way, with the stage they have reached. `DbLag` is how far `NOW()` is behind the
application's clock. `ticker` and `due` are the goroutine of runCleanup: its ticker starts with the
process, so that `Restart` puts a whole period before the next cleanup, fires at the end of each,
and drops what is not taken in time; a `Cleanup` whose DELETE fails leaves the table as it is. A
request holds only what its handler holds: the token and, for a refresh, the permissions for the new
pair. The fields `flag`, `held` and `fallback` of a job, and `out`, `leaks` and `spent`, are
history. Login is one step here: what it reads of the row, and when, is the business of
LoginLockout, and no property of this module is about the account a login saw.

**AuditTrail, AuditLog.** AuditTrail is the promise: offered entries are taken once, or dropped when
`Room` of them are pending and not before, those taken are settled in order, a good stop leaves
none. AuditLog is the code: `queue` is `logChan`, `current` the entry in the worker's INSERT,
`phase` what main does or how the process ended. The refinement maps `pending` to `current \o
queue`, `Room` to the channel's capacity and a request that will never log to an offered entry. A
send by a handler on a closed channel is not among the actions: main calls Close only after Shutdown
has returned without error, hence after the last handler (`HandlersFirst` in the proofs); the sends
of detached goroutines are.

**SmeStats.** A record is what the aggregates tell apart (`Attrs`, one aggregate for each);
`jobs` are requests that change the register, cut at their statement and at
`invalidateStatsCache`; `workers` and `got` are the goroutines and the response of a request
for the statistics; `left` is `cacheExpiry`. `overlapped` and `missed` are history. A request
the cache can answer changes nothing and is no action.

**CachedView** is what a cache of answers about a changing table promises. SmeStats implements
it with the aggregates of the register as `truth` and `missed \/ Invalidating` as the excuse of an
answer that may be wrong: only a change of the register or a new answer brings one, and it goes with the
answer, which lives for `Ttl` at most.

**Delegation.** `role`, `custom` and `active` are the tables, `pairs` the tokens in
circulation with their claims; revocation is the business of Sessions and left out. A
calculation (`calcs`) is one call of GetUserPermissions, cut at each of its three queries,
on behalf of Login, RefreshToken or the route that shows permissions; `row` and `dict` are
what it has read. A failing query ends it with what its caller falls back to (`spare`).
`writes` are delegations past their checks, holding the list they will write. `ever` and
`always` (in a calculation), `crowned` and `rooted` are history. A change of role is one step
here: UserRows has its rules, and to this module any sequence of roles may happen (`Moves`
bounds it for TLC).

**Listing.** `rows` gives each row in the filtered list its key in the order asked for; rows
are inserted, removed and moved at any moment. `phase` to `total` are a client's walk and
the request of its current page, cut between the COUNT and the SELECT; `HasNext` is computed
from the count as the handlers do it. Equal keys come in any order (`IsPage`), as the database may
choose anew for each statement. `start`, `front`, `late` and `mixed` are history.

**SmeRecords.** A ciphertext is the pair of the key and the text it was made from, a hash
that of the index key and the folded text; `server` holds the keys the process was started
with. `Kept` is the way of a text through normalizeOptionalFields, Sanitize and nilIfEmpty,
`Shown` its way back through decryptEntity, which leaves what it cannot decrypt as it is: a
ciphertext, `Garbled`. Clients send what they were shown (`Edited`) or type. Updates and
deletions are cut between FindByID and their statement; the other columns of a record are written
like the encrypted ones and have no part of their own, `status` does. `last`, `stale`,
`thanked` and `heads` are history. A statement that commits while its answer is lost counts as a
statement here; what it does to the cache is in SmeStats.

How the modules divide the code: UserRows and Delegation both have UpdateUserPermissions,
one for the column it writes among the other columns, one for the claims it is decided from;
Sessions and Delegation both have RefreshToken, one for the tokens, one for the permissions;
SmeStats and SmeRecords both have the register's handlers, one for the cache, one for the
columns.

## 3. Runs

Bounds are the constants of the cfg files; those that bound the model rather than configure
the code are marked `bound:` where they are declared.

| Run | Shows | Bounds, and why they are enough |
|---|---|---|
| lockout | every stored failure counts; only attempts under way pass a lock; a lock ends | one account (accounts share nothing), three attempts at once so that one can lock, one extend and one clear; threshold 3 of 5, count saturating one above it, a lock of 2 ticks |
| rows_admin | one row: serial unless stale, roles appointed, AccountRules | two requests at once, the fewest that race; three actors, one for each branch of the role rules, the owner among them |
| rows_accounts | two rows: the same rules, with addresses that move, and passwords with their flag | two requests; one existing and one new account, two addresses; one reset token, which expires |
| sessions | revocations are kept and obeyed | one account, two pairs (one exchanged for the other), two requests; access tokens live 1 tick, refresh tokens 2; the database clock 1 tick behind, so that a token can be dead for one side and alive for the other |
| sessions_refresh | permissions of a new pair are current; rows are cleaned up | one pair and two requests, so that a row can come late and come again after it was deleted, against an administrator who takes a permission away; access tokens live 1 tick, refresh tokens 2, the database clock is 1 behind; a cleanup every 2 ticks, so that a restart can come before the ticker fires or after. Pairs are exchanged up to the signing of the new one, which sessions has |
| audit | refinement, clean exit; entries settle, a shutdown ends | a queue of two with four entries: two pending, one in the worker, one to drop or to log late |
| stats | cache current unless excused, and current in the end; CachedView; deletions last; failing queries do not hang | one record, two writers (an update against a deletion), one reader against both, two aggregates so that they can disagree and that one error fills a channel of one; an answer lives for 2 ticks, so that an excuse can last longer than one and must still end |
| permissions | authority has a root; answers are fair; what is taken away leaves the tokens | two accounts, one of them demoted and promoted again; two permissions, one delegable and held by a role, one to delegate with; one pair of tokens, so that the pairs of a chain follow one another (each is the previous one's refresh, or a new login); one calculation and one delegation at a time against each other, the changes of role and the dictionary |
| pages | no row is missed or repeated but for the disturbances named; sizes | three rows and pages of one (the default), or two (the largest, of five asked for), so that walks have one to three pages; four keys, so that a row can come in at either end or between; sizes -1 and 0 |
| records | found as shown; readable; last write; one deletion | one record, two requests (an update against another or a deletion, two deletions); a required and an optional column; a text that is only tags, one that is changed by cleaning, one by folding, blanks; keys of 32 and 64 bytes with one head, of 16, and of 20, which no server starts with; two index keys |

No passing run can deadlock, and deadlock is checked in all of them: the world outside, which
may ask, insert or restart, always has a step. Symmetry is used in
safety runs only.

Runs that end in a violation, each of one property that quotes the code:

| Run | The code says | and does |
|---|---|---|
| rows_mixed_update | "Mixed updates: Full row update required" (`user/service.go:264`) | drops the address |
| sessions_rotation | "Rotate: revoke the old refresh token and issue a fresh pair" (`auth/handler.go:266`) | issues two pairs to two concurrent exchanges |

Divergences that the models contain and that have no run of their own:

* `user/service.go:260`: a role update and a status update that read the same row undo each
  other, though the comment (`:252`) says "use Atomic Update to prevent race conditions":
  the statement writes both columns as read (`stale` in UserRows). An update of
  one's own profile writes back the role and status it read in the same way (`:271`).
* `rbac/service.go:250`: of two delegations that read the same row one is lost, under the
  same comment (`:249`).
* `auth/handler.go:280`: a refresh signs the role of the old token and looks at no status,
  though it is said (`:269`) "to capture any administrative changes"; a demoted
  SUPER_ADMIN keeps the role as long as it refreshes. `TakenAwayInTheEnd` is therefore about
  the permissions in the claims, not about what RequirePermission lets a SUPER_ADMIN do.
* `audit/handler.go:131`: LogExport logs from a goroutine the shutdown does not wait for; on
  a closed channel its send panics and takes pending entries along, though Close is said
  (`audit/repository.go:56`) to ensure "all pending logs are saved" (`Panic` in AuditLog).
* `rbac/service.go:192`: a custom permission that is not active cannot be taken away, and is
  back when the dictionary has it again.
* `rbac/service.go:131`: the counts of the summary differ from the list: a SUPER_ADMIN's permissions
  count as delegated, and inactive custom ones count though they are not listed.
* `sme/service.go:83` and `:289`: an email is cleaned of HTML before it is hashed, the email searched
  for is not: a record with an apostrophe in its email is found by what it shows, not by what was
  typed; and as it shows `&#39;`, which the validator refuses, it cannot be saved as shown.
* `sme/service.go:81`: a name of nothing but tags passes `required,min=2` and is stored empty.
* `sme/handler.go:32`: `^(01|07)\d{8}|(2547|2541)\d{8}$` accepts a number with a tail, as
  each alternative has one anchor only.
* `pkg/crypto/crypto.go:40`: the message asks for "at least 16 bytes", but 17 to 23 and 25 to 31
  are refused.
* `audit/handler.go:31`: the audit logs have no largest page, and a negative one is a failed
  statement, not a bad request (`SizesInBounds` excepts them).
* `pkg/jwt/db_revocation.go:54`: the cleanup's hour begins with the process and nothing is deleted at
  its start; where idle processes are stopped (`render.yaml`, `plan: free`) it may never run.
* Of two deletions of a record the second answers 500, not 404; creations are not
  idempotent; a logged-out token whose expiry falls between the two checks of RequireAuth
  gets through (`"expired"` in `leaks`); a password reset leaves the lock of LoginLockout
  in force; `/logout` is outside RequireAuth, so that no LOGOUT entry is ever written
  (`Protected`).

**Fairness.** LoginLockout: a handler that has read a row runs to its answer, and time passes;
nothing makes a client call. Sessions: time passes, and a cleanup that is due runs unless the
process is restarted first; restarts are not limited. AuditLog: the worker is scheduled and its
INSERTs return, with or without an error; main proceeds and its timeout fires, while handlers may
hang. SmeStats: the aggregates return, goroutines are scheduled, time passes. Delegation: requests
that have begun go on, with or without an error, and tokens run out; nobody need ask for anything.
Goroutines that can run do run, queries end because the driver answers or the connection breaks, and
timers fire. UserRows, Listing and SmeRecords have only safety properties and state no fairness.

**Premises.** Some properties name what they cannot hold under, and the runs contain those cases:
`RowsCleaned` at processes that never live until their cleanup runs (the first comes an hour after
the start, so that a service put to sleep before each time never deletes a row) and at a DELETE that
always fails; it is enough that from some time on none is lost, or that again and again one
succeeds; `NothingMissed` and `NothingTwice` stop at ties, deletions, moves and rows that come in
between others (`mixed`), because an offset counts rows and not the client's place;
`TakenAwayInTheEnd` at refreshes that for ever fail to read the tables, which keep the old
permissions, or meet a dictionary that never stops changing; `CalculatedFairly` at a dictionary that
changes between the queries; `FoundAsShown` at records stored under another index key and those
shown as a ciphertext; `ReadableWhileSameKey` at a change of the key's first 32 bytes.

## 4. Proofs

Eight modules hold the theorems listed in `PROJECT.json`; each extends its component and uses
only the assumptions named there (`LockoutAssumption` and so on).

* **LoginLockoutProofs.** `LockMatchesFailures` is inductive with the equality of the count
  and its history; `OnlyInFlightPassLock` needs that the lock is set while all attempts
  under way are recorded, and that none begins under a lock. `LocksRunDown`: a lock gets longer
  only when an attempt ends, and under a lock none begins, so that each attempt under way can do
  so once.
* **UserRowsProofs.** A row satisfies an invariant only if every pending statement would
  write a row that does: the invariants therefore quantify over the copies in `jobs`.
  `TempFlagCorrect` needs that only full-row statements write the password and always with
  the flag; `SuperAdminsCorrect` that a copy with the role was read from a crowned account
  or decided by a SUPER_ADMIN; `SerialCorrect` assumes `NoMixedChanges`, without which
  rows_mixed_update shows it false, and relates a pending copy to what its request asks for.
  `RowsFollowRules` is the refinement: `LawfulInv` says of every pending statement that it is a
  change its requester may make of the row it was decided on, hence of the row as it is when
  the two are the same. `UnmixedUpdatesStored` is the other side of rows_mixed_update: under
  `NoMixedChanges` every address asked for is stored. `ApartIsSerial` is that of SerialUnlessStale:
  while no two requests are between decision and statement on one row (`Apart`), no row is
  ever stale, and all rows are as asked for.
* **SessionsProofs.** `RevocationKept` follows from the cleanup's `<` against the check's
  `>`. `RevokedStayOut` strengthens it with a fact about requests under way: the token of a
  flagged request was out when it began, hence still has its row while it is live, whatever
  was cleaned up since. `RefreshedPermissionsCurrent` carries the account's values since the
  start of the refresh. `OutdatedForGood`: rows leave the table exactly when they are
  outdated, since no token gets time back (`TimeRunsDown`; a fresh jti has no row), whatever the ticker does. `ExchangedOnce` is the other side
  of sessions_rotation: it names the three things that must not happen for a refresh token to have one
  successor (`Apart`, `Stored`, `Stopped`).
* **AuditLogProofs.** The invariant `Inv` says that the log closes after the last handler,
  that the worker returns after the last entry and that nothing is in memory once a process
  has ended. `ShutdownClean` and the step-by-step refinement `LogImplementsTrail` follow.
  `EntriesStoredOnce` is proved over the steps of AuditTrail, through the refinement: what is
  stored and what is pending are disjoint and without repetition, and both were taken
  (`OnceInv`). `ClosingRunsDown`: nothing joins the queue that main waits for.
* **SmeStatsProofs.** `CacheCorrect` needs that a response no change has overlapped is that
  of the table (`ResponsesCurrent`); `DeletionsLast` that a pending creation has its uuid
  for itself (`UuidsFresh`). `CacheImplementsView` takes the steps to those of CachedView one
  by one, and `ViewAnswersTruly` shows what that promise is good for. `NoRequestStuck`: the
  goroutines of a request start and end together (`WorkersTogether`), and each sends one
  error at most, so that a channel with a place for each never blocks one, for any number.
* **DelegationProofs.** `AuthorityHasARoot` needs the same of everything under way that will
  become a row or claims: calculations (the row read, the dictionary, what a failing query
  falls back to) and lists waiting to be written (`RootedInv`). `FairWithoutSnapshot` relates what each query
  has read to `ever` and `always` (`CalcsFair`). `GoneForGood`: a permission that is gone (in no token,
  and in no calculation's answer to come, its fallback included) stays gone while it is not
  effective and the dictionary rests.
* **ListingProofs.** For lists of any finite size. Between the changes excused, a row has been given
  exactly if its rank (the number of rows before it) is below the number of rows the pages
  so far cover (`WalkInv`); a row that comes in front moves every rank up by one, so that
  nothing is missed, one behind changes none.
* **SmeRecordsProofs.** `StoredInv`: ciphertext and hash in a row are of one text, and of keys
  there have been. `StatusInv`: a request that was not overtaken holds the status of the
  row. `ReadableInv`: while the key's head is one and the same, no ciphertext of a
  ciphertext is stored or waiting. What is assumed of the constants is that bluemonday makes a text
  of a text and no ciphertext of another text, that it leaves more than blanks, or nothing, of
  a valid optional text (an email has no blanks), that no
  ciphertext is typed, and that secrets with one head have one length or both 32 bytes at least.

Only model-checked: the violations, and liveness (LockEnds, RowsCleaned, EntriesSettled,
ShutdownEnds, CacheSettles, StatsAnswered, TakenAwayInTheEnd), which is outside what the
prover does. What can be proved of these is the safety half, which says that the way to the
goal is never lengthened again: LocksRunDown, OutdatedForGood, ClosingRunsDown,
CacheImplementsView (an excuse does not outlive its answer), NoRequestStuck and GoneForGood. That the steps on that way
are taken is fairness, and TLC's part. Of EntriesSettled there is no such half beyond the
refinement: an entry taken leaves the front of the queue by a `Settle` of AuditTrail only.

## 5. Not modelled

Rate limiting, JSON decoding, validation of field formats (but for its place in SmeRecords),
audit entries of the handlers
other than in AuditLog, `last_login` (written by a detached goroutine, read by nobody),
mail, exports, response formats, headers and log lines; the filters of the lists, which are
equalities and ILIKE evaluated by PostgreSQL; the plain reads (roles, dictionary, categories,
sub-counties, wards). AES-GCM, Argon2 and HMAC are library calls, taken to be ideal where a
module uses them. The in-memory revocation store is constructed by nobody. Page numbers a client
makes up are not walks: a negative one is a failed statement.

What would be left to do: the composition of Sessions with UserRows, which would show on rows
what Delegation shows on claims, and an abstract promise for it. The suite is kept to a
dozen runs, so that all of it can be repeated after each change.
