------------------------------ MODULE Sessions ------------------------------
(***************************************************************************)
(* Access and refresh tokens: issued at login, exchanged by RefreshToken,  *)
(* revoked by Logout (internal/auth/handler.go), checked by RequireAuth    *)
(* (internal/auth/middleware.go), with the revocation table of             *)
(* pkg/jwt/db_revocation.go.                                               *)
(*                                                                         *)
(* A token is its jti: the claims are fixed when it is signed and no other *)
(* server state knows of it, except a row of revoked_tokens.  Its expiry   *)
(* is modelled by the time it has left.  The application compares it with  *)
(* its own clock and PostgreSQL with NOW(); DbLag is how far NOW() is      *)
(* behind (ahead, when negative).                                          *)
(***************************************************************************)
EXTENDS Integers, FiniteSets

CONSTANTS
  Users,          \* accounts
  AccessJtis,     \* bound: the access tokens that can be issued
  RefreshJtis,    \* bound: the refresh tokens that can be issued
  Requests,       \* slots for concurrent requests
  AccessTtl,      \* JWT_EXPIRATION_HOURS, in ticks
  RefreshTtl,     \* REFRESH_TOKEN_EXPIRY_DAYS, in ticks
  DbLag,          \* clock skew, in ticks
  CleanupPeriod,  \* the hour between two cleanups, in ticks
  Ops,            \* bound: the requests clients make
  Accounts        \* what an account may be: its role, its effective permissions and
                  \* whether it is active

Jtis == AccessJtis \cup RefreshJtis

ASSUME SessionsAssumption ==
  /\ AccessJtis \cap RefreshJtis = {}
  /\ AccessTtl \in Nat \ {0}
  /\ RefreshTtl \in Nat \ {0}
  /\ DbLag \in Int
  /\ CleanupPeriod \in Nat \ {0}
  /\ Users # {} /\ Accounts # {}

PermSets == {a.perms : a \in Accounts}
Claims == [user : Users, role : {a.role : a \in Accounts}, perms : PermSets]

\* A token the client left out.
NoJti == "none"

\* The routes behind RequireAuth, whose handlers find a user in their context;
\* /api/auth/logout and /api/auth/refresh are registered outside of it.
Protected == {"access"}

\* The slot of a request that is not under way; a token never issued has run out.
Free == [op |-> "none"]
Floor == -1 - (IF DbLag > 0 THEN DbLag ELSE 0)

Jobs == [op : {"access", "refresh", "logout"},
         stage : {"check", "rotate", "permissions", "issue", "access", "refresh"},
         jti : Jtis \cup {NoJti},    \* the token presented (logout: the access token)
         other : Jtis \cup {NoJti},  \* logout: the refresh token
         flag : BOOLEAN,             \* history: the token was in out
         held : SUBSET Accounts,     \* history: what the account has been since the start
         perms : PermSets,           \* refresh: for the new pair
         fallback : BOOLEAN]         \* refresh: those permissions are the old token's

VARIABLES
  accounts,  \* users.role, status and the permissions computed from the row
  issued,    \* tokens signed so far
  claims,    \* their claims
  left,      \* the time they have left
  revoked,   \* rows of revoked_tokens
  jobs,      \* requests under way
  ticker,    \* the time until the cleanup's ticker fires
  due,       \* it has fired, and the cleanup has not run since
  audited,   \* access tokens with a LOGOUT entry in the audit log
  out,       \* history: tokens whose revocation has been stored
  leaks,     \* history: how a token in out when its request began got through, other
             \* than by a check that failed
  spent      \* history: the refresh tokens exchanged for a pair

tokens == <<issued, claims, left>>
cleaner == <<ticker, due>>
history == <<out, leaks, spent>>
vars == <<accounts, tokens, revoked, jobs, cleaner, audited, history>>

TypeOK ==
  /\ accounts \in [Users -> Accounts]
  /\ issued \subseteq Jtis
  /\ claims \in [Jtis -> Claims]
  /\ left \in [Jtis -> Int] /\ \A j \in Jtis : left[j] >= Floor
  /\ revoked \subseteq issued
  /\ jobs \in [Requests -> Jobs \cup {Free}]
  /\ ticker \in 1..CleanupPeriod
  /\ due \in BOOLEAN
  /\ audited \subseteq AccessJtis
  /\ out \subseteq issued
  /\ leaks \subseteq {"expired", "live"}
  /\ spent \subseteq RefreshJtis

Init ==
  /\ accounts \in [Users -> {a \in Accounts : a.active}]
  /\ issued = {}
  /\ claims = [j \in Jtis |-> CHOOSE c \in Claims : TRUE]
  /\ left = [j \in Jtis |-> Floor]
  /\ revoked = {}
  /\ jobs = [r \in Requests |-> Free]
  /\ ticker = CleanupPeriod
  /\ due = FALSE
  /\ audited = {}
  /\ out = {}
  /\ leaks = {}
  /\ spent = {}

-----------------------------------------------------------------------------
(* Tokens and the revocation table.                                        *)

\* ValidateAccessToken, ValidateRefreshToken: signed by us and before its expiry.
Valid(j) == j \in issued /\ left[j] > 0

\* Variant: only rows that have expired count.
IsRevokedLater(j) == j \in revoked /\ left[j] + DbLag < 0

\* SELECT ... WHERE jti = $1 AND expires_at > NOW()
IsRevoked(j) == j \in revoked /\ left[j] + DbLag > 0

\* INSERT ... ON CONFLICT DO NOTHING, or an error that is only logged.
Revoke(j) ==
  \/ revoked' = revoked \cup {j} /\ out' = out \cup {j}
  \/ UNCHANGED <<revoked, out>>

\* GenerateTokenPair: two fresh jtis with the same claims.
GenerateTokenPair(a, f, c) ==
  /\ a \in AccessJtis \ issued
  /\ f \in RefreshJtis \ issued
  /\ issued' = issued \cup {a, f}
  /\ claims' = [claims EXCEPT ![a] = c, ![f] = c]
  /\ left' = [left EXCEPT ![a] = AccessTtl, ![f] = RefreshTtl]

\* Variant: the application's clock is used.
OutdatedHere == {j \in revoked : left[j] < 0}

\* DELETE ... WHERE expires_at < NOW().
Outdated == {j \in revoked : left[j] + DbLag < 0}

\* runCleanup, each time its ticker has fired; a DELETE that fails is only logged.
Cleanup ==
  /\ due
  /\ due' = FALSE
  /\ \/ revoked' = revoked \ Outdated
     \/ UNCHANGED revoked
  /\ UNCHANGED <<accounts, ticker, tokens, jobs, audited, history>>

-----------------------------------------------------------------------------
(* Requests.                                                               *)

Become(r, job) == jobs' = [jobs EXCEPT ![r] = job]

\* Login, for an ACTIVE account, as one step: LoginLockout has the time between its reads,
\* and no property here is about the account that a login saw.
Login(u, a, f) ==
  /\ accounts[u].active
  /\ GenerateTokenPair(a, f, [user |-> u, role |-> accounts[u].role, perms |-> accounts[u].perms])
  /\ UNCHANGED <<accounts, cleaner, revoked, jobs, audited, history>>

\* RequireAuth and RefreshToken begin alike: the token's signature and expiry.
Begin(r, op, j) ==
  /\ op \in Ops
  /\ jobs[r] = Free
  /\ Valid(j)
  /\ Become(r, [op |-> op, stage |-> "check", jti |-> j, other |-> NoJti, flag |-> j \in out,
                held |-> IF op = "refresh" THEN {accounts[claims[j].user]} ELSE {},
                perms |-> claims[j].perms, fallback |-> FALSE])
  /\ UNCHANGED <<accounts, cleaner, tokens, revoked, audited, history>>

At(r, op, stage) == jobs[r] # Free /\ jobs[r].op = op /\ jobs[r].stage = stage

\* The request gets past the revocation check.
Pass(r) ==
  Become(r, IF jobs[r].op = "access" THEN Free
                                     ELSE [jobs[r] EXCEPT !.stage = "rotate", !.flag = FALSE])

\* The revocation check, some time later: 401 for a revoked token, and a failing
\* query counts as "not revoked".
Check(r) ==
  LET j == jobs[r].jti IN
  /\ At(r, "access", "check") \/ At(r, "refresh", "check")
  /\ \/ IsRevoked(j) /\ Become(r, Free) /\ UNCHANGED leaks
     \/ /\ ~IsRevoked(j)
        /\ Pass(r)
        /\ leaks' = leaks \cup (IF ~jobs[r].flag THEN {}
                               ELSE IF left[j] > 0 THEN {"live"} ELSE {"expired"})
     \/ Pass(r) /\ UNCHANGED leaks
  /\ UNCHANGED <<accounts, cleaner, tokens, revoked, audited, out, spent>>

\* RefreshToken, continued: the old token is revoked,
Rotate(r) ==
  /\ At(r, "refresh", "rotate")
  /\ Revoke(jobs[r].jti)
  /\ Become(r, [jobs[r] EXCEPT !.stage = "permissions"])
  /\ UNCHANGED <<accounts, cleaner, tokens, audited, leaks, spent>>

\* Variant: the permissions of the old token are kept.
ReadNothing(r) ==
  /\ At(r, "refresh", "permissions")
  /\ Become(r, [jobs[r] EXCEPT !.stage = "issue"])
  /\ UNCHANGED <<accounts, cleaner, tokens, revoked, audited, history>>

\* the permissions are computed afresh, or kept when that fails,
ReadPermissions(r) ==
  LET job == jobs[r] IN
  /\ At(r, "refresh", "permissions")
  /\ \/ Become(r, [job EXCEPT !.stage = "issue", !.perms = accounts[claims[job.jti].user].perms])
     \/ Become(r, [job EXCEPT !.stage = "issue", !.fallback = TRUE])
  /\ UNCHANGED <<accounts, cleaner, tokens, revoked, audited, history>>

\* and a pair is signed with them and with the role of the old token.
Issue(r, a, f) ==
  LET j == jobs[r].jti IN
  /\ At(r, "refresh", "issue")
  /\ GenerateTokenPair(a, f, [claims[j] EXCEPT !.perms = jobs[r].perms])
  /\ spent' = spent \cup {j}
  /\ Become(r, Free)
  /\ UNCHANGED <<accounts, cleaner, revoked, audited, out, leaks>>

\* Logout, with whatever tokens the client sends, or none.
BeginLogout(r, a, f) ==
  /\ "logout" \in Ops
  /\ jobs[r] = Free
  /\ {a, f} \subseteq issued \cup {NoJti}
  /\ Become(r, [op |-> "logout", stage |-> "access", jti |-> a, other |-> f, flag |-> FALSE,
                held |-> {}, perms |-> CHOOSE p \in PermSets : TRUE, fallback |-> FALSE])
  /\ UNCHANGED <<accounts, cleaner, tokens, revoked, audited, history>>

\* Variant: the token is not validated.
RevokeAnything(j) == Revoke(j)

RevokeIfValid(j) == IF Valid(j) THEN Revoke(j) ELSE UNCHANGED <<revoked, out>>

LogoutAccess(r) ==
  /\ At(r, "logout", "access")
  /\ RevokeIfValid(jobs[r].jti)
  /\ Become(r, [jobs[r] EXCEPT !.stage = "refresh"])
  /\ UNCHANGED <<accounts, cleaner, tokens, audited, leaks, spent>>

\* The LOGOUT entry is for the user in the request's context, if there is one.
LogoutRefresh(r) ==
  LET presented == {jobs[r].jti} \ {NoJti} IN
  /\ At(r, "logout", "refresh")
  /\ RevokeIfValid(jobs[r].other)
  /\ Become(r, Free)
  /\ audited' = IF "logout" \in Protected THEN audited \cup presented ELSE audited
  /\ UNCHANGED <<accounts, cleaner, tokens, leaks, spent>>

\* An administrator changes the account.
AdminChange(u, account) ==
  /\ accounts' = [accounts EXCEPT ![u] = account]
  /\ jobs' = [r \in Requests |->
       IF jobs[r] # Free /\ jobs[r].op = "refresh" /\ claims[jobs[r].jti].user = u
         THEN [jobs[r] EXCEPT !.held = @ \cup {account}]
         ELSE jobs[r]]
  /\ UNCHANGED <<cleaner, tokens, revoked, audited, history>>

\* The process is restarted: requests are lost and a new ticker starts (NewDbRevocationStore),
\* the table stays as it is.
Restart ==
  /\ jobs' = [r \in Requests |-> Free]
  /\ ticker' = CleanupPeriod
  /\ due' = FALSE
  /\ UNCHANGED <<accounts, tokens, revoked, audited, history>>

\* Variant: a timer in place of the ticker, which fires once.
TickOnce ==
  /\ left' = [j \in Jtis |-> IF left[j] > Floor THEN left[j] - 1 ELSE Floor]
  /\ ticker' = IF ticker = 1 THEN 1 ELSE ticker - 1
  /\ due' = (due \/ ticker = 2)
  /\ UNCHANGED <<accounts, issued, claims, revoked, jobs, audited, history>>

\* Time passes; the ticker fires at the end of each period, and what it sends while the
\* last is still to be taken is dropped.
Tick ==
  /\ left' = [j \in Jtis |-> IF left[j] > Floor THEN left[j] - 1 ELSE Floor]
  /\ ticker' = IF ticker = 1 THEN CleanupPeriod ELSE ticker - 1
  /\ due' = (due \/ ticker = 1)
  /\ UNCHANGED <<accounts, issued, claims, revoked, jobs, audited, history>>

Refresh(r) ==
  \/ Check(r)
  \/ Rotate(r)
  \/ ReadPermissions(r)
  \/ \E a \in AccessJtis, f \in RefreshJtis : Issue(r, a, f)

Next ==
  \/ \E u \in Users, a \in AccessJtis, f \in RefreshJtis : Login(u, a, f)
  \/ \E r \in Requests :
       \/ \E j \in AccessJtis : Begin(r, "access", j)
       \/ \E j \in RefreshJtis : Begin(r, "refresh", j)
       \/ \E a \in AccessJtis \cup {NoJti}, f \in RefreshJtis \cup {NoJti} : BeginLogout(r, a, f)
       \/ Refresh(r)
       \/ LogoutAccess(r)
       \/ LogoutRefresh(r)
  \/ \E u \in Users, account \in Accounts : AdminChange(u, account)
  \/ Cleanup
  \/ Restart
  \/ Tick

\* Time passes, and a cleanup that is due runs unless a restart comes first.
Fairness == WF_vars(Tick) /\ WF_vars(Cleanup)

Spec == Init /\ [][Next]_vars /\ Fairness

-----------------------------------------------------------------------------
(* What revocation promises.                                               *)

\* A stored revocation stays in the table until the database itself takes the token
\* for expired: neither the cleanup nor a restart forgets it early.
RevocationKept ==
  \A j \in out : left[j] + DbLag >= 0 => j \in revoked

\* Once the revocation of a token is stored, whether by a logout or by an exchange, no
\* request that begins afterwards gets through with it while it is live; this needs
\* a database clock that is not ahead, and a revocation check that does not fail.
NoLiveLeak == DbLag >= 0 => "live" \notin leaks

\* The permissions of a refreshed pair are those the account had at some moment of the
\* refresh, unless computing them failed.
FreshPermissions ==
  \A r \in Requests : At(r, "refresh", "issue") /\ ~jobs[r].fallback =>
    \E h \in jobs[r].held : h.perms = jobs[r].perms

\* A cleanup that comes to nothing: its DELETE fails, or the process ends before it.
CleanupLost ==
  \/ Cleanup /\ revoked' # revoked \ Outdated
  \/ Restart /\ ~Cleanup /\ cleaner' # cleaner

\* A cleanup that deletes what is outdated, if anything is.
CleanupDone == Cleanup /\ revoked' = revoked \ Outdated

\* Rows of the table do not pile up: again and again each is gone, also one that a slow
\* exchange inserts after the token's expiry.  This needs processes that live for the
\* ticker's period and a DELETE that succeeds: in the end always (then the ticker sees
\* to the rest, whatever failed before), or at least again and again.
RowsCleaned ==
  <>[][~CleanupLost]_vars \/ []<><<CleanupDone>>_vars =>
    \A j \in Jtis : []<>(j \notin revoked)

-----------------------------------------------------------------------------
(* What a comment promises and the code does not keep.                     *)

\* "Rotate: revoke the old refresh token and issue a fresh pair" (handler.go): a refresh
\* token is exchanged for one pair at most.
OneSuccessor ==
  [][\A r \in Requests, a \in AccessJtis, f \in RefreshJtis :
       Issue(r, a, f) => jobs[r].jti \notin spent]_vars
=============================================================================
