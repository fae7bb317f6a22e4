------------------------------ MODULE Listing ------------------------------
(***************************************************************************)
(* The lists of users, SMEs and audit logs, page by page: SearchUsers,     *)
(* SearchSMEs and SearchAuditLogs with the handlers that compute the size  *)
(* of a page and whether there is another.  Each page is two statements,   *)
(* a COUNT and a SELECT ... ORDER BY column LIMIT size OFFSET page*size,   *)
(* outside of a transaction, and the table may change before, between and  *)
(* after them.  A client walks through the pages as the answers tell it.   *)
(*                                                                         *)
(* A row is its place in the order asked for: a smaller key comes earlier, *)
(* whatever the column and the direction, and rows with the same key come  *)
(* in any order.  Rows a filter excludes are not there.                    *)
(***************************************************************************)
EXTENDS Integers, FiniteSets

CONSTANTS
  Ids,      \* primary keys
  Keys,     \* values of the column sorted by
  Absent,   \* that of a row that is not in the list
  Asked,    \* the sizes clients ask for
  Kinds,    \* the lists that take part
  Default,  \* the size of a page nobody gave a size for: 10 (audit logs: 20)
  Largest   \* the largest page of users or SMEs: 100

ASSUME ListingAssumption ==
  /\ IsFiniteSet(Ids)
  /\ Keys \subseteq Int /\ Absent \notin Int
  /\ Asked \subseteq Int
  /\ Kinds \subseteq {"users", "smes", "audit"}
  /\ Largest \in Nat
  /\ Default \in 1..Largest

VARIABLES
  rows,    \* the keys of the rows in the list
  phase,   \* where the client's walk is
  kind,    \* the list it walks through
  size,    \* of its pages
  page,    \* the page it is at
  total,   \* the answer to that page's COUNT
  seen,    \* the rows it has been given
  again,   \* those of them it has been given more than once
  start,   \* history: the rows in the list when it began
  front,   \* history: a row has come in before all others since
  late,    \* history: one has since the COUNT
  mixed    \* history: keys are not distinct, or the list has changed in another way than
           \* by rows coming in before or behind all others

walk == <<phase, kind, size, page, total, seen, again, start>>
changes == <<front, late, mixed>>
vars == <<rows, walk, changes>>

TypeOK ==
  /\ rows \in [Ids -> Keys \cup {Absent}]
  /\ phase \in {"none", "count", "select", "done"}
  /\ kind \in Kinds
  /\ size \in Int
  /\ page \in Nat
  /\ total \in Nat
  /\ seen \subseteq Ids /\ again \subseteq Ids /\ start \subseteq Ids
  /\ front \in BOOLEAN /\ late \in BOOLEAN /\ mixed \in BOOLEAN

Init ==
  /\ rows \in [Ids -> Keys \cup {Absent}]
  /\ phase = "none"
  /\ kind \in Kinds
  /\ size = Default
  /\ page = 0
  /\ total = 0
  /\ seen = {} /\ again = {} /\ start = {}
  /\ front = FALSE /\ late = FALSE /\ mixed = FALSE

-----------------------------------------------------------------------------
(* The table.                                                              *)

Live == {i \in Ids : rows[i] # Absent}
Ties == \E i, j \in Live : i # j /\ rows[i] = rows[j]

\* A row comes into the list: before all others (a new one, newest first), behind them, or
\* somewhere else.
Insert(i, k) ==
  /\ i \notin Live
  /\ rows' = [rows EXCEPT ![i] = k]
  /\ LET first == \A j \in Live : k < rows[j]
         last == \A j \in Live : k > rows[j]
     IN  /\ front' = (front \/ (first /\ ~last))
         /\ late' = (late \/ (first /\ ~last))
         /\ mixed' = (mixed \/ ~(first \/ last))
  /\ UNCHANGED walk

\* It is deleted, or changes so that the filter excludes it.
Remove(i) ==
  /\ i \in Live
  /\ rows' = [rows EXCEPT ![i] = Absent]
  /\ mixed' = TRUE
  /\ UNCHANGED <<walk, front, late>>

\* The column it is sorted by changes.
Rekey(i, k) ==
  /\ i \in Live
  /\ k # rows[i]
  /\ rows' = [rows EXCEPT ![i] = k]
  /\ mixed' = TRUE
  /\ UNCHANGED <<walk, front, late>>

-----------------------------------------------------------------------------
(* A walk through the pages.                                               *)

Least(a, b) == IF a < b THEN a ELSE b

\* Variant: a size of zero is taken as it is.
PageSizeOrError(k, asked) == IF k # "audit" /\ asked > Largest THEN Largest ELSE asked

\* GetAllUsers and GetAllSMEs put the size into bounds, GetAuditLogs and GetUserAuditLogs
\* only replace zero.
PageSize(k, asked) ==
  CASE k = "audit" -> IF asked = 0 THEN Default ELSE asked
    [] k # "audit" -> IF asked <= 0 THEN Default ELSE Least(asked, Largest)

\* The client asks for the first page.
Begin(k, asked) ==
  /\ phase \in {"none", "done"}
  /\ phase' = "count"
  /\ kind' = k
  /\ size' = PageSize(k, asked)
  /\ page' = 0
  /\ total' = 0
  /\ seen' = {} /\ again' = {}
  /\ start' = Live
  /\ front' = FALSE /\ late' = FALSE /\ mixed' = Ties
  /\ UNCHANGED rows

\* Variant: the header is subtracted.
CountButOne ==
  /\ phase = "count"
  /\ phase' = "select"
  /\ total' = Cardinality(Live) - 1
  /\ late' = FALSE
  /\ UNCHANGED <<rows, kind, size, page, seen, again, start, front, mixed>>

\* SELECT COUNT(*).
Count ==
  /\ phase = "count"
  /\ phase' = "select"
  /\ total' = Cardinality(Live)
  /\ late' = FALSE
  /\ UNCHANGED <<rows, kind, size, page, seen, again, start, front, mixed>>

\* Variant: pages are counted from one.
OffsetFromOne(p, s) == IF p = 0 THEN 0 ELSE (p - 1) * s

Offset(p, s) == p * s

\* A set of rows that some order by key has first.
Leading(s) == s \subseteq Live /\ \A i \in s, j \in Live \ s : rows[i] <= rows[j]

\* The rows LIMIT limit OFFSET offset may leave.
IsPage(s, limit, offset) ==
  \E skipped \in SUBSET (Live \ s) :
    /\ Leading(skipped) /\ Leading(skipped \cup s)
    /\ Cardinality(skipped) = Least(offset, Cardinality(Live))
    /\ Cardinality(skipped \cup s) = Least(offset + limit, Cardinality(Live))

\* Variant: the last page is forgotten when it is not full.
WholePages(t, s) == t \div s

\* totalPages; it divides by the size.
TotalPages(t, s) == IF t % s > 0 THEN t \div s + 1 ELSE t \div s

\* There is a page after this one.
HasNext == page < TotalPages(total, size) - 1

\* SELECT, and the answer; the client goes on if there is a next page.
Select(s) ==
  /\ phase = "select"
  /\ size >= 0
  /\ IsPage(s, size, Offset(page, size))
  /\ seen' = seen \cup s
  /\ again' = again \cup (seen \cap s)
  /\ phase' = IF HasNext THEN "count" ELSE "done"
  /\ page' = IF HasNext THEN page + 1 ELSE page
  /\ UNCHANGED <<rows, kind, size, total, start, changes>>

\* A statement fails, as the SELECT does with a negative LIMIT: the client gives up.
Fail ==
  /\ phase \in {"count", "select"}
  /\ phase' = "none"
  /\ page' = 0 /\ total' = 0
  /\ seen' = {} /\ again' = {} /\ start' = {}
  /\ front' = FALSE /\ late' = FALSE /\ mixed' = FALSE
  /\ UNCHANGED <<rows, kind, size>>

Next ==
  \/ \E i \in Ids : Remove(i) \/ \E k \in Keys : Insert(i, k) \/ Rekey(i, k)
  \/ \E k \in Kinds, asked \in Asked : Begin(k, asked)
  \/ Count
  \/ \E s \in SUBSET Ids : Select(s)
  \/ Fail

Spec == Init /\ [][Next]_vars

-----------------------------------------------------------------------------
(* Properties.                                                             *)

\* A walk that has come to its end has shown every row that was there when it began, if
\* rows only came in at the ends of the list meanwhile, and none in front of it between the
\* COUNT and the SELECT of the last page.
NothingMissed == phase = "done" /\ ~mixed /\ ~late => start \subseteq seen

\* It shows no row twice, unless one came in front.
NothingTwice == ~mixed /\ ~front => again = {}

\* No answer divides by a size of zero, and only the audit logs give a page as large as
\* the client likes.
SizesInBounds ==
  phase # "none" => size # 0 /\ (kind # "audit" => size \in 1..Largest)
=============================================================================
