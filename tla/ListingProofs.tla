--------------------------- MODULE ListingProofs ---------------------------
(* What a walk through the pages of a list shows, for every table, every    *)
(* size of a page and every number of changes meanwhile.                    *)
EXTENDS Listing, FiniteSetTheorems, TLAPS

\* The rows before a row in the order, and their number: where LIMIT and OFFSET find it.
Before(i) == {j \in Live : rows[j] < rows[i]}
Rank(i) == Cardinality(Before(i))

\* The walk and the ranks, while changes are at the ends of the list only.
WalkInv ==
  /\ phase = "none" => again = {}
  /\ phase # "none" /\ ~mixed =>
       /\ ~Ties
       /\ start \subseteq Live
       /\ seen \subseteq Live
       /\ ~front => again = {}
  /\ phase \in {"count", "select"} /\ ~mixed =>
       /\ \A i \in start : i \in seen \/ Rank(i) >= page * size
       /\ ~front => \A i \in seen : Rank(i) < page * size
  /\ phase = "select" /\ ~mixed /\ ~late => \A i \in start : Rank(i) < total

PagingInv == WalkInv /\ NothingMissed /\ SizesInBounds

-----------------------------------------------------------------------------
(* Types.                                                                  *)

LEMMA LiveFinite == IsFiniteSet(Live) /\ Live \subseteq Ids /\ Cardinality(Live) \in Nat
<1>1. IsFiniteSet(Live)  BY ListingAssumption, FS_Subset DEF Live
<1> QED  BY <1>1, FS_CardinalityType DEF Live

LEMMA PageSizeType ==
  ASSUME NEW k \in Kinds, NEW asked \in Asked
  PROVE  /\ PageSize(k, asked) \in Int
         /\ PageSize(k, asked) # 0
         /\ k # "audit" => PageSize(k, asked) \in 1..Largest
<1>1. asked \in Int /\ Default \in 1..Largest /\ Largest \in Nat  BY ListingAssumption
<1>2. CASE k = "audit"
  <2>1. PageSize(k, asked) = IF asked = 0 THEN Default ELSE asked  BY <1>2 DEF PageSize
  <2> QED  BY <1>1, <1>2, <2>1
<1>3. CASE k # "audit"
  <2>1. PageSize(k, asked) = IF asked <= 0 THEN Default
                             ELSE IF asked < Largest THEN asked ELSE Largest
    BY <1>3 DEF PageSize, Least
  <2> QED  BY <1>1, <2>1
<1> QED  BY <1>2, <1>3

LEMMA TypeInit == Init => TypeOK
<1> SUFFICES ASSUME Init PROVE TypeOK  OBVIOUS
<1>1. Default \in Int  BY ListingAssumption
<1>2. size \in Int /\ page \in Nat /\ total \in Nat  BY <1>1 DEF Init
<1>3. front \in BOOLEAN /\ late \in BOOLEAN /\ mixed \in BOOLEAN  BY DEF Init
<1> QED  BY <1>2, <1>3 DEF Init, TypeOK

LEMMA TypeStep == TypeOK /\ [Next]_vars => TypeOK'
<1> SUFFICES ASSUME TypeOK, [Next]_vars PROVE TypeOK'  OBVIOUS
<1>1. ASSUME NEW i \in Ids, Remove(i)  PROVE TypeOK'
  BY <1>1 DEF Remove, TypeOK, walk
<1>2. ASSUME NEW i \in Ids, NEW k \in Keys, Insert(i, k)  PROVE TypeOK'
  <2>1. front' \in BOOLEAN /\ late' \in BOOLEAN /\ mixed' \in BOOLEAN
    BY <1>2 DEF Insert, TypeOK
  <2> QED  BY <1>2, <2>1 DEF Insert, TypeOK, walk
<1>3. ASSUME NEW i \in Ids, NEW k \in Keys, Rekey(i, k)  PROVE TypeOK'
  BY <1>3 DEF Rekey, TypeOK, walk
<1>4. ASSUME NEW k \in Kinds, NEW asked \in Asked, Begin(k, asked)  PROVE TypeOK'
  <2>1. mixed' \in BOOLEAN  BY <1>4 DEF Begin, Ties
  <2> QED  BY <1>4, <2>1, PageSizeType, LiveFinite DEF Begin, TypeOK
<1>5. CASE Count  BY <1>5, LiveFinite DEF Count, TypeOK
<1>6. ASSUME NEW s \in SUBSET Ids, Select(s)  PROVE TypeOK'
  <2>1. page' \in Nat  BY <1>6 DEF Select, TypeOK
  <2> QED  BY <1>6, <2>1 DEF Select, TypeOK, changes
<1>7. CASE Fail  BY <1>7 DEF Fail, TypeOK
<1>8. CASE UNCHANGED vars  BY <1>8 DEF vars, walk, changes, TypeOK
<1> QED  BY <1>1, <1>2, <1>3, <1>4, <1>5, <1>6, <1>7, <1>8 DEF Next

\* The list and the walk of Listing stay well typed.
THEOREM TypeCorrect == Spec => []TypeOK
<1>1. Init => TypeOK  BY TypeInit
<1> QED  BY <1>1, TypeStep, PTL DEF Spec

-----------------------------------------------------------------------------
(* Ranks and pages.                                                        *)

LEMMA RankType ==
  ASSUME NEW i PROVE IsFiniteSet(Before(i)) /\ Rank(i) \in Nat
<1>1. IsFiniteSet(Before(i))  BY LiveFinite, FS_Subset DEF Before
<1> QED  BY <1>1, FS_CardinalityType DEF Rank

LEMMA LiveKeys == TypeOK => \A i \in Live : rows[i] \in Int
  BY ListingAssumption DEF TypeOK, Live

\* Without ties, the first n rows are those with a rank below n.
LEMMA LeadingRanks ==
  ASSUME TypeOK, ~Ties, NEW s, Leading(s), NEW i \in Live
  PROVE  i \in s <=> Rank(i) < Cardinality(s)
<1>1. IsFiniteSet(s) /\ Cardinality(s) \in Nat
  BY LiveFinite, FS_Subset, FS_CardinalityType DEF Leading
<1>2. ASSUME i \in s PROVE Rank(i) < Cardinality(s)
  <2>1. Before(i) \subseteq s \ {i}  BY <1>2, LiveKeys DEF Before, Leading
  <2>2. IsFiniteSet(s \ {i}) /\ Cardinality(s \ {i}) = Cardinality(s) - 1
    BY <1>1, <1>2, FS_RemoveElement
  <2>3. Rank(i) <= Cardinality(s \ {i})  BY <2>1, <2>2, FS_Subset DEF Rank
  <2> QED  BY <1>1, <2>2, <2>3, RankType
<1>3. ASSUME i \notin s PROVE Cardinality(s) <= Rank(i)
  <2>1. s \subseteq Before(i)
    <3> SUFFICES ASSUME NEW j \in s PROVE j \in Live /\ rows[j] < rows[i]  BY DEF Before
    <3>1. j \in Live /\ rows[j] <= rows[i]  BY <1>3 DEF Leading
    <3>2. rows[j] # rows[i]  BY <1>3, <3>1 DEF Ties
    <3> QED  BY <3>1, <3>2, LiveKeys
  <2> QED  BY <2>1, RankType, FS_Subset DEF Rank
<1> QED  BY <1>1, <1>2, <1>3, RankType

LEMMA RankBelow == TypeOK => \A i \in Live : Rank(i) < Cardinality(Live)
<1> SUFFICES ASSUME TypeOK, NEW i \in Live PROVE Rank(i) < Cardinality(Live)  OBVIOUS
<1>1. Before(i) \subseteq Live \ {i}  BY LiveKeys DEF Before
<1>2. IsFiniteSet(Live \ {i}) /\ Cardinality(Live \ {i}) = Cardinality(Live) - 1
  BY LiveFinite, FS_RemoveElement
<1>3. Rank(i) <= Cardinality(Live \ {i})  BY <1>1, <1>2, FS_Subset DEF Rank
<1> QED  BY <1>2, <1>3, LiveFinite, RankType

\* Without ties, a page has the rows with the ranks from its offset on.
LEMMA PageRanks ==
  ASSUME TypeOK, ~Ties, NEW s, NEW limit \in Nat, NEW offset \in Nat, IsPage(s, limit, offset)
  PROVE  /\ s \subseteq Live
         /\ \A i \in Live : i \in s <=> offset <= Rank(i) /\ Rank(i) < offset + limit
<1>1. PICK skipped \in SUBSET (Live \ s) :
        /\ Leading(skipped) /\ Leading(skipped \cup s)
        /\ Cardinality(skipped) = Least(offset, Cardinality(Live))
        /\ Cardinality(skipped \cup s) = Least(offset + limit, Cardinality(Live))
  BY DEF IsPage
<1>2. s \subseteq Live  BY <1>1 DEF Leading
<1>3. ASSUME NEW i \in Live
      PROVE  i \in s <=> offset <= Rank(i) /\ Rank(i) < offset + limit
  <2>1. i \in skipped <=> Rank(i) < Cardinality(skipped)  BY <1>1, LeadingRanks
  <2>2. i \in skipped \cup s <=> Rank(i) < Cardinality(skipped \cup s)  BY <1>1, LeadingRanks
  <2>3. Rank(i) \in Nat /\ Rank(i) < Cardinality(Live)  BY RankBelow, RankType
  <2>4. i \in skipped <=> Rank(i) < offset
    BY <1>1, <2>1, <2>3, LiveFinite DEF Least
  <2>5. i \in skipped \cup s <=> Rank(i) < offset + limit
    BY <1>1, <2>2, <2>3, LiveFinite DEF Least
  <2>6. i \in s <=> i \in skipped \cup s /\ i \notin skipped  BY <1>1
  <2> QED  BY <2>3, <2>4, <2>5, <2>6
<1> QED  BY <1>2, <1>3

\* The last page ends where the list does, or behind.
LEMMA LastPage ==
  ASSUME NEW t \in Nat, NEW s \in Nat \ {0}, NEW p \in Nat, ~(p < TotalPages(t, s) - 1)
  PROVE  t <= (p + 1) * s
<1> DEFINE q == t \div s
           r == t % s
<1>1. q \in Nat /\ r \in Nat /\ t = q * s + r /\ r < s  BY SMT
<1>2. ASSUME NEW a \in Nat, NEW b \in Nat, a <= b  PROVE a * s <= b * s  BY <1>2, SMT
<1>3. CASE r > 0
  <2>1. q + 1 <= p + 1  BY <1>1, <1>3 DEF TotalPages
  <2>2. (q + 1) * s <= (p + 1) * s  BY <1>1, <1>2, <2>1
  <2>3. (q + 1) * s = q * s + s  BY <1>1, SMT
  <2> QED  BY <1>1, <2>2, <2>3, SMT
<1>4. CASE r = 0
  <2>1. q <= p + 1  BY <1>1, <1>4 DEF TotalPages
  <2>2. q * s <= (p + 1) * s  BY <1>1, <1>2, <2>1
  <2> QED  BY <1>1, <1>4, <2>2, SMT
<1> QED  BY <1>1, <1>3, <1>4

-----------------------------------------------------------------------------
(* The walk.                                                               *)

LEMMA PagingInit == Init => PagingInv
  BY DEF Init, PagingInv, WalkInv, NothingMissed, SizesInBounds

\* A row that comes in at an end of the list moves the others by one place, or not at all.
LEMMA InsertRanks ==
  ASSUME TypeOK, NEW i \in Ids, NEW k \in Keys, Insert(i, k), ~mixed', ~Ties
  PROVE  /\ ~Ties'
         /\ Live' = Live \cup {i}
         /\ \A j \in Live : Rank(j)' \in Nat /\ Rank(j)' >= Rank(j)
         /\ ~front' => \A j \in Live : Rank(j)' = Rank(j)
         /\ ~late' => \A j \in Live : Rank(j)' = Rank(j)
<1>1. k \in Int /\ Absent \notin Int  BY ListingAssumption
<1>2. i \notin Live /\ rows' = [rows EXCEPT ![i] = k]  BY DEF Insert
<1>3. rows'[i] = k /\ \A j \in Live : rows'[j] = rows[j]  BY <1>2 DEF TypeOK, Live
<1>4. Live' = Live \cup {i}  BY <1>1, <1>2 DEF TypeOK, Live
<1>5. (\A j \in Live : k < rows[j]) \/ (\A j \in Live : k > rows[j])  BY DEF Insert
<1>6. ~Ties'
  <2>1. \A j \in Live : rows'[j] # rows'[i]  BY <1>1, <1>3, <1>5, LiveKeys
  <2> QED  BY <1>3, <1>4, <2>1 DEF Ties
<1>7. ASSUME NEW j \in Live
      PROVE  Before(j)' = IF k < rows[j] THEN Before(j) \cup {i} ELSE Before(j)
  BY <1>3, <1>4 DEF Before
<1>8. ASSUME NEW j \in Live
      PROVE  Rank(j)' = IF k < rows[j] THEN Rank(j) + 1 ELSE Rank(j)
  <2>1. IsFiniteSet(Before(j))  BY RankType
  <2>2. i \notin Before(j)  BY <1>2 DEF Before
  <2>3. Cardinality(Before(j) \cup {i}) = Cardinality(Before(j)) + 1
    BY <2>1, <2>2, FS_AddElement
  <2> QED  BY <1>7, <2>3 DEF Rank
<1>9. \A j \in Live : Rank(j)' \in Nat /\ Rank(j)' >= Rank(j)  BY <1>8, RankType
<1>10. ASSUME NEW j \in Live, ~front' \/ ~late'  PROVE Rank(j)' = Rank(j)
  <2>1. ~(\A l \in Live : k < rows[l]) \/ (\A l \in Live : k > rows[l])
    BY <1>10 DEF Insert
  <2>2. ~(k < rows[j])  BY <1>1, <1>5, <2>1, LiveKeys
  <2> QED  BY <1>8, <2>2
<1> QED  BY <1>4, <1>6, <1>9, <1>10

LEMMA PagingStep == TypeOK /\ TypeOK' /\ PagingInv /\ [Next]_vars => PagingInv'
<1> SUFFICES ASSUME TypeOK, TypeOK', PagingInv, [Next]_vars PROVE PagingInv'  OBVIOUS
<1>1. ASSUME NEW i \in Ids, NEW k \in Keys, Remove(i) \/ Rekey(i, k)  PROVE PagingInv'
  <2>1. mixed' = TRUE /\ UNCHANGED walk  BY <1>1 DEF Remove, Rekey
  <2> QED  BY <2>1 DEF walk, PagingInv, WalkInv, NothingMissed, SizesInBounds
<1>2. ASSUME NEW i \in Ids, Remove(i)  PROVE PagingInv'
  <2>1. mixed' = TRUE /\ UNCHANGED walk  BY <1>2 DEF Remove
  <2> QED  BY <2>1 DEF walk, PagingInv, WalkInv, NothingMissed, SizesInBounds
<1>3. ASSUME NEW i \in Ids, NEW k \in Keys, Insert(i, k)  PROVE PagingInv'
  <2>1. UNCHANGED walk  BY <1>3 DEF Insert
  <2>2. (front => front') /\ (late => late') /\ (mixed => mixed')  BY <1>3 DEF Insert
  <2>3. CASE mixed' \/ phase = "none"
    BY <2>1, <2>2, <2>3 DEF walk, PagingInv, WalkInv, NothingMissed, SizesInBounds
  <2>4. CASE ~mixed' /\ phase # "none"
    <3>1. ~mixed /\ ~Ties /\ start \subseteq Live /\ seen \subseteq Live
      BY <2>2, <2>4 DEF PagingInv, WalkInv
    <3>2. /\ ~Ties'
          /\ Live' = Live \cup {i}
          /\ \A j \in Live : Rank(j)' \in Nat /\ Rank(j)' >= Rank(j)
          /\ ~front' => \A j \in Live : Rank(j)' = Rank(j)
          /\ ~late' => \A j \in Live : Rank(j)' = Rank(j)
      BY <1>3, <2>4, <3>1, InsertRanks
    <3>3. ASSUME NEW j \in start, j \in seen \/ Rank(j) >= page * size
          PROVE  j \in seen \/ Rank(j)' >= page * size
      <4>1. Rank(j) \in Nat /\ page * size \in Int  BY RankType DEF TypeOK
      <4> QED  BY <3>1, <3>2, <3>3, <4>1
    <3>4. (phase \in {"count", "select"} =>
             /\ \A j \in start : j \in seen \/ Rank(j) >= page * size
             /\ ~front => \A j \in seen : Rank(j) < page * size)'
      BY <2>1, <2>2, <3>1, <3>2, <3>3 DEF walk, PagingInv, WalkInv
    <3>5. (phase = "select" /\ ~late => \A j \in start : Rank(j) < total)'
      BY <2>1, <2>2, <3>1, <3>2 DEF walk, PagingInv, WalkInv
    <3>6. WalkInv'
      BY <2>1, <2>2, <2>4, <3>1, <3>2, <3>4, <3>5 DEF walk, PagingInv, WalkInv
    <3> QED  BY <2>1, <2>2, <3>6 DEF walk, PagingInv, NothingMissed, SizesInBounds
  <2> QED  BY <2>3, <2>4
<1>4. ASSUME NEW k \in Kinds, NEW asked \in Asked, Begin(k, asked)  PROVE PagingInv'
  <2>1. UNCHANGED rows  BY <1>4 DEF Begin
  <2>2. Live' = Live /\ Ties' = Ties  BY <2>1 DEF Live, Ties
  <2>3. /\ phase' = "count" /\ kind' = k /\ size' = PageSize(k, asked) /\ page' = 0
        /\ seen' = {} /\ again' = {} /\ start' = Live /\ mixed' = Ties
    BY <1>4 DEF Begin
  <2>4. SizesInBounds'  BY <2>3, PageSizeType DEF SizesInBounds
  <2>5. page' * size' = 0  BY <2>3, PageSizeType
  <2>6. \A i : Rank(i)' = Rank(i) /\ Rank(i) >= 0
    <3>1. \A i : Rank(i)' = Rank(i)  BY <2>1 DEF Rank, Before, Live
    <3> QED  BY <3>1, RankType
  <2>7. WalkInv'  BY <2>2, <2>3, <2>5, <2>6 DEF WalkInv
  <2> QED  BY <2>3, <2>4, <2>7 DEF PagingInv, NothingMissed
<1>5. CASE Count
  <2>1. /\ phase = "count" /\ phase' = "select" /\ total' = Cardinality(Live)
        /\ UNCHANGED <<rows, kind, size, page, seen, again, start, front, mixed>>
    BY <1>5 DEF Count
  <2>2. Live' = Live /\ Ties' = Ties /\ \A i : Rank(i)' = Rank(i)
    BY <2>1 DEF Live, Ties, Rank, Before
  <2>3. ~mixed => \A i \in start : Rank(i) < Cardinality(Live)
    BY <2>1, RankBelow DEF PagingInv, WalkInv
  <2>4. WalkInv'  BY <2>1, <2>2, <2>3 DEF PagingInv, WalkInv
  <2> QED  BY <2>1, <2>4 DEF PagingInv, NothingMissed, SizesInBounds
<1>6. ASSUME NEW s \in SUBSET Ids, Select(s)  PROVE PagingInv'
  <2>1. /\ phase = "select" /\ size >= 0 /\ IsPage(s, size, Offset(page, size))
        /\ seen' = seen \cup s /\ again' = again \cup (seen \cap s)
        /\ phase' = (IF HasNext THEN "count" ELSE "done")
        /\ page' = (IF HasNext THEN page + 1 ELSE page)
        /\ UNCHANGED <<rows, kind, size, total, start, front, late, mixed>>
    BY <1>6 DEF Select, changes
  <2>2. Live' = Live /\ Ties' = Ties /\ \A i : Rank(i)' = Rank(i)
    BY <2>1 DEF Live, Ties, Rank, Before
  <2>3. size \in Nat \ {0}  BY <2>1 DEF TypeOK, PagingInv, SizesInBounds
  <2>4. SizesInBounds'  BY <2>1 DEF PagingInv, SizesInBounds
  <2>5. CASE mixed
    BY <2>1, <2>4, <2>5 DEF PagingInv, WalkInv, NothingMissed
  <2>6. CASE ~mixed
    <3>1. page * size \in Nat /\ (page + 1) * size = page * size + size
      BY <2>3, SMT DEF TypeOK
    <3>2. /\ ~Ties /\ start \subseteq Live /\ seen \subseteq Live
          /\ ~front => again = {}
          /\ \A i \in start : i \in seen \/ Rank(i) >= page * size
          /\ ~front => \A i \in seen : Rank(i) < page * size
          /\ ~late => \A i \in start : Rank(i) < total
      BY <2>1, <2>6 DEF PagingInv, WalkInv
    <3>3. /\ s \subseteq Live
          /\ \A i \in Live : i \in s <=> page * size <= Rank(i) /\ Rank(i) < page * size + size
      BY <2>1, <2>3, <3>1, <3>2, PageRanks DEF Offset
    <3>4. \A i \in Live : Rank(i) \in Nat  BY RankType
    <3>5. ~front => again' = {}  BY <2>1, <3>1, <3>2, <3>3, <3>4
    <3>6. ASSUME NEW i \in start  PROVE i \in seen' \/ Rank(i) >= (page + 1) * size
      BY <2>1, <2>3, <3>1, <3>2, <3>3, <3>4
    <3>7. ASSUME ~front, NEW i \in seen'  PROVE Rank(i) < (page + 1) * size
      BY <2>1, <2>3, <3>1, <3>2, <3>3, <3>4, <3>7
    <3>8. CASE HasNext
      <4>1. WalkInv'  BY <2>1, <2>2, <3>2, <3>3, <3>5, <3>6, <3>7, <3>8 DEF WalkInv
      <4> QED  BY <2>1, <2>4, <3>8, <4>1 DEF PagingInv, NothingMissed
    <3>9. CASE ~HasNext
      <4>1. total <= (page + 1) * size  BY <2>3, <3>9, LastPage DEF TypeOK, HasNext
      <4>2. ~late => start \subseteq seen'
        BY <2>3, <3>1, <3>2, <3>4, <3>6, <4>1 DEF TypeOK
      <4>3. WalkInv'  BY <2>1, <2>2, <3>2, <3>3, <3>5, <3>9 DEF WalkInv
      <4> QED  BY <2>1, <2>4, <4>2, <4>3 DEF PagingInv, NothingMissed
    <3> QED  BY <3>8, <3>9
  <2> QED  BY <2>5, <2>6
<1>7. CASE Fail
  BY <1>7 DEF Fail, PagingInv, WalkInv, NothingMissed, SizesInBounds
<1>8. CASE UNCHANGED vars
  <2>1. Live' = Live /\ Ties' = Ties /\ \A i : Rank(i)' = Rank(i)
    BY <1>8 DEF vars, Live, Ties, Rank, Before
  <2>2. WalkInv'  BY <1>8, <2>1 DEF vars, walk, changes, PagingInv, WalkInv
  <2> QED  BY <1>8, <2>2 DEF vars, walk, changes, PagingInv, NothingMissed, SizesInBounds
<1> QED  BY <1>1, <1>2, <1>3, <1>4, <1>5, <1>6, <1>7, <1>8 DEF Next

\* A client that goes from page to page until hasNext is false or last is true has been
\* given every row that was there all the time, under the conditions of NothingMissed.
THEOREM WalksMissNothing == Spec => []NothingMissed
<1>1. Init => TypeOK  BY TypeInit
<1>2. PagingInv => NothingMissed  BY DEF PagingInv
<1> QED  BY <1>1, <1>2, TypeStep, PagingInit, PagingStep, PTL DEF Spec

\* It has been given no row twice, under those of NothingTwice.
THEOREM WalksRepeatNothing == Spec => []NothingTwice
<1>1. Init => TypeOK  BY TypeInit
<1>2. PagingInv => NothingTwice  BY DEF PagingInv, WalkInv, NothingTwice
<1> QED  BY <1>1, <1>2, TypeStep, PagingInit, PagingStep, PTL DEF Spec

\* The size a handler divides by is never zero, and bounded for users and SMEs.
THEOREM SizesAreInBounds == Spec => []SizesInBounds
<1>1. Init => TypeOK  BY TypeInit
<1>2. PagingInv => SizesInBounds  BY DEF PagingInv
<1> QED  BY <1>1, <1>2, TypeStep, PagingInit, PagingStep, PTL DEF Spec
=============================================================================
