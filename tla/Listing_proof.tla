----------------------------- MODULE Listing_proof -----------------------------
(* What a walk through a list shows and misses, for any number of rows, any      *)
(* page sizes and limits, and any bound on what comes and goes.                *)
EXTENDS Listing, FiniteSetTheorems, TLAPS

\* The walk and its history are records of numbers; a size is in range once it
\* was looked at, and no page was shown before.
Typed ==
  /\ matching \subseteq 1..Rows /\ total \in 0..Rows
  /\ req \in [service : Services, page : 1..Rows + 1, size : Int]
  /\ pc \in {"ask", "count", "find", "over", "refused"}
  /\ pc \in {"count", "find", "over"} \/ req.page > 1 => req.size \in 1..MaxSize
  /\ req.size \in Sizes \cup 1..MaxSize
  /\ pc # "over" => shown \in [1..Rows -> 0..req.page - 1]
  /\ shown \in [1..Rows -> 0..req.page]
  /\ past \in [came : 0..MaxChanges, gone : 0..MaxChanges, late : Nat,
               stayed : SUBSET matching]
  /\ past.late <= past.came

\* Rows that were shown and come again on the pages ahead.
Again == {i \in matching : shown[i] > 0 /\ Rank(matching, i) >= Offset}

\* Rows that stayed, were not shown, and are on the pages behind.
Missed == {i \in past.stayed : shown[i] = 0 /\ Rank(matching, i) < Offset}

NeverShown == {i \in past.stayed : shown[i] = 0}

\* Each row shown again, or about to be, was moved down by one that came; each
\* row missed was moved up by one that went.
Moved ==
  /\ pc # "over" => /\ Cardinality(Repeats) + Cardinality(Again) <= past.came
                    /\ Cardinality(Missed) <= past.gone
  /\ pc = "over" => /\ Cardinality(Repeats) <= past.came
                    /\ Cardinality(NeverShown) <= past.gone + past.late

\* The rows there are more than the latest count found came after it.
CountLags == pc = "find" => Cardinality(matching) <= total + past.late

WalkInv == Typed /\ Moved /\ CountLags

-----------------------------------------------------------------------------
(* Finite sets.                                                               *)

\* A function on a finite set has no more values than arguments.
LEMMA MapCard ==
  ASSUME NEW S, IsFiniteSet(S), NEW f, DOMAIN f = S, NEW T, T = {f[x] : x \in S},
         f = [x \in S |-> f[x]]
  PROVE  IsFiniteSet(T) /\ Cardinality(T) <= Cardinality(S)
<1>1. f \in Surjection(S, T)
  BY DEF Surjection
<1> QED BY <1>1, FS_Surjection

\* An injection into a finite set.
LEMMA InjCard ==
  ASSUME NEW S, NEW T, IsFiniteSet(T), NEW f \in [S -> T],
         \A x, y \in S : f[x] = f[y] => x = y
  PROVE  IsFiniteSet(S) /\ Cardinality(S) <= Cardinality(T)
<1>1. f \in Injection(S, T)
  BY DEF Injection, IsInjective
<1> QED BY <1>1, FS_Injection

\* A set split in two.
LEMMA SplitCard ==
  ASSUME NEW S, IsFiniteSet(S), NEW T
  PROVE  LET A == S \cap T
             B == S \ T
         IN  /\ IsFiniteSet(A) /\ IsFiniteSet(B)
             /\ Cardinality(A) \in Nat /\ Cardinality(B) \in Nat
             /\ Cardinality(S) = Cardinality(A) + Cardinality(B)
<1> DEFINE A == S \cap T
           B == S \ T
<1>1. IsFiniteSet(A) /\ IsFiniteSet(B)
  BY FS_Subset
<1>2. Cardinality(A \cap B) = 0
  BY FS_EmptySet
<1>s. Cardinality(S) = Cardinality(A \cup B)
  <2>1. S = A \cup B
    OBVIOUS
  <2> QED BY <2>1, Zenon
<1> HIDE DEF A, B
<1>3. Cardinality(A) \in Nat /\ Cardinality(B) \in Nat
  BY <1>1, FS_CardinalityType
<1>4. Cardinality(A \cup B)
        = Cardinality(A) + Cardinality(B) - Cardinality(A \cap B)
  BY <1>1, FS_Union
<1>5. Cardinality(S) = Cardinality(A) + Cardinality(B)
  BY <1>2, <1>3, <1>4, <1>s
<1> QED BY <1>1, <1>3, <1>5 DEF A, B

\* A set and a little more.
LEMMA CoverCard ==
  ASSUME NEW A, IsFiniteSet(A), NEW B, IsFiniteSet(B), NEW S, S \subseteq A \cup B
  PROVE  IsFiniteSet(S) /\ Cardinality(S) <= Cardinality(A) + Cardinality(B)
<1>1. IsFiniteSet(A \cup B) /\ IsFiniteSet(A \cap B)
        /\ Cardinality(A \cup B)
             = Cardinality(A) + Cardinality(B) - Cardinality(A \cap B)
  BY FS_Union, FS_Intersection
<1>2. IsFiniteSet(S) /\ Cardinality(S) <= Cardinality(A \cup B)
  BY <1>1, FS_Subset
<1> QED BY <1>1, <1>2, FS_CardinalityType

\* At most one member.
LEMMA OneCard ==
  ASSUME NEW S, \A x, y \in S : x = y
  PROVE  IsFiniteSet(S) /\ Cardinality(S) <= 1
<1>1. CASE S = {}
  BY <1>1, FS_EmptySet
<1>2. CASE S # {}
  <2>1. PICK x : S = {x}
    BY <1>2
  <2>2. IsFiniteSet({x}) /\ Cardinality({x}) = 1
    BY FS_Singleton
  <2> QED BY <2>1, <2>2
<1> QED BY <1>1, <1>2

-----------------------------------------------------------------------------
(* The places of rows.                                                        *)

\* There are as many rows as a number says.
LEMMA RowsNat == Rows \in Nat
BY ListingAssumption

\* Sets of rows are finite.
LEMMA RowsFinite ==
  ASSUME NEW M \in SUBSET (1..Rows)
  PROVE  IsFiniteSet(M) /\ Cardinality(M) \in 0..Rows
<1>1. IsFiniteSet(1..Rows) /\ Cardinality(1..Rows) = Rows
  BY FS_Interval, RowsNat
<1>2. IsFiniteSet(M) /\ Cardinality(M) <= Cardinality(1..Rows)
  BY <1>1, FS_Subset
<1>3. Cardinality(M) \in Nat
  BY <1>2, FS_CardinalityType
<1> QED BY <1>1, <1>2, <1>3, RowsNat

\* A place is below the number of rows.
LEMMA RankType ==
  ASSUME NEW M \in SUBSET (1..Rows), NEW i \in 1..Rows
  PROVE  /\ Rank(M, i) \in Nat /\ Rank(M, i) <= Cardinality(M)
         /\ i \in M => Rank(M, i) < Cardinality(M)
<1> DEFINE A == {j \in M : j > i}
<1>1. IsFiniteSet(M) /\ Cardinality(M) \in Nat
  BY RowsFinite, RowsNat
<1>2. IsFiniteSet(A) /\ Cardinality(A) <= Cardinality(M) /\ Cardinality(A) \in Nat
        /\ (Cardinality(M) = Cardinality(A) => M = A)
  BY <1>1, FS_Subset, FS_CardinalityType
<1>3. i \in M => M # A
  BY RowsNat
<1> QED BY <1>1, <1>2, <1>3 DEF Rank

\* Newer rows come first, so no two rows have one place.
LEMMA RankOrder ==
  ASSUME NEW M \in SUBSET (1..Rows), NEW i \in 1..Rows, NEW j \in M, j > i
  PROVE  Rank(M, j) < Rank(M, i)
<1> DEFINE A == {k \in M : k > j}
           B == {k \in M : k > i}
<1>1. IsFiniteSet(M)
  BY RowsFinite
<1>2. IsFiniteSet(B)
  BY <1>1, FS_Subset
<1>3. A \subseteq B /\ j \in B /\ j \notin A
  <2>1. i \in Int /\ \A k \in M : k \in Int
    BY RowsNat
  <2>2. \A k \in M : k > j => k > i
    BY <2>1
  <2>3. ~(j > j)
    BY <2>1
  <2> QED BY <2>2, <2>3
<1>4. IsFiniteSet(A) /\ Cardinality(A) <= Cardinality(B)
        /\ (Cardinality(B) = Cardinality(A) => B = A)
  BY <1>2, <1>3, FS_Subset
<1>5. Cardinality(A) \in Nat /\ Cardinality(B) \in Nat
  BY <1>2, <1>4, FS_CardinalityType
<1> QED BY <1>3, <1>4, <1>5 DEF Rank

LEMMA RankInjective ==
  ASSUME NEW M \in SUBSET (1..Rows), NEW i \in M, NEW j \in M,
         Rank(M, i) = Rank(M, j)
  PROVE  i = j
<1>1. i \in 1..Rows /\ j \in 1..Rows
  OBVIOUS
<1>2. Rank(M, i) \in Nat /\ Rank(M, j) \in Nat
  BY <1>1, RankType
<1>3. ASSUME i > j PROVE FALSE
  <2>1. Rank(M, i) < Rank(M, j)
    BY <1>1, <1>3, RankOrder
  <2> QED BY <1>2, <2>1
<1>4. ASSUME j > i PROVE FALSE
  <2>1. Rank(M, j) < Rank(M, i)
    BY <1>1, <1>4, RankOrder
  <2> QED BY <1>2, <2>1
<1> QED BY <1>1, <1>3, <1>4, RowsNat

\* From place n on there are the rows but n.
LEMMA RankTail ==
  ASSUME NEW M \in SUBSET (1..Rows), NEW n \in Nat
  PROVE  LET T == {i \in M : Rank(M, i) >= n} IN
         /\ IsFiniteSet(T)
         /\ Cardinality(T) <= IF n <= Cardinality(M) THEN Cardinality(M) - n ELSE 0
<1> DEFINE T == {i \in M : Rank(M, i) >= n}
           c == Cardinality(M)
           f == [i \in T |-> Rank(M, i)]
<1>1. c \in Nat
  BY RowsFinite, RowsNat
<1>2. ASSUME NEW i \in T PROVE Rank(M, i) \in n..c - 1
  <2>1. i \in M /\ i \in 1..Rows /\ Rank(M, i) >= n
    OBVIOUS
  <2>2. Rank(M, i) \in Nat /\ Rank(M, i) < c
    BY <2>1, RankType
  <2> QED BY <1>1, <2>1, <2>2
<1>3. f \in [T -> n..c - 1]
  BY <1>2
<1>4. \A i, j \in T : f[i] = f[j] => i = j
  BY RankInjective
<1>5. IsFiniteSet(n..c - 1)
        /\ Cardinality(n..c - 1) = IF n > c - 1 THEN 0 ELSE c - 1 - n + 1
  <2>1. n \in Int /\ c - 1 \in Int
    BY <1>1
  <2> QED BY <2>1, FS_Interval
<1> HIDE DEF f
<1>6. IsFiniteSet(T) /\ Cardinality(T) <= Cardinality(n..c - 1)
  BY <1>3, <1>4, <1>5, InjCard
<1>7. Cardinality(T) \in Nat
  BY <1>6, FS_CardinalityType
<1> HIDE DEF T, c
<1>8. IsFiniteSet(T) /\ Cardinality(T) <= IF n <= c THEN c - n ELSE 0
  BY <1>1, <1>5, <1>6, <1>7
<1> QED BY <1>8 DEF T, c

\* A row that comes moves the older ones down by one place.
LEMMA RankCome ==
  ASSUME NEW M \in SUBSET (1..Rows), NEW i \in 1..Rows \ M, NEW j \in 1..Rows
  PROVE  Rank(M \cup {i}, j) = IF i > j THEN Rank(M, j) + 1 ELSE Rank(M, j)
<1> DEFINE A == {k \in M : k > j}
           B == {k \in M \cup {i} : k > j}
<1>1. IsFiniteSet(A)
  BY RowsFinite, FS_Subset
<1>2. CASE i > j
  <2>1. B = A \cup {i} /\ i \notin A
    BY <1>2
  <2> HIDE DEF A, B
  <2>2. Cardinality(B) = Cardinality(A) + 1
    BY <1>1, <2>1, FS_AddElement
  <2> QED BY <1>2, <2>2 DEF Rank, A, B
<1>3. CASE ~(i > j)
  <2>1. B = A
    BY <1>3
  <2> QED BY <1>3, <2>1 DEF Rank
<1> QED BY <1>2, <1>3

\* One that goes moves them up.
LEMMA RankGo ==
  ASSUME NEW M \in SUBSET (1..Rows), NEW i \in M, NEW j \in 1..Rows
  PROVE  Rank(M, j) = IF i > j THEN Rank(M \ {i}, j) + 1 ELSE Rank(M \ {i}, j)
<1>1. i \in 1..Rows \ (M \ {i}) /\ (M \ {i}) \cup {i} = M
  OBVIOUS
<1> QED BY <1>1, RankCome

-----------------------------------------------------------------------------
(* Pages.                                                                     *)

\* The pages of t rows, n to a page, hold them all, and are not more than rows.
LEMMA PagesHoldAll ==
  ASSUME NEW t \in Nat, NEW n \in Nat \ {0}
  PROVE  LET pages == t \div n + (IF t % n > 0 THEN 1 ELSE 0) IN
         /\ pages \in Nat /\ pages <= t
         /\ \A p \in Nat : p >= pages => p * n >= t
<1> DEFINE q == t \div n
           r == t % n
<1>1. q \in Nat /\ r \in Nat /\ r < n /\ t = n * q + r
  OBVIOUS
<1> HIDE DEF q, r
<1> DEFINE pages == q + (IF r > 0 THEN 1 ELSE 0)
<1>2. pages \in Nat /\ pages <= t
  <2>1. q <= n * q
    BY <1>1
  <2> QED BY <1>1, <2>1
<1>3. ASSUME NEW p \in Nat, p >= pages PROVE p * n >= t
  <2>1. CASE r = 0
    <3>1. p >= q
      BY <1>1, <1>3, <2>1
    <3>2. p * n >= q * n
      BY <1>1, <3>1
    <3> QED BY <1>1, <2>1, <3>2
  <2>2. CASE r > 0
    <3>1. p >= q + 1
      BY <1>1, <1>3, <2>2
    <3>2. p * n >= (q + 1) * n
      BY <1>1, <3>1
    <3>3. (q + 1) * n = n * q + n
      BY <1>1
    <3>4. p * n \in Int /\ n * q \in Int
      BY <1>1
    <3> QED BY <1>1, <3>2, <3>3, <3>4
  <2> QED BY <1>1, <2>1, <2>2
<1> HIDE DEF pages
<1>4. /\ pages \in Nat /\ pages <= t
      /\ \A p \in Nat : p >= pages => p * n >= t
  BY <1>2, <1>3
<1> QED BY <1>4 DEF pages, q, r

\* The first row of a page has a place; the next page begins where it ends.
LEMMA OffsetType ==
  ASSUME Typed
  PROVE  /\ req.page \in Nat /\ req.size \in Int /\ Offset \in Nat
         /\ req.page = 1 => Offset = 0
         /\ Offset + req.size = req.page * req.size
<1>1. req.page \in Nat /\ req.page >= 1 /\ req.size \in Int
  BY RowsNat DEF Typed
<1>2. req.page = 1 => Offset = 0
  BY <1>1 DEF Offset
<1>3. req.page > 1 => Offset \in Nat
  <2>1. SUFFICES ASSUME req.page > 1 PROVE Offset \in Nat
    OBVIOUS
  <2>2. req.size \in Nat
    BY <2>1, ListingAssumption DEF Typed
  <2>3. req.page - 1 \in Nat
    BY <1>1
  <2> QED BY <2>2, <2>3 DEF Offset
<1>4. Offset + req.size = req.page * req.size
  BY <1>1 DEF Offset
<1> QED BY <1>1, <1>2, <1>3, <1>4

\* A size that was looked at stays.
LEMMA SizesInRange ==
  ASSUME NEW n \in Int
  PROVE  /\ DataSize(n) \in 1..MaxSize /\ ExperimentSize(n) \in 1..MaxSize
         /\ n \in 1..MaxSize => DataSize(n) = n /\ ExperimentSize(n) = n
BY ListingAssumption DEF DataSize, ExperimentSize

\* What the walk asks for next.
LEMMA TotalPageType ==
  ASSUME Typed, pc = "find"
  PROVE  /\ TotalPage \in Nat /\ TotalPage <= Rows
         /\ req.page >= TotalPage => req.page * req.size >= total
<1>1. total \in Nat /\ total <= Rows /\ req.size \in Nat \ {0} /\ req.page \in Nat
  BY RowsNat, ListingAssumption DEF Typed
<1>2. /\ TotalPage \in Nat /\ TotalPage <= total
      /\ \A p \in Nat : p >= TotalPage => p * req.size >= total
  BY <1>1, PagesHoldAll DEF TotalPage
<1> QED BY <1>1, <1>2, RowsNat

\* The times a row was shown again are finitely many.
LEMMA RepeatsFinite ==
  ASSUME Typed
  PROVE  IsFiniteSet(Repeats) /\ Cardinality(Repeats) \in Nat
<1>1. req.page \in Nat
  BY OffsetType
<1>2. IsFiniteSet(1..Rows) /\ IsFiniteSet(2..req.page)
  BY <1>1, RowsNat, FS_Interval
<1>3. IsFiniteSet((1..Rows) \X (2..req.page))
  BY <1>2, FS_Product
<1>4. Repeats \subseteq (1..Rows) \X (2..req.page)
  <2>1. ASSUME NEW i \in 1..Rows PROVE 2..shown[i] \subseteq 2..req.page
    BY <1>1 DEF Typed
  <2> QED BY <2>1 DEF Repeats
<1> QED BY <1>3, <1>4, FS_Subset, FS_CardinalityType

\* So are the sets of rows an invariant counts.
LEMMA CountsType ==
  ASSUME Typed
  PROVE  /\ IsFiniteSet(matching) /\ Cardinality(matching) \in 0..Rows
         /\ IsFiniteSet(Again) /\ Cardinality(Again) \in Nat
         /\ IsFiniteSet(Missed) /\ Cardinality(Missed) \in Nat
         /\ IsFiniteSet(NeverShown) /\ Cardinality(NeverShown) \in Nat
<1>1. matching \in SUBSET (1..Rows) /\ past.stayed \in SUBSET matching
  BY DEF Typed
<1>2. Again \in SUBSET (1..Rows)
  BY <1>1 DEF Again
<1>3. Missed \in SUBSET (1..Rows)
  BY <1>1 DEF Missed
<1>4. NeverShown \in SUBSET (1..Rows)
  BY <1>1 DEF NeverShown
<1>5. 0..Rows \subseteq Nat
  BY RowsNat
<1> QED BY <1>1, <1>2, <1>3, <1>4, <1>5, RowsFinite

-----------------------------------------------------------------------------
(* Rows come and go.                                                          *)

LEMMA ComeStep ==
  ASSUME WalkInv, NEW i \in 1..Rows \ matching, Come(i)
  PROVE  WalkInv'
<1> DEFINE M == matching
           N == matching \cup {i}
<1>t. Typed
  BY DEF WalkInv
<1>1. /\ matching' = N /\ UNCHANGED <<req, total, pc, shown>>
      /\ past' = [past EXCEPT !.came = past.came + 1,
                              !.late = IF pc = "find" THEN past.late + 1 ELSE past.late]
      /\ past.came < MaxChanges
  BY DEF Come
<1>2. /\ past \in [came : 0..MaxChanges, gone : 0..MaxChanges, late : Nat,
                   stayed : SUBSET M]
      /\ past.came \in Nat /\ past.gone \in Nat /\ past.late \in Nat
      /\ past.stayed \subseteq M /\ past.late <= past.came
  BY <1>t, ListingAssumption DEF Typed
<1>3. /\ past'.came = past.came + 1 /\ past'.gone = past.gone
      /\ past'.stayed = past.stayed
      /\ past'.late = IF pc = "find" THEN past.late + 1 ELSE past.late
  BY <1>1, <1>2
<1>4. M \in SUBSET (1..Rows) /\ N \in SUBSET (1..Rows) /\ i \notin M
  BY <1>t DEF Typed
<1>5. Typed'
  <2>1. past' \in [came : 0..MaxChanges, gone : 0..MaxChanges, late : Nat,
                   stayed : SUBSET N]
    <3>1. past.came + 1 \in 0..MaxChanges
      BY <1>1, <1>2, ListingAssumption
    <3>2. (IF pc = "find" THEN past.late + 1 ELSE past.late) \in Nat
      BY <1>2
    <3>3. past.stayed \in SUBSET N
      BY <1>2
    <3> QED BY <1>1, <1>2, <3>1, <3>2, <3>3
  <2>2. past'.late <= past'.came
    BY <1>2, <1>3
  <2> QED BY <1>t, <1>1, <1>4, <2>1, <2>2 DEF Typed
<1>6. Offset' = Offset /\ Repeats' = Repeats
  BY <1>1 DEF Offset, Repeats
<1>7. Offset \in Nat
  BY <1>t, OffsetType
<1>8. \A j \in 1..Rows : /\ Rank(M, j) \in Nat /\ Rank(N, j) \in Nat
                         /\ Rank(N, j) = IF i > j THEN Rank(M, j) + 1 ELSE Rank(M, j)
  <2>1. SUFFICES ASSUME NEW j \in 1..Rows
                 PROVE  /\ Rank(M, j) \in Nat /\ Rank(N, j) \in Nat
                        /\ Rank(N, j) = IF i > j THEN Rank(M, j) + 1 ELSE Rank(M, j)
    OBVIOUS
  <2>2. Rank(M, j) \in Nat /\ Rank(N, j) \in Nat
    BY <1>4, RankType
  <2>3. Rank(N, j) = IF i > j THEN Rank(M, j) + 1 ELSE Rank(M, j)
    BY <1>4, RankCome
  <2> QED BY <2>2, <2>3
<1> DEFINE X == {j \in Again' : j \notin Again}
<1>9. ASSUME NEW j \in X
      PROVE  /\ j \in N /\ Rank(N, j) >= Offset
             /\ j # i => i > j /\ Rank(N, j) = Offset
  <2>1. j \in N /\ shown[j] > 0 /\ Rank(N, j) >= Offset
    BY <1>1, <1>6 DEF Again
  <2>2. ASSUME j # i PROVE i > j /\ Rank(N, j) = Offset
    <3>1. j \in M /\ j \in 1..Rows
      BY <1>4, <2>1, <2>2
    <3>2. ~(Rank(M, j) >= Offset)
      BY <2>1, <3>1 DEF Again
    <3> QED BY <1>7, <1>8, <2>1, <3>1, <3>2
  <2> QED BY <2>1, <2>2
<1>10. ASSUME NEW x \in X, NEW y \in X PROVE x = y
  <2>1. CASE x # i /\ y # i
    BY <1>4, <1>9, <2>1, RankInjective
  <2>2. ASSUME NEW z \in X, z # i, i \in X PROVE FALSE
    <3>1. i > z /\ Rank(N, z) = Offset /\ Rank(N, i) >= Offset /\ z \in N
      BY <1>9, <2>2
    <3>2. i \in N /\ z \in 1..Rows
      BY <1>4, <3>1
    <3>3. Rank(N, i) < Rank(N, z)
      BY <1>4, <3>1, <3>2, RankOrder
    <3> QED BY <1>4, <1>7, <1>8, <3>1, <3>2, <3>3
  <2> QED BY <2>1, <2>2
<1> HIDE DEF X
<1>11. IsFiniteSet(X) /\ Cardinality(X) <= 1
  BY <1>10, OneCard
<1>12. Cardinality(Again') <= Cardinality(Again) + 1 /\ Cardinality(Again') \in Nat
  <2>1. Again' \subseteq Again \cup X
    BY DEF X
  <2>2. IsFiniteSet(Again) /\ Cardinality(Again) \in Nat
    BY <1>t, CountsType
  <2>3. IsFiniteSet(Again') /\ Cardinality(Again') <= Cardinality(Again) + Cardinality(X)
    BY <1>11, <2>1, <2>2, CoverCard
  <2>4. Cardinality(Again') \in Nat /\ Cardinality(X) \in Nat
    BY <1>11, <2>3, FS_CardinalityType
  <2> QED BY <1>11, <2>2, <2>3, <2>4
<1>13. Cardinality(Missed') <= Cardinality(Missed) /\ Cardinality(Missed') \in Nat
  <2>1. ASSUME NEW j \in past.stayed, Rank(N, j) < Offset PROVE Rank(M, j) < Offset
    <3>1. j \in 1..Rows
      BY <1>2, <1>4
    <3> QED BY <1>7, <1>8, <2>1, <3>1
  <2>2. Missed' \in SUBSET Missed
    BY <1>1, <1>3, <1>6, <2>1 DEF Missed
  <2>3. IsFiniteSet(Missed)
    BY <1>t, CountsType
  <2> QED BY <2>2, <2>3, FS_Subset, FS_CardinalityType
<1>14. NeverShown' = NeverShown
  BY <1>1, <1>3 DEF NeverShown
<1>15. /\ Cardinality(Again) \in Nat /\ Cardinality(Missed) \in Nat
       /\ Cardinality(NeverShown) \in Nat /\ Cardinality(Repeats) \in Nat
  BY <1>t, CountsType, RepeatsFinite
<1>16. Moved'
  <2>1. /\ pc # "over" => /\ Cardinality(Repeats) + Cardinality(Again) <= past.came
                          /\ Cardinality(Missed) <= past.gone
        /\ pc = "over" => /\ Cardinality(Repeats) <= past.came
                          /\ Cardinality(NeverShown) <= past.gone + past.late
    BY DEF WalkInv, Moved
  <2>2. pc' = pc
    BY <1>1
  <2>3. pc # "over" => /\ Cardinality(Repeats') + Cardinality(Again') <= past'.came
                       /\ Cardinality(Missed') <= past'.gone
    BY <1>2, <1>3, <1>6, <1>12, <1>13, <1>15, <2>1
  <2>4. pc = "over" => /\ Cardinality(Repeats') <= past'.came
                       /\ Cardinality(NeverShown') <= past'.gone + past'.late
    BY <1>2, <1>3, <1>6, <1>14, <1>15, <2>1
  <2> QED BY <2>2, <2>3, <2>4 DEF Moved
<1>17. CountLags'
  <2>1. Cardinality(N) = Cardinality(M) + 1
    <3>1. IsFiniteSet(M)
      BY <1>4, RowsFinite
    <3> QED BY <1>4, <3>1, FS_AddElement
  <2>2. Cardinality(M) \in Nat /\ total \in Nat
    BY <1>t, CountsType, RowsNat DEF Typed
  <2>3. pc = "find" => Cardinality(M) <= total + past.late
    BY DEF WalkInv, CountLags
  <2> QED BY <1>1, <1>2, <1>3, <2>1, <2>2, <2>3 DEF CountLags
<1> QED BY <1>5, <1>16, <1>17 DEF WalkInv

LEMMA GoStep ==
  ASSUME WalkInv, NEW i \in matching, Go(i)
  PROVE  WalkInv'
<1> DEFINE M == matching
           N == matching \ {i}
<1>t. Typed
  BY DEF WalkInv
<1>1. /\ matching' = N /\ UNCHANGED <<req, total, pc, shown>>
      /\ past' = [past EXCEPT !.gone = past.gone + 1, !.stayed = past.stayed \ {i}]
      /\ past.gone < MaxChanges
  BY DEF Go
<1>2. /\ past \in [came : 0..MaxChanges, gone : 0..MaxChanges, late : Nat,
                   stayed : SUBSET M]
      /\ past.came \in Nat /\ past.gone \in Nat /\ past.late \in Nat
      /\ past.stayed \subseteq M
  BY <1>t, ListingAssumption DEF Typed
<1>3. /\ past'.gone = past.gone + 1 /\ past'.came = past.came
      /\ past'.stayed = past.stayed \ {i} /\ past'.late = past.late
  BY <1>1, <1>2
<1>4. M \in SUBSET (1..Rows) /\ N \in SUBSET (1..Rows)
  BY <1>t DEF Typed
<1>5. Typed'
  <2>1. past' \in [came : 0..MaxChanges, gone : 0..MaxChanges, late : Nat,
                   stayed : SUBSET N]
    <3>1. past.gone + 1 \in 0..MaxChanges
      BY <1>1, <1>2, ListingAssumption
    <3>2. past.stayed \ {i} \in SUBSET N
      BY <1>2
    <3> QED BY <1>1, <1>2, <3>1, <3>2
  <2>2. past'.late <= past'.came
    BY <1>t, <1>3 DEF Typed
  <2> QED BY <1>t, <1>1, <1>4, <2>1, <2>2 DEF Typed
<1>6. Offset' = Offset /\ Repeats' = Repeats
  BY <1>1 DEF Offset, Repeats
<1>7. Offset \in Nat
  BY <1>t, OffsetType
<1>8. \A j \in 1..Rows : /\ Rank(M, j) \in Nat /\ Rank(N, j) \in Nat
                         /\ Rank(M, j) = IF i > j THEN Rank(N, j) + 1 ELSE Rank(N, j)
  BY <1>4, RankType, RankGo
<1>9. Cardinality(Again') <= Cardinality(Again) /\ Cardinality(Again') \in Nat
  <2>1. ASSUME NEW j \in N, Rank(N, j) >= Offset PROVE Rank(M, j) >= Offset
    <3>1. j \in 1..Rows
      BY <1>4
    <3> QED BY <1>7, <1>8, <2>1, <3>1
  <2>2. Again' \in SUBSET Again
    BY <1>1, <1>6, <2>1 DEF Again
  <2>3. IsFiniteSet(Again)
    BY <1>t, CountsType
  <2> QED BY <2>2, <2>3, FS_Subset, FS_CardinalityType
<1> DEFINE X == {j \in Missed' : j \notin Missed}
<1>10. ASSUME NEW j \in X PROVE j \in M /\ Rank(M, j) = Offset
  <2>1. j \in past.stayed /\ shown[j] = 0 /\ Rank(N, j) < Offset /\ j \in M
    BY <1>1, <1>2, <1>3, <1>6 DEF Missed
  <2>2. ~(Rank(M, j) < Offset) /\ j \in 1..Rows
    BY <1>4, <2>1 DEF Missed
  <2> QED BY <1>7, <1>8, <2>1, <2>2
<1>11. \A x, y \in X : x = y
  BY <1>4, <1>10, RankInjective
<1> HIDE DEF X
<1>12. IsFiniteSet(X) /\ Cardinality(X) <= 1
  BY <1>11, OneCard
<1>13. Cardinality(Missed') <= Cardinality(Missed) + 1 /\ Cardinality(Missed') \in Nat
  <2>1. Missed' \subseteq Missed \cup X
    BY DEF X
  <2>2. IsFiniteSet(Missed) /\ Cardinality(Missed) \in Nat
    BY <1>t, CountsType
  <2>3. IsFiniteSet(Missed')
          /\ Cardinality(Missed') <= Cardinality(Missed) + Cardinality(X)
    BY <1>12, <2>1, <2>2, CoverCard
  <2>4. Cardinality(Missed') \in Nat /\ Cardinality(X) \in Nat
    BY <1>12, <2>3, FS_CardinalityType
  <2> QED BY <1>12, <2>2, <2>3, <2>4
<1>14. Cardinality(NeverShown') <= Cardinality(NeverShown) /\ Cardinality(NeverShown') \in Nat
  <2>1. NeverShown' \in SUBSET NeverShown
    BY <1>1, <1>3 DEF NeverShown
  <2>2. IsFiniteSet(NeverShown)
    BY <1>t, CountsType
  <2> QED BY <2>1, <2>2, FS_Subset, FS_CardinalityType
<1>15. /\ Cardinality(Again) \in Nat /\ Cardinality(Missed) \in Nat
       /\ Cardinality(NeverShown) \in Nat /\ Cardinality(Repeats) \in Nat
  BY <1>t, CountsType, RepeatsFinite
<1>16. Moved'
  <2>1. /\ pc # "over" => /\ Cardinality(Repeats) + Cardinality(Again) <= past.came
                          /\ Cardinality(Missed) <= past.gone
        /\ pc = "over" => /\ Cardinality(Repeats) <= past.came
                          /\ Cardinality(NeverShown) <= past.gone + past.late
    BY DEF WalkInv, Moved
  <2>2. pc' = pc
    BY <1>1
  <2>3. pc # "over" => /\ Cardinality(Repeats') + Cardinality(Again') <= past'.came
                       /\ Cardinality(Missed') <= past'.gone
    BY <1>2, <1>3, <1>6, <1>9, <1>13, <1>15, <2>1
  <2>4. pc = "over" => /\ Cardinality(Repeats') <= past'.came
                       /\ Cardinality(NeverShown') <= past'.gone + past'.late
    BY <1>2, <1>3, <1>6, <1>14, <1>15, <2>1
  <2> QED BY <2>2, <2>3, <2>4 DEF Moved
<1>17. CountLags'
  <2>1. Cardinality(N) = Cardinality(M) - 1
    <3>1. IsFiniteSet(M)
      BY <1>4, RowsFinite
    <3> QED BY <3>1, FS_RemoveElement
  <2>2. Cardinality(M) \in Nat /\ total \in Nat
    BY <1>t, CountsType, RowsNat DEF Typed
  <2>3. pc = "find" => Cardinality(M) <= total + past.late
    BY DEF WalkInv, CountLags
  <2> QED BY <1>1, <1>2, <1>3, <2>1, <2>2, <2>3 DEF CountLags
<1> QED BY <1>5, <1>16, <1>17 DEF WalkInv

-----------------------------------------------------------------------------
(* Requests.                                                                  *)

LEMMA AskStep ==
  ASSUME WalkInv, Ask
  PROVE  WalkInv'
<1>t. Typed
  BY DEF WalkInv
<1>1. pc = "ask" /\ UNCHANGED <<matching, total, shown, past>>
  BY DEF Ask
<1>2. /\ req \in [service : Services, page : 1..Rows + 1, size : Int]
      /\ req.size \in Sizes \cup 1..MaxSize
      /\ req.page > 1 => req.size \in 1..MaxSize
      /\ req.page \in Nat /\ req.page >= 1
  BY <1>t, RowsNat DEF Typed
<1>3. PICK n \in Int :
        /\ req' = [req EXCEPT !.size = n]
        /\ \/ pc' = "refused" /\ n = req.size
           \/ pc' = "count" /\ n \in 1..MaxSize
        /\ req.size \in 1..MaxSize => n = req.size
  <2>1. req = [req EXCEPT !.size = req.size]
    BY <1>2
  <2>2. /\ DataSize(req.size) \in Int /\ ExperimentSize(req.size) \in Int
        /\ DataSize(req.size) \in 1..MaxSize /\ ExperimentSize(req.size) \in 1..MaxSize
        /\ req.size \in 1..MaxSize =>
             DataSize(req.size) = req.size /\ ExperimentSize(req.size) = req.size
    <3>1. req.size \in Int
      BY <1>2
    <3> QED BY <3>1, SizesInRange
  <2>3. CASE req.service = "training" /\ req.size \notin 1..MaxSize
    BY <1>2, <2>1, <2>3 DEF Ask
  <2>4. CASE req.service = "training" /\ req.size \in 1..MaxSize
    BY <1>2, <2>1, <2>4 DEF Ask
  <2>5. CASE req.service = "data"
    BY <2>2, <2>5 DEF Ask
  <2>6. CASE req.service = "experiment"
    BY <2>2, <2>6 DEF Ask
  <2> QED BY <1>2, <2>3, <2>4, <2>5, <2>6 DEF Services
<1>4. /\ req' \in [service : Services, page : 1..Rows + 1, size : Int]
      /\ req'.page = req.page /\ req'.size = n /\ pc' \in {"refused", "count"}
  BY <1>2, <1>3
<1>5. Typed'
  <2>1. req'.size \in Sizes \cup 1..MaxSize
    BY <1>2, <1>3, <1>4
  <2>2. pc' \in {"count", "find", "over"} \/ req'.page > 1 => req'.size \in 1..MaxSize
    BY <1>2, <1>3, <1>4
  <2>3. pc # "over" /\ pc' # "over"
    BY <1>1, <1>4
  <2> QED BY <1>t, <1>1, <1>4, <2>1, <2>2, <2>3 DEF Typed
<1>6. Offset' = Offset
  <2>1. CASE req.page > 1
    BY <1>2, <1>3, <1>4, <2>1 DEF Offset
  <2>2. CASE ~(req.page > 1)
    BY <1>2, <1>4, <2>2 DEF Offset
  <2> QED BY <2>1, <2>2
<1>7. Again' = Again /\ Missed' = Missed /\ Repeats' = Repeats
  BY <1>1, <1>6 DEF Again, Missed, Repeats
<1>8. Moved'
  BY <1>1, <1>4, <1>7 DEF WalkInv, Moved
<1>9. CountLags'
  BY <1>4 DEF CountLags
<1> QED BY <1>5, <1>8, <1>9 DEF WalkInv

LEMMA CountStep ==
  ASSUME WalkInv, Count
  PROVE  WalkInv'
<1>t. Typed
  BY DEF WalkInv
<1>1. /\ pc = "count" /\ pc' = "find" /\ total' = Cardinality(matching)
      /\ past' = [past EXCEPT !.late = 0] /\ UNCHANGED <<matching, req, shown>>
  BY DEF Count
<1>2. past \in [came : 0..MaxChanges, gone : 0..MaxChanges, late : Nat,
                stayed : SUBSET matching]
  BY <1>t DEF Typed
<1>3. /\ past'.came = past.came /\ past'.gone = past.gone /\ past'.late = 0
      /\ past'.stayed = past.stayed
      /\ past' \in [came : 0..MaxChanges, gone : 0..MaxChanges, late : Nat,
                    stayed : SUBSET matching]
      /\ past.came \in Nat
  BY <1>1, <1>2, ListingAssumption
<1>4. Cardinality(matching) \in 0..Rows /\ Cardinality(matching) \in Nat
  BY <1>t, CountsType, RowsNat
<1>5. Typed'
  BY <1>t, <1>1, <1>3, <1>4 DEF Typed
<1>6. Offset' = Offset
  BY <1>1 DEF Offset
<1>7. Again' = Again /\ Missed' = Missed /\ Repeats' = Repeats
  BY <1>1, <1>3, <1>6 DEF Again, Missed, Repeats
<1>8. Moved'
  BY <1>1, <1>3, <1>7 DEF WalkInv, Moved
<1>9. CountLags'
  BY <1>1, <1>3, <1>4 DEF CountLags
<1> QED BY <1>5, <1>8, <1>9 DEF WalkInv

LEMMA FailStep ==
  ASSUME WalkInv, Fail
  PROVE  WalkInv'
<1>1. pc # "over" /\ pc' = "ask" /\ UNCHANGED <<matching, req, total, shown, past>>
  BY DEF Fail
<1>2. Typed'
  BY <1>1 DEF WalkInv, Typed
<1>3. Offset' = Offset
  BY <1>1 DEF Offset
<1>4. Again' = Again /\ Missed' = Missed /\ Repeats' = Repeats
  BY <1>1, <1>3 DEF Again, Missed, Repeats
<1>5. Moved'
  BY <1>1, <1>4 DEF WalkInv, Moved
<1>6. CountLags'
  BY <1>1 DEF CountLags
<1> QED BY <1>2, <1>5, <1>6 DEF WalkInv

\* A page shows again only rows that were about to be.
LEMMA FindRepeats ==
  ASSUME Typed, Find
  PROVE  LET B == Again \cap Page IN
         /\ IsFiniteSet(Repeats') /\ Cardinality(Repeats') \in Nat
         /\ Cardinality(B) \in Nat
         /\ Cardinality(Repeats') <= Cardinality(Repeats) + Cardinality(B)
<1> DEFINE B == Again \cap Page
           f == [i \in B |-> <<i, shown[i] + 1>>]
           R == {f[i] : i \in B}
<1>1. shown' = [i \in 1..Rows |-> IF i \in Page THEN shown[i] + 1 ELSE shown[i]]
  BY DEF Find
<1>2. shown \in [1..Rows -> Nat] /\ matching \subseteq 1..Rows /\ Offset \in Nat
  BY OffsetType DEF Typed
<1>3. IsFiniteSet(B) /\ Cardinality(B) \in Nat
  BY CountsType, FS_Subset, FS_CardinalityType
<1>4. IsFiniteSet(R) /\ Cardinality(R) <= Cardinality(B)
  <2> HIDE DEF B
  <2>1. DOMAIN f = B /\ f = [x \in B |-> f[x]]
    OBVIOUS
  <2> HIDE DEF f
  <2> QED BY <1>3, <2>1, MapCard
<1>5. Repeats' \subseteq Repeats \cup R
  <2>1. SUFFICES ASSUME NEW i \in 1..Rows, NEW k \in 2..shown'[i]
                 PROVE  <<i, k>> \in Repeats \cup R
    BY DEF Repeats
  <2>2. CASE k \in 2..shown[i]
    BY <2>2 DEF Repeats
  <2>3. CASE k \notin 2..shown[i]
    <3>1. i \in Page /\ k = shown[i] + 1 /\ shown[i] > 0
      BY <1>1, <1>2, <2>3
    <3>2. i \in B
      <4>1. i \in matching /\ Rank(matching, i) \in Offset..Offset + req.size - 1
        BY <3>1 DEF Page
      <4>2. Rank(matching, i) >= Offset
        BY <4>1
      <4> QED BY <3>1, <4>1, <4>2 DEF Again
    <3> QED BY <3>1, <3>2
  <2> QED BY <2>2, <2>3
<1>6. IsFiniteSet(Repeats) /\ Cardinality(Repeats) \in Nat
  BY RepeatsFinite
<1> HIDE DEF R, B
<1>7. IsFiniteSet(Repeats')
        /\ Cardinality(Repeats') <= Cardinality(Repeats) + Cardinality(R)
  BY <1>4, <1>5, <1>6, CoverCard
<1>8. Cardinality(Repeats') \in Nat /\ Cardinality(R) \in Nat
  BY <1>4, <1>7, FS_CardinalityType
<1>9. /\ IsFiniteSet(Repeats') /\ Cardinality(Repeats') \in Nat
      /\ Cardinality(B) \in Nat
      /\ Cardinality(Repeats') <= Cardinality(Repeats) + Cardinality(B)
  BY <1>3, <1>4, <1>6, <1>7, <1>8
<1> QED BY <1>9 DEF B

LEMMA FindStep ==
  ASSUME WalkInv, Find
  PROVE  WalkInv'
<1> DEFINE B == Again \cap Page
           P == Offset + req.size
           Tail == {i \in matching : Rank(matching, i) >= P}
<1>t. Typed
  BY DEF WalkInv
<1>1. /\ pc = "find" /\ Answered /\ UNCHANGED <<matching, total, past>>
      /\ shown' = [i \in 1..Rows |-> IF i \in Page THEN shown[i] + 1 ELSE shown[i]]
  BY DEF Find
<1>2. /\ req \in [service : Services, page : 1..Rows + 1, size : Int]
      /\ req.page \in Nat /\ req.page >= 1 /\ req.size \in Nat
      /\ req.size \in 1..MaxSize
      /\ shown \in [1..Rows -> 0..req.page - 1]
      /\ matching \in SUBSET (1..Rows)
      /\ past.stayed \subseteq matching
  BY <1>t, <1>1, RowsNat, ListingAssumption DEF Typed
<1>3. Offset \in Nat /\ P \in Nat /\ P = req.page * req.size
  BY <1>t, <1>2, OffsetType
<1>4. /\ TotalPage \in Nat /\ TotalPage <= Rows
      /\ req.page >= TotalPage => P >= total
  BY <1>t, <1>1, <1>3, TotalPageType
<1>5. \/ /\ req.page < TotalPage /\ pc' = "ask"
         /\ req' = [req EXCEPT !.page = req.page + 1]
      \/ /\ req.page >= TotalPage /\ pc' = "over" /\ req' = req
  BY <1>1, <1>2, <1>4 DEF Answered
<1>6. shown' \in [1..Rows -> 0..req.page]
  BY <1>1, <1>2
<1>7. \A i \in matching : /\ i \in 1..Rows /\ shown[i] \in Nat
                          /\ Rank(matching, i) \in Nat
                          /\ i \in Page <=> /\ Rank(matching, i) >= Offset
                                            /\ Rank(matching, i) < P
                          /\ shown'[i] = IF i \in Page THEN shown[i] + 1 ELSE shown[i]
  <2>1. SUFFICES ASSUME NEW i \in matching
                 PROVE  /\ i \in 1..Rows /\ shown[i] \in Nat
                        /\ Rank(matching, i) \in Nat
                        /\ i \in Page <=> /\ Rank(matching, i) >= Offset
                                          /\ Rank(matching, i) < P
                        /\ shown'[i] = IF i \in Page THEN shown[i] + 1 ELSE shown[i]
    OBVIOUS
  <2>2. i \in 1..Rows
    BY <1>2
  <2>3. Rank(matching, i) \in Nat
    BY <1>2, <2>2, RankType
  <2>4. shown[i] \in Nat /\ shown'[i] = IF i \in Page THEN shown[i] + 1 ELSE shown[i]
    BY <1>1, <1>2, <2>2
  <2>5. i \in Page <=> Rank(matching, i) >= Offset /\ Rank(matching, i) < P
    BY <1>2, <1>3, <2>3 DEF Page
  <2> QED BY <2>2, <2>3, <2>4, <2>5
<1>8. /\ Cardinality(Repeats) \in Nat /\ Cardinality(Again) \in Nat
      /\ Cardinality(Missed) \in Nat /\ Cardinality(matching) \in Nat
      /\ IsFiniteSet(Again) /\ IsFiniteSet(Missed)
      /\ past.came \in Nat /\ past.gone \in Nat /\ past.late \in Nat /\ total \in Nat
  <2>1. past.came \in Nat /\ past.gone \in Nat /\ past.late \in Nat /\ total \in Nat
    BY <1>t, RowsNat, ListingAssumption DEF Typed
  <2> QED BY <1>t, <2>1, CountsType, RepeatsFinite, RowsNat
<1>9. /\ Cardinality(Repeats) + Cardinality(Again) <= past.came
      /\ Cardinality(Missed) <= past.gone
      /\ Cardinality(matching) <= total + past.late
  BY <1>1 DEF WalkInv, Moved, CountLags
<1>10. /\ Cardinality(Repeats') \in Nat /\ Cardinality(B) \in Nat
       /\ Cardinality(Repeats') <= Cardinality(Repeats) + Cardinality(B)
  BY <1>t, FindRepeats
<1> DEFINE C == Again \ Page
<1>11. /\ Cardinality(B) + Cardinality(C) = Cardinality(Again)
       /\ IsFiniteSet(C) /\ Cardinality(C) \in Nat
  BY <1>8, SplitCard
<1> HIDE DEF B, P
<1>12. ASSUME req.page < TotalPage, pc' = "ask", req' = [req EXCEPT !.page = req.page + 1]
       PROVE  WalkInv'
  <2>1. /\ req' \in [service : Services, page : 1..Rows + 1, size : Int]
        /\ req'.page = req.page + 1 /\ req'.size = req.size
    BY <1>2, <1>4, <1>12, RowsNat
  <2>2. Offset' = P
    BY <1>2, <1>3, <2>1 DEF Offset
  <2>3. Typed'
    <3>1. 0..req.page = 0..req'.page - 1 /\ 0..req.page \subseteq 0..req'.page
      BY <1>2, <2>1
    <3>2. shown' \in [1..Rows -> 0..req'.page - 1] /\ shown' \in [1..Rows -> 0..req'.page]
      BY <1>6, <3>1
    <3>3. req'.size \in Sizes \cup 1..MaxSize /\ req'.size \in 1..MaxSize
      BY <1>2, <2>1
    <3> QED BY <1>t, <1>1, <1>12, <2>1, <3>2, <3>3 DEF Typed
  <2>4. Cardinality(Again') \in Nat /\ Cardinality(Again') <= Cardinality(Again \ Page)
    <3>1. ASSUME NEW i \in matching, shown'[i] > 0, Rank(matching, i) >= P
          PROVE  i \in Again \ Page
      <4>1. i \notin Page /\ shown'[i] = shown[i] /\ Rank(matching, i) >= Offset
        BY <1>2, <1>3, <1>7, <3>1 DEF P
      <4> QED BY <3>1, <4>1 DEF Again
    <3>2. Again' \in SUBSET (Again \ Page)
      BY <1>1, <2>2, <3>1 DEF Again
    <3> QED BY <1>11, <3>2, FS_Subset, FS_CardinalityType
  <2>5. Cardinality(Missed') \in Nat /\ Cardinality(Missed') <= Cardinality(Missed)
    <3>1. ASSUME NEW i \in past.stayed, shown'[i] = 0, Rank(matching, i) < P
          PROVE  i \in Missed
      <4>1. i \in matching
        BY <1>2
      <4>2. i \notin Page /\ shown[i] = 0 /\ Rank(matching, i) < Offset
        BY <1>3, <1>7, <3>1, <4>1
      <4> QED BY <4>2 DEF Missed
    <3>2. Missed' \in SUBSET Missed
      BY <1>1, <2>2, <3>1 DEF Missed
    <3> QED BY <1>8, <3>2, FS_Subset, FS_CardinalityType
  <2>6. Moved'
    <3>1. /\ Cardinality(Repeats') + Cardinality(Again') <= past'.came
          /\ Cardinality(Missed') <= past'.gone
      <4>1. past' = past /\ Cardinality(C) \in Nat
        BY <1>1, <1>11
      <4>2. /\ Cardinality(B) + Cardinality(C) = Cardinality(Again)
            /\ Cardinality(Again') <= Cardinality(C)
        BY <1>11, <2>4
      <4> HIDE DEF C
      <4> QED BY <1>8, <1>9, <1>10, <2>4, <2>5, <4>1, <4>2
    <3> QED BY <1>12, <3>1 DEF Moved
  <2>7. CountLags'
    BY <1>12 DEF CountLags
  <2> QED BY <2>3, <2>6, <2>7 DEF WalkInv
<1>13. ASSUME req.page >= TotalPage, pc' = "over", req' = req
       PROVE  WalkInv'
  <2>1. Typed'
    BY <1>t, <1>1, <1>2, <1>6, <1>13 DEF Typed
  <2>2. IsFiniteSet(Tail) /\ Cardinality(Tail) \in Nat /\ Cardinality(Tail) <= past.late
    <3>1. /\ IsFiniteSet(Tail)
          /\ Cardinality(Tail) <= IF P <= Cardinality(matching)
                                  THEN Cardinality(matching) - P ELSE 0
      BY <1>2, <1>3, RankTail
    <3>2. Cardinality(Tail) \in Nat
      BY <3>1, FS_CardinalityType
    <3> HIDE DEF Tail
    <3> QED BY <1>3, <1>4, <1>8, <1>9, <1>13, <3>1, <3>2
  <2>3. NeverShown' \subseteq Missed \cup Tail
    <3>1. ASSUME NEW i \in past.stayed, shown'[i] = 0
          PROVE  i \in Missed \cup Tail
      <4>1. i \in matching
        BY <1>2
      <4>2. i \notin Page /\ shown[i] = 0
        BY <1>7, <3>1, <4>1
      <4>3. Rank(matching, i) < Offset \/ Rank(matching, i) >= P
        BY <1>3, <1>7, <4>1, <4>2
      <4> QED BY <4>1, <4>2, <4>3 DEF Missed
    <3> QED BY <1>1, <3>1 DEF NeverShown
  <2> HIDE DEF Tail
  <2>4. IsFiniteSet(NeverShown')
          /\ Cardinality(NeverShown') <= Cardinality(Missed) + Cardinality(Tail)
    BY <1>8, <2>2, <2>3, CoverCard
  <2>5. Cardinality(NeverShown') \in Nat
    BY <2>4, FS_CardinalityType
  <2>6. Moved'
    <3>1. /\ Cardinality(Repeats') <= past'.came
          /\ Cardinality(NeverShown') <= past'.gone + past'.late
      <4>1. past' = past /\ Cardinality(C) \in Nat
        BY <1>1, <1>11
      <4>2. Cardinality(B) + Cardinality(C) = Cardinality(Again)
        BY <1>11
      <4> HIDE DEF C
      <4> QED BY <1>8, <1>9, <1>10, <2>2, <2>4, <2>5, <4>1, <4>2
    <3> QED BY <1>13, <3>1 DEF Moved
  <2>7. CountLags'
    BY <1>13 DEF CountLags
  <2> QED BY <2>1, <2>6, <2>7 DEF WalkInv
<1> QED BY <1>5, <1>12, <1>13

-----------------------------------------------------------------------------
(* The specification.                                                         *)

LEMMA WalkStarts ==
  ASSUME Init
  PROVE  WalkInv
<1>1. /\ matching \in SUBSET (1..Rows) /\ total = 0 /\ pc = "ask"
      /\ req \in [service : Services, page : {1}, size : Sizes]
      /\ shown = [i \in 1..Rows |-> 0]
      /\ past.came = 0 /\ past.gone = 0 /\ past.late = 0 /\ past.stayed = matching
      /\ past = NewWalk(matching)
  BY DEF Init, NewWalk
<1>2. Typed
  <2>1. req \in [service : Services, page : 1..Rows + 1, size : Int]
          /\ req.page = 1 /\ req.size \in Sizes
    <3>1. PICK s \in Services, n \in Sizes : req = [service |-> s, page |-> 1, size |-> n]
      BY <1>1
    <3>2. 1 \in 1..Rows + 1 /\ n \in Int
      BY ListingAssumption
    <3> QED BY <3>1, <3>2
  <2>2. past \in [came : 0..MaxChanges, gone : 0..MaxChanges, late : Nat,
                  stayed : SUBSET matching]
    BY <1>1, ListingAssumption DEF NewWalk
  <2>3. shown \in [1..Rows -> 0..req.page - 1] /\ shown \in [1..Rows -> 0..req.page]
    BY <1>1, <2>1
  <2>4. total \in 0..Rows
    BY <1>1, RowsNat
  <2> QED BY <1>1, <2>1, <2>2, <2>3, <2>4 DEF Typed
<1>3. Again = {} /\ Repeats = {}
  <2>1. \A i \in 1..Rows : shown[i] = 0
    BY <1>1
  <2>2. ASSUME NEW i \in matching PROVE ~(shown[i] > 0)
    BY <1>1, <2>1
  <2>3. Again = {}
    BY <2>2 DEF Again
  <2>4. ASSUME NEW i \in 1..Rows PROVE {i} \X (2..shown[i]) = {}
    BY <2>1
  <2>5. Repeats = {}
    BY <2>4 DEF Repeats
  <2> QED BY <2>3, <2>5
<1>4. Missed = {}
  <2>1. Offset = 0
    BY <1>1, <1>2, OffsetType
  <2>2. ASSUME NEW i \in matching PROVE ~(Rank(matching, i) < 0)
    <3>1. i \in 1..Rows
      BY <1>1
    <3>2. Rank(matching, i) \in Nat
      BY <1>1, <3>1, RankType
    <3> QED BY <3>2
  <2> QED BY <1>1, <2>1, <2>2 DEF Missed
<1>5. Moved
  BY <1>1, <1>3, <1>4, FS_EmptySet DEF Moved
<1> QED BY <1>1, <1>2, <1>5 DEF WalkInv, CountLags

LEMMA WalkStep ==
  ASSUME WalkInv, [Next]_vars
  PROVE  WalkInv'
<1>1. CASE UNCHANGED vars
  <2>1. Typed'
    BY <1>1 DEF WalkInv, Typed, vars
  <2>2. Offset' = Offset
    BY <1>1 DEF Offset, vars
  <2>3. Again' = Again /\ Missed' = Missed /\ Repeats' = Repeats
          /\ NeverShown' = NeverShown
    BY <1>1, <2>2 DEF Again, Missed, Repeats, NeverShown, vars
  <2> QED BY <1>1, <2>1, <2>3 DEF WalkInv, Moved, CountLags, vars
<1>2. ASSUME NEW i \in 1..Rows \ matching, Come(i) PROVE WalkInv'
  BY <1>2, ComeStep
<1>3. ASSUME NEW i \in matching, Go(i) PROVE WalkInv'
  BY <1>3, GoStep
<1> QED BY <1>1, <1>2, <1>3, AskStep, CountStep, FindStep, FailStep DEF Next

\* Every state of a walk has its types, and is one the argument covers.
THEOREM WalkIsCounted == Spec => []WalkInv
<1>1. Init => WalkInv
  BY WalkStarts
<1>2. WalkInv /\ [Next]_vars => WalkInv'
  BY WalkStep
<1> QED BY <1>1, <1>2, PTL DEF Spec

\* The requests, counts and pages of the three services' lists have their types:
\* no page size that reaches a query is out of range.
THEOREM TypeCorrect == Spec => []TypeOK
<1>1. WalkInv => TypeOK
  <2>1. SUFFICES ASSUME WalkInv PROVE TypeOK
    OBVIOUS
  <2>2. Typed
    BY <2>1 DEF WalkInv
  <2>3. /\ past.came \in 0..MaxChanges /\ past.gone \in 0..MaxChanges
        /\ past.late \in 0..past.came /\ past.stayed \subseteq matching
    BY <2>2, ListingAssumption DEF Typed
  <2>4. req.service \in Services /\ req.page \in 1..Rows + 1
    BY <2>2 DEF Typed
  <2> QED BY <2>2, <2>3, <2>4 DEF Typed, TypeOK
<1> QED BY <1>1, WalkIsCounted, PTL

\* A walk misses at most as many of the rows that stayed as went or came late, and
\* shows rows again at most as often as a row came, although no transaction joins
\* the count and the find of repository.List.
THEOREM WalkMissesOnlyWhatMoved == Spec => []WalkMissesOnlyMoved
<1>1. WalkInv => WalkMissesOnlyMoved
  BY DEF WalkInv, Moved, NeverShown, WalkMissesOnlyMoved
<1> QED BY <1>1, WalkIsCounted, PTL
=============================================================================
