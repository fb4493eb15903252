-------------------------- MODULE ArchiveStoreProofs --------------------------
(* Proofs about ArchiveStore's TimeRangeSet: whatever ranges are added, in      *)
(* whatever order std::sort leaves those that start together, the set answers   *)
(* as the added ranges would, the wrap of end + 1 included.                     *)
EXTENDS ArchiveStore, SumTheorems, SequenceTheorems

Time == 0..(TimeModulus - 1)

TimeRange == {r \in [start : Time, end : Time] : r.start <= r.end}

Within(r, t) == r.start <= t /\ t <= r.end

Covered(R, t) == \E r \in R : Within(r, t)

LastTime == TimeModulus - 1

InOrder(s) == \A i, j \in 1..Len(s) : i < j => s[i].start <= s[j].start

Apart(s) == \A i \in 2..Len(s) : s[i - 1].end + 1 < s[i].start

\* The ranges kept cover what the added ones cover, and are apart unless the last time is covered.
RInv ==
    /\ ranges \in Seq(TimeRange)
    /\ added \subseteq TimeRange
    /\ \A t \in Time : Covered(Range(ranges), t) <=> Covered(added, t)
    /\ Covered(added, LastTime) \/ Apart(ranges)

-----------------------------------------------------------------------------
(* Operators.                                                              *)

\* The larger and the smaller of two numbers.
LEMMA MaxOfTwo ==
    ASSUME NEW a \in Int, NEW b \in Int
    PROVE  Max({a, b}) = IF a >= b THEN a ELSE b
<1> DEFINE m == IF a >= b THEN a ELSE b
<1>1. m \in {a, b} /\ \A y \in {a, b} : m >= y
    OBVIOUS
<1>2. \A x \in {a, b} : (\A y \in {a, b} : x >= y) => x = m
    OBVIOUS
<1> HIDE DEF m
<1>3. Max({a, b}) = m
    BY <1>1, <1>2 DEF Max
<1> QED
    BY <1>3 DEF m

LEMMA MinOfTwo ==
    ASSUME NEW a \in Int, NEW b \in Int
    PROVE  Min({a, b}) = IF a <= b THEN a ELSE b
<1> DEFINE m == IF a <= b THEN a ELSE b
<1>1. m \in {a, b} /\ \A y \in {a, b} : m <= y
    OBVIOUS
<1>2. \A x \in {a, b} : (\A y \in {a, b} : x <= y) => x = m
    OBVIOUS
<1> HIDE DEF m
<1>3. Min({a, b}) = m
    BY <1>1, <1>2 DEF Min
<1> QED
    BY <1>3 DEF m

\* What is added is a range whichever way its bounds are given.
LEMMA NormalTyped ==
    ASSUME NEW a \in Time, NEW b \in Time
    PROVE  Normal([start |-> a, end |-> b]) \in TimeRange
<1>1. a \in Int /\ b \in Int
    BY DEF Time
<1>2. Min({a, b}) \in Time /\ Max({a, b}) \in Time /\ Min({a, b}) <= Max({a, b})
    BY <1>1, MaxOfTwo, MinOfTwo DEF Time
<1>3. Normal([start |-> a, end |-> b]) = [start |-> Min({a, b}), end |-> Max({a, b})]
    BY DEF Normal
<1> QED
    BY <1>2, <1>3 DEF TimeRange

\* The bounds of a range.
LEMMA RangeBoundsOf ==
    ASSUME StoreAssumption, NEW r \in TimeRange
    PROVE  /\ r.start \in Nat /\ r.end \in Nat /\ r.start <= r.end /\ r.end <= LastTime
           /\ r = [start |-> r.start, end |-> r.end]
           /\ Within(r, r.end) /\ LastTime \in Time /\ r.end \in Time /\ r.start \in Time
<1>1. TimeModulus \in Nat /\ TimeModulus > 0
    BY DEF StoreAssumption
<1>2. r.start \in Time /\ r.end \in Time /\ r.start <= r.end /\ r = [start |-> r.start, end |-> r.end]
    BY DEF TimeRange
<1> QED
    BY <1>1, <1>2 DEF Time, LastTime, Within

-----------------------------------------------------------------------------
(* One step of normalize().                                                *)

\* A range that starts no earlier than the last one is appended or swallowed, and nothing else
\* becomes covered.
LEMMA MergeStep ==
    ASSUME StoreAssumption, NEW m \in Seq(TimeRange), NEW r \in TimeRange,
           m # <<>> => m[Len(m)].start <= r.start
    PROVE  LET x == MergeRange(m, r)
           IN  /\ x \in Seq(TimeRange) /\ x # <<>> /\ x[Len(x)].start <= r.start
               /\ \A t \in Int : Covered(Range(x), t) <=> Covered(Range(m), t) \/ Within(r, t)
               /\ (m = <<>> \/ m[Len(m)].end # LastTime) /\ Apart(m) => Apart(x)
<1> DEFINE n == Len(m)
           l == m[n]
           x == MergeRange(m, r)
<1>1. n \in Nat /\ \A i \in 1..n : m[i] \in TimeRange
    BY LenProperties, ElementOfSeq
<1>2. r.start \in Nat /\ r.end \in Nat /\ r.start <= r.end
    BY RangeBoundsOf
<1>3. DOMAIN m = 1..n
    BY LenProperties
<1>4. TimeModulus \in Nat /\ TimeModulus > 0
    BY DEF StoreAssumption
<1>5. m # <<>> => n > 0
    BY EmptySeq, <1>1
<1>6. ASSUME m # <<>>
      PROVE  /\ l \in TimeRange /\ l.start \in Nat /\ l.end \in Nat /\ l.start <= l.end
             /\ l.end <= TimeModulus - 1 /\ l.start <= r.start
             /\ ((l.end + 1) % TimeModulus) = (IF l.end = LastTime THEN 0 ELSE l.end + 1)
    <2>1. l \in TimeRange
        BY <1>1, <1>5, <1>6
    <2> HIDE DEF l
    <2>2. l.start \in Nat /\ l.end \in Nat /\ l.start <= l.end /\ l.end <= TimeModulus - 1
        BY <2>1, RangeBoundsOf DEF LastTime
    <2>3. ((l.end + 1) % TimeModulus) = (IF l.end = LastTime THEN 0 ELSE l.end + 1)
        <3> DEFINE e == l.end
        <3>1. e \in Nat /\ e <= TimeModulus - 1
            BY <2>2
        <3> HIDE DEF e
        <3>2. ((e + 1) % TimeModulus) = (IF e = TimeModulus - 1 THEN 0 ELSE e + 1)
            BY <1>4, <3>1
        <3> QED
            BY <3>2 DEF e, LastTime
    <2>4. l.start <= r.start
        BY <1>6 DEF l
    <2> QED
        BY <2>1, <2>2, <2>3, <2>4
<1>7. CASE m = <<>> \/ r.start > ((l.end + 1) % TimeModulus)
    <2>1. x = Append(m, r)
        BY <1>7 DEF MergeRange, Last
    <2>2. /\ x \in Seq(TimeRange) /\ Len(x) = n + 1 /\ x[n + 1] = r
          /\ \A i \in 1..n : x[i] = m[i]
          /\ DOMAIN x = 1..(n + 1)
        <3>1. x \in Seq(TimeRange) /\ Len(x) = n + 1 /\ x[n + 1] = r /\ \A i \in 1..n : x[i] = m[i]
            BY <2>1, AppendProperties
        <3> HIDE DEF x
        <3> QED
            BY <3>1, LenProperties
    <2> HIDE DEF x
    <2>3. Range(x) = Range(m) \cup {r}
        <3>1. DOMAIN x = DOMAIN m \cup {n + 1}
            BY <1>1, <1>3, <2>2
        <3> QED
            BY <1>3, <2>2, <3>1 DEF Range
    <2>4. \A t \in Int : Covered(Range(x), t) <=> Covered(Range(m), t) \/ Within(r, t)
        BY <2>3 DEF Covered
    <2>5. x # <<>> /\ x[Len(x)].start <= r.start
        BY <1>1, <1>2, <2>2
    <2>6. ASSUME m = <<>> \/ l.end # LastTime, Apart(m) PROVE Apart(x)
        <3> SUFFICES ASSUME NEW i \in 2..(n + 1) PROVE x[i - 1].end + 1 < x[i].start
            BY <2>2 DEF Apart
        <3>1. CASE i <= n
            BY <1>1, <2>2, <2>6, <3>1 DEF Apart
        <3>2. CASE i = n + 1
            <4>1. m # <<>> /\ x[i - 1] = l /\ x[i] = r
                BY <1>1, <2>2, <3>2
            <4>2. l.end + 1 < r.start
                BY <1>6, <1>7, <2>6, <4>1
            <4> QED
                BY <4>1, <4>2
        <3> QED
            BY <1>1, <3>1, <3>2
    <2> QED
        BY <2>2, <2>4, <2>5, <2>6 DEF x, l, n
<1>8. CASE m # <<>> /\ ~(r.start > ((l.end + 1) % TimeModulus))
    <2> DEFINE e == Max({l.end, r.end})
               y == [start |-> l.start, end |-> e]
    <2>1. e = IF l.end >= r.end THEN l.end ELSE r.end
        BY <1>2, <1>6, <1>8, MaxOfTwo
    <2>2. r.start <= l.end + 1 /\ l.start <= r.start
        BY <1>2, <1>6, <1>8
    <2>3. y \in TimeRange
        <3>1. r.end \in Time /\ l.end \in Time /\ l.start \in Time
            BY <1>6, <1>8, RangeBoundsOf
        <3>2. e \in Time /\ l.start <= e
            BY <1>6, <1>8, <2>1, <3>1 DEF Time
        <3> HIDE DEF e
        <3> QED
            BY <3>1, <3>2 DEF TimeRange
    <2>4. /\ x = [m EXCEPT ![n].end = Max({@, r.end})]
        BY <1>8 DEF MergeRange, Last
    <2>5. x = [m EXCEPT ![n] = y]
        <3>1. l = [start |-> l.start, end |-> l.end]
            <4> HIDE DEF l
            <4> QED
                BY <1>6, <1>8, RangeBoundsOf
        <3>2. [l EXCEPT !.end = e] = y
            <4> HIDE DEF l, e
            <4> QED
                BY <3>1
        <3>3. x = [m EXCEPT ![n] = [l EXCEPT !.end = e]]
            BY <2>4
        <3> QED
            BY <3>2, <3>3
    <2> HIDE DEF y, e
    <2>6. /\ x \in Seq(TimeRange) /\ Len(x) = n /\ DOMAIN x = 1..n
          /\ x[n] = y /\ \A i \in 1..(n - 1) : x[i] = m[i]
        <3>1. n \in 1..n
            BY <1>1, <1>5, <1>8
        <3>2. /\ x \in Seq(TimeRange) /\ Len(x) = n
              /\ \A i \in 1..n : x[i] = IF i = n THEN y ELSE m[i]
            <4> HIDE DEF x
            <4> QED
                BY <2>3, <2>5, <3>1, ExceptSeq
        <3> HIDE DEF x, l
        <3>3. x[n] = y /\ \A i \in 1..(n - 1) : x[i] = m[i]
            BY <1>1, <3>1, <3>2
        <3> QED
            BY <3>2, <3>3, LenProperties
    <2> HIDE DEF x
    <2>7. \A t \in Int : Within(y, t) <=> Within(l, t) \/ Within(r, t)
        <3>1. y.start = l.start /\ y.end = e
            BY DEF y
        <3> HIDE DEF l
        <3>2. l.start \in Nat /\ l.end \in Nat /\ l.start <= l.end
            BY <1>6, <1>8
        <3> QED
            BY <1>2, <2>1, <2>2, <3>1, <3>2 DEF Within
    <2>8. \A t \in Int : Covered(Range(x), t) <=> Covered(Range(m), t) \/ Within(r, t)
        <3> SUFFICES ASSUME NEW t \in Int
                     PROVE  Covered(Range(x), t) <=> Covered(Range(m), t) \/ Within(r, t)
            OBVIOUS
        <3>1. Covered(Range(x), t) <=> \E i \in 1..n : Within(x[i], t)
            BY <2>6 DEF Covered, Range
        <3>2. Covered(Range(m), t) <=> \E i \in 1..n : Within(m[i], t)
            BY <1>3 DEF Covered, Range
        <3>3. 1..n = (1..(n - 1)) \cup {n}
            BY <1>1, <1>5, <1>8
        <3>4. (\E i \in 1..n : Within(x[i], t)) <=> (\E i \in 1..(n - 1) : Within(m[i], t)) \/ Within(y, t)
            BY <2>6, <3>3
        <3>5. (\E i \in 1..n : Within(m[i], t)) <=> (\E i \in 1..(n - 1) : Within(m[i], t)) \/ Within(l, t)
            BY <3>3
        <3> QED
            BY <2>7, <3>1, <3>2, <3>4, <3>5
    <2>9. x # <<>> /\ x[Len(x)].start <= r.start
        <3>1. n > 0
            BY <1>5, <1>8
        <3> QED
            BY <1>1, <2>2, <2>6, <3>1 DEF y
    <2>10. ASSUME Apart(m) PROVE Apart(x)
        <3> SUFFICES ASSUME NEW i \in 2..n PROVE x[i - 1].end + 1 < x[i].start
            BY <2>6 DEF Apart
        <3>1. x[i - 1] = m[i - 1] /\ x[i].start = m[i].start
            <4>1. x[i - 1] = m[i - 1]
                BY <1>1, <2>6
            <4>2. CASE i = n
                BY <2>6, <4>1, <4>2 DEF y
            <4>3. CASE i < n
                BY <1>1, <2>6, <4>1, <4>3
            <4> QED
                BY <1>1, <4>2, <4>3
        <3> QED
            BY <1>1, <2>10, <3>1 DEF Apart
    <2> QED
        BY <2>6, <2>8, <2>9, <2>10 DEF x
<1> QED
    BY <1>7, <1>8

-----------------------------------------------------------------------------
(* normalize().                                                            *)

\* Sets of positions are finite and have a last element.
LEMMA Positions ==
    ASSUME NEW s \in Seq(TimeRange), NEW p \in SUBSET DOMAIN s
    PROVE  /\ IsFiniteSet(p) /\ Cardinality(p) \in Nat /\ Cardinality(p) <= Cardinality(DOMAIN s)
           /\ p # {} => Max(p) \in p
<1>1. DOMAIN s = 1..Len(s) /\ Len(s) \in Nat
    BY LenProperties
<1>2. IsFiniteSet(DOMAIN s)
    BY <1>1, FS_Interval
<1>3. ASSUME p # {} PROVE Max(p) \in p
    <2>1. \E m \in p : \A k \in p : k <= m
        <3> DEFINE n == Len(s)
        <3>1. n \in Nat /\ p \subseteq 1..n
            BY <1>1
        <3> HIDE DEF n
        <3> QED
            BY <1>3, <3>1, GreatestNumber
    <2> QED
        BY <2>1 DEF Max
<1> QED
    BY <1>2, <1>3, FS_Subset, FS_CardinalityType

\* Merging stays within ranges, whatever it is given.
LEMMA MergeTyped ==
    ASSUME StoreAssumption, NEW m \in Seq(TimeRange), NEW r \in TimeRange
    PROVE  MergeRange(m, r) \in Seq(TimeRange)
<1> DEFINE n == Len(m)
           l == m[n]
           y == [l EXCEPT !.end = Max({@, r.end})]
<1>1. MergeRange(m, r) = Append(m, r) \/ (m # <<>> /\ MergeRange(m, r) = [m EXCEPT ![n] = y])
    BY DEF MergeRange
<1>2. ASSUME m # <<>> PROVE n \in 1..n /\ y \in TimeRange
    <2>1. n \in 1..n /\ l \in TimeRange
        <3>1. n \in Nat /\ n # 0
            BY <1>2, EmptySeq
        <3>2. n \in 1..n
            BY <3>1
        <3> QED
            BY <3>2, ElementOfSeq
    <2> HIDE DEF l, n
    <2>2. l.end \in Int /\ r.end \in Int /\ l.start <= l.end /\ l.start \in Time /\ l.end \in Time /\ r.end \in Time
        BY <2>1, RangeBoundsOf
    <2>3. Max({l.end, r.end}) \in Time /\ l.start <= Max({l.end, r.end})
        BY <2>2, MaxOfTwo DEF Time
    <2>4. y = [start |-> l.start, end |-> Max({l.end, r.end})]
        BY <2>1 DEF TimeRange
    <2> QED
        BY <2>1, <2>2, <2>3, <2>4 DEF TimeRange
<1> HIDE DEF y
<1> QED
    BY <1>1, <1>2, AppendProperties, ExceptSeq

\* What is known of m, the ranges merged from the first n of s.
MergedFrom(m, s, n) ==
    /\ m \in Seq(TimeRange)
    /\ m # <<>> => \A j \in (n + 1)..Len(s) : m[Len(m)].start <= s[j].start
    /\ \A t \in Int : Covered(Range(m), t) <=> \E i \in 1..n : Within(s[i], t)
    /\ (\E i \in 1..n : Within(s[i], LastTime)) \/ Apart(m)

\* One more of them.
LEMMA MergedOneMore ==
    ASSUME StoreAssumption, NEW s \in Seq(TimeRange), InOrder(s), NEW n \in Nat, n < Len(s),
           NEW m, MergedFrom(m, s, n)
    PROVE  MergedFrom(MergeRange(m, s[n + 1]), s, n + 1)
<1> DEFINE r == s[n + 1]
           x == MergeRange(m, r)
<1>1. Len(s) \in Nat /\ n + 1 \in 1..Len(s) /\ r \in TimeRange
    BY LenProperties, ElementOfSeq
<1>2. m \in Seq(TimeRange) /\ (m # <<>> => m[Len(m)].start <= r.start)
    BY <1>1 DEF MergedFrom
<1>3. /\ x \in Seq(TimeRange) /\ x # <<>> /\ x[Len(x)].start <= r.start
      /\ \A t \in Int : Covered(Range(x), t) <=> Covered(Range(m), t) \/ Within(r, t)
      /\ (m = <<>> \/ m[Len(m)].end # LastTime) /\ Apart(m) => Apart(x)
    <2> HIDE DEF r
    <2> QED
        BY <1>1, <1>2, MergeStep
<1> HIDE DEF x
<1>4. 1..(n + 1) = (1..n) \cup {n + 1}
    OBVIOUS
<1>5. \A t \in Int : Covered(Range(x), t) <=> \E i \in 1..(n + 1) : Within(s[i], t)
    BY <1>3, <1>4 DEF MergedFrom
<1>6. ASSUME NEW j \in (n + 2)..Len(s) PROVE x[Len(x)].start <= s[j].start
    <2>1. j \in 1..Len(s) /\ n + 1 < j
        BY <1>1
    <2>2. r.start <= s[j].start
        BY <1>1, <2>1 DEF InOrder
    <2>3. s[j] \in TimeRange /\ x[Len(x)] \in TimeRange
        <3>1. Len(x) \in Nat /\ Len(x) # 0
            BY <1>3, EmptySeq, LenProperties
        <3>2. Len(x) \in 1..Len(x)
            BY <3>1
        <3> QED
            BY <1>3, <2>1, <3>2, ElementOfSeq
    <2>4. s[j].start \in Nat /\ x[Len(x)].start \in Nat /\ r.start \in Nat
        <3> HIDE DEF r
        <3> QED
            BY <1>1, <2>3, RangeBoundsOf
    <2> QED
        BY <1>3, <2>2, <2>4
<1>7. (\E i \in 1..(n + 1) : Within(s[i], LastTime)) \/ Apart(x)
    <2> SUFFICES ASSUME ~ \E i \in 1..(n + 1) : Within(s[i], LastTime) PROVE Apart(x)
        OBVIOUS
    <2>1. ~ \E i \in 1..n : Within(s[i], LastTime)
        BY <1>4
    <2>2. LastTime \in Int
        BY DEF LastTime, StoreAssumption
    <2>3. ~Covered(Range(m), LastTime) /\ Apart(m)
        BY <2>1, <2>2 DEF MergedFrom
    <2>4. ASSUME m # <<>> PROVE m[Len(m)].end # LastTime
        <3> DEFINE l == m[Len(m)]
        <3>1. Len(m) \in Nat /\ Len(m) # 0 /\ DOMAIN m = 1..Len(m)
            BY <1>2, <2>4, EmptySeq, LenProperties
        <3>2. Len(m) \in 1..Len(m)
            BY <3>1
        <3>3. l \in Range(m) /\ l \in TimeRange
            BY <1>2, <3>1, <3>2, ElementOfSeq DEF Range
        <3>4. Within(l, l.end)
            <4> HIDE DEF l
            <4> QED
                BY <3>3, RangeBoundsOf
        <3> HIDE DEF l
        <3>5. l.end # LastTime
            BY <2>3, <3>3, <3>4 DEF Covered
        <3> QED
            BY <3>5 DEF l
    <2> QED
        BY <1>3, <2>3, <2>4
<1>8. n + 2 = (n + 1) + 1
    OBVIOUS
<1>9. MergedFrom(x, s, n + 1)
    BY <1>3, <1>5, <1>6, <1>7, <1>8 DEF MergedFrom
<1> QED
    BY <1>9 DEF x

\* The ranges that normalize() leaves cover what the sorted ones cover.
LEMMA Normalized ==
    ASSUME StoreAssumption, NEW s \in Seq(TimeRange), InOrder(s)
    PROVE  MergedFrom(FoldLeft(MergeRange, <<>>, s), s, Len(s))
<1> DEFINE D == DOMAIN s
           iter == CHOOSE g : g = [p \in SUBSET D |-> IF p = {} THEN <<>>
                                        ELSE MergeRange(g[p \ {Max(p)}], s[Max(p)])]
<1>1. FoldLeft(MergeRange, <<>>, s) = iter[D]
    BY DEF FoldLeft, MapThenFoldSet
<1>2. \E g : g = [p \in SUBSET D |-> IF p = {} THEN <<>> ELSE MergeRange(g[p \ {Max(p)}], s[Max(p)])]
    <2> DEFINE X == Seq(TimeRange)
               Top == [p \in SUBSET D |-> Max(p)]
               G == [i \in D |-> [x \in X |-> MergeRange(x, s[i])]]
    <2>1. IsFiniteSet(D) /\ \A p \in SUBSET D : p # {} => Top[p] \in p
        BY Positions
    <2>2. \A i \in D : s[i] \in TimeRange
        BY LenProperties, ElementOfSeq
    <2>3. \A i \in D : G[i] \in [X -> X]
        BY <2>2, MergeTyped
    <2>4. <<>> \in X
        OBVIOUS
    <2> HIDE DEF X, G, Top
    <2>5. PICK g \in [SUBSET D -> X] : FoldsBy(g, D, Top, <<>>, G)
        <3> HIDE DEF D, iter
        <3> QED
            BY <2>1, <2>3, <2>4, FoldDefined
    <2>6. ASSUME NEW p \in SUBSET D, p # {} PROVE g[p] = MergeRange(g[p \ {Max(p)}], s[Max(p)])
        <3>1. Top[p] = Max(p) /\ Max(p) \in D /\ g[p \ {Max(p)}] \in X
            BY <2>1, <2>5, <2>6 DEF Top
        <3> QED
            BY <2>5, <2>6, <3>1 DEF G, FoldsBy
    <2>7. g[{}] = <<>>
        BY <2>5 DEF FoldsBy
    <2> QED
        BY <2>5, <2>6, <2>7
<1>3. \A p \in SUBSET D : iter[p] = IF p = {} THEN <<>> ELSE MergeRange(iter[p \ {Max(p)}], s[Max(p)])
    <2> DEFINE IsIter(g) == g = [p \in SUBSET D |-> IF p = {} THEN <<>>
                                        ELSE MergeRange(g[p \ {Max(p)}], s[Max(p)])]
    <2>1. \E g : IsIter(g)
        BY <1>2
    <2>2. iter = CHOOSE g : IsIter(g)
        OBVIOUS
    <2> HIDE DEF iter
    <2>3. IsIter(iter)
        <3> HIDE DEF IsIter
        <3> QED
            BY <2>1, <2>2
    <2> QED
        BY <2>3
<1> HIDE DEF iter
<1>4. D = 1..Len(s) /\ Len(s) \in Nat
    BY LenProperties
<1> DEFINE Bad == {n \in 0..Len(s) : ~MergedFrom(iter[1..n], s, n)}
<1>5. Bad = {}
    <2> SUFFICES ASSUME Bad # {} PROVE FALSE
        OBVIOUS
    <2>1. PICK n \in Bad : \A k \in Bad : n <= k
        <3>1. Bad \subseteq Nat
            BY <1>4
        <3> HIDE DEF Bad
        <3> QED
            BY <3>1, LeastNumber
    <2>2. n \in Nat /\ n <= Len(s) /\ ~MergedFrom(iter[1..n], s, n)
        BY <1>4
    <2>3. n # 0
        <3> SUFFICES ASSUME n = 0 PROVE FALSE
            OBVIOUS
        <3>1. 1..n = {}
            BY <2>2
        <3>2. iter[1..n] = <<>>
            BY <1>3, <3>1
        <3>3. /\ <<>> \in Seq(TimeRange) /\ ~ \E t : Covered(Range(<<>>), t)
              /\ Apart(<<>>)
            BY DEF Covered, Range, Apart
        <3>4. MergedFrom(<<>>, s, n)
            BY <3>1, <3>3 DEF MergedFrom
        <3> QED
            BY <2>2, <3>2, <3>4
    <2> DEFINE k == n - 1
    <2>4. k \in Nat /\ k < Len(s) /\ k \in 0..Len(s) /\ n = k + 1 /\ k \notin Bad
        <3>1. k \in Nat /\ k < Len(s) /\ k \in 0..Len(s) /\ n = k + 1 /\ ~(n <= k)
            BY <1>4, <2>2, <2>3
        <3> HIDE DEF Bad, k
        <3> QED
            BY <2>1, <3>1
    <2> HIDE DEF k
    <2>5. MergedFrom(iter[1..k], s, k)
        BY <2>4
    <2>6. Max(1..n) = n
        <3>1. n \in 1..n /\ \A y \in 1..n : n >= y
            BY <2>2, <2>3
        <3>2. \A x \in 1..n : (\A y \in 1..n : x >= y) => x = n
            BY <2>2, <2>3
        <3> QED
            BY <3>1, <3>2 DEF Max
    <2>7. (1..n) \ {n} = 1..k /\ 1..n # {} /\ 1..n \in SUBSET D
        BY <1>4, <2>2, <2>3, <2>4
    <2>8. iter[1..n] = MergeRange(iter[1..k], s[n])
        BY <1>3, <2>6, <2>7
    <2>9. MergedFrom(MergeRange(iter[1..k], s[k + 1]), s, k + 1)
        BY <2>4, <2>5, MergedOneMore
    <2> QED
        BY <2>2, <2>4, <2>8, <2>9
<1>6. MergedFrom(iter[1..Len(s)], s, Len(s))
    BY <1>4, <1>5
<1> QED
    BY <1>1, <1>4, <1>6

\* std::sort keeps every range and puts them in order.
LEMMA SortedIsInOrder ==
    ASSUME NEW s \in Seq(TimeRange), NEW t \in SortedByStart(s)
    PROVE  t \in Seq(TimeRange) /\ InOrder(t) /\ Range(t) = Range(s) /\ Len(t) = Len(s)
<1> DEFINE n == Len(s)
<1>1. n \in Nat /\ DOMAIN s = 1..n /\ \A i \in 1..n : s[i] \in TimeRange
    BY LenProperties, ElementOfSeq
<1>2. PICK q \in [1..n -> 1..n] :
        /\ Range(q) = 1..n
        /\ \A i, j \in 1..n : i < j => s[q[i]].start <= s[q[j]].start
        /\ t = [i \in 1..n |-> s[q[i]]]
    BY <1>1 DEF SortedByStart
<1> HIDE DEF n
<1>3. \A i \in 1..n : q[i] \in 1..n /\ t[i] = s[q[i]]
    BY <1>2
<1>4. t \in [1..n -> TimeRange]
    BY <1>1, <1>2, <1>3
<1>5. t \in Seq(TimeRange) /\ Len(t) = n /\ DOMAIN t = 1..n
    BY <1>1, <1>4, IsASeq, LenProperties
<1>6. InOrder(t)
    BY <1>2, <1>3, <1>5 DEF InOrder
<1>7. Range(t) = Range(s)
    <2>1. \A x \in Range(t) : x \in Range(s)
        BY <1>1, <1>3, <1>5 DEF Range
    <2>2. ASSUME NEW k \in 1..n PROVE s[k] \in Range(t)
        <3>1. PICK i \in 1..n : q[i] = k
            BY <1>2 DEF Range
        <3> QED
            BY <1>3, <1>5, <3>1 DEF Range
    <2> QED
        BY <1>1, <2>1, <2>2 DEF Range
<1> QED
    BY <1>5, <1>6, <1>7 DEF n

-----------------------------------------------------------------------------
(* The invariant.                                                          *)

\* An added range becomes covered, and nothing else does.
LEMMA AddKeeps ==
    ASSUME StoreAssumption, RInv, NEW a \in Time, NEW b \in Time, AddTimeRange([start |-> a, end |-> b])
    PROVE  RInv'
<1> DEFINE r == Normal([start |-> a, end |-> b])
           s == Append(ranges, r)
<1>1. r \in TimeRange /\ added \subseteq TimeRange /\ ranges \in Seq(TimeRange)
    BY NormalTyped DEF RInv
<1>2. PICK t \in SortedByStart(s) : ranges' = FoldLeft(MergeRange, <<>>, t)
    BY DEF AddTimeRange, AddRange
<1>3. added' = added \cup {r}
    BY DEF AddTimeRange
<1> HIDE DEF r
<1>4. s \in Seq(TimeRange) /\ Range(s) = Range(ranges) \cup {r}
    <2> DEFINE n == Len(ranges)
    <2>1. n \in Nat /\ DOMAIN ranges = 1..n
        BY <1>1, LenProperties
    <2>2. s \in Seq(TimeRange) /\ Len(s) = n + 1 /\ s[n + 1] = r /\ \A i \in 1..n : s[i] = ranges[i]
        BY <1>1, AppendProperties
    <2> HIDE DEF s, n
    <2>3. DOMAIN s = DOMAIN ranges \cup {n + 1}
        <3>1. DOMAIN s = 1..(n + 1)
            BY <2>2, LenProperties
        <3> QED
            BY <2>1, <3>1
    <2> QED
        BY <2>1, <2>2, <2>3 DEF Range
<1> HIDE DEF s
<1>5. t \in Seq(TimeRange) /\ InOrder(t) /\ Range(t) = Range(s)
    BY <1>4, SortedIsInOrder
<1> DEFINE m == FoldLeft(MergeRange, <<>>, t)
<1>6. MergedFrom(m, t, Len(t))
    BY <1>5, Normalized
<1> HIDE DEF m
<1>7. DOMAIN t = 1..Len(t)
    BY <1>5, LenProperties
<1>8. \A u : (\E i \in 1..Len(t) : Within(t[i], u)) <=> Covered(Range(ranges), u) \/ Within(r, u)
    <2>1. \A u : (\E i \in 1..Len(t) : Within(t[i], u)) <=> Covered(Range(t), u)
        BY <1>7 DEF Covered, Range
    <2> QED
        BY <1>4, <1>5, <2>1 DEF Covered
<1>9. \A u \in Time : u \in Int
    BY DEF Time
<1>10. \A u : Covered(added', u) <=> Covered(added, u) \/ Within(r, u)
    BY <1>3 DEF Covered
<1>11. \A u \in Time : Covered(Range(m), u) <=> Covered(added', u)
    BY <1>6, <1>8, <1>9, <1>10 DEF MergedFrom, RInv
<1>12. Covered(added', LastTime) \/ Apart(m)
    <2>1. LastTime \in Time
        BY <1>1, RangeBoundsOf
    <2> QED
        BY <1>6, <1>8, <1>10, <2>1 DEF MergedFrom, RInv
<1>13. m \in Seq(TimeRange) /\ added' \subseteq TimeRange /\ ranges' = m
    BY <1>1, <1>2, <1>3, <1>6 DEF MergedFrom, m
<1> QED
    BY <1>11, <1>12, <1>13 DEF RInv, Apart

LEMMA RInvInit == ASSUME Init PROVE RInv
<1>1. ranges = <<>> /\ added = {}
    BY DEF Init
<1>2. Range(<<>>) = {} /\ Apart(<<>>) /\ <<>> \in Seq(TimeRange)
    BY DEF Range, Apart
<1> QED
    BY <1>1, <1>2 DEF RInv, Covered

\* Only AddTimeRange touches the set.
LEMMA RInvNext == ASSUME StoreAssumption, RInv, [Next]_vars PROVE RInv'
<1>1. ASSUME NEW a \in RangeBounds, NEW b \in RangeBounds, AddTimeRange([start |-> a, end |-> b])
      PROVE  RInv'
    <2>1. a \in Time /\ b \in Time
        BY DEF StoreAssumption, Time
    <2> QED
        BY <1>1, <2>1, AddKeeps
<1>2. CASE UNCHANGED <<ranges, added>>
    BY <1>2 DEF RInv, Apart
<1>3. ASSUME NEW i \in Inputs, NEW p \in Policies, NEW overwrite \in BOOLEAN, StartRotation(i, p, overwrite)
      PROVE  UNCHANGED <<ranges, added>>
    BY <1>3 DEF StartRotation, views
<1>4. RefuseOutput => UNCHANGED <<ranges, added>>
    BY DEF RefuseOutput, views
<1>5. WriteShard => UNCHANGED <<ranges, added>>
    BY DEF WriteShard, views
<1>6. CrashInShard => UNCHANGED <<ranges, added>>
    BY DEF CrashInShard, views
<1>7. \A s, t, o : Compact(s, t, o) => UNCHANGED <<ranges, added>>
    BY DEF Compact, views
<1>8. \A p, o, w : Repair(p, o, w) => UNCHANGED <<ranges, added>>
    BY DEF Repair, views
<1>9. \A p, i, d : DamageSlot(p, i, d) => UNCHANGED <<ranges, added>>
    BY DEF DamageSlot, views
<1>10. \A p : DamageStart(p) => UNCHANGED <<ranges, added>>
    BY DEF DamageStart, views
<1>11. \A p : CatalogAdd(p) \/ CatalogRemove(p) => UNCHANGED <<ranges, added>>
    BY DEF CatalogAdd, CatalogRemove
<1>12. \A i : Collect(i) => UNCHANGED <<ranges, added>>
    BY DEF Collect
<1>13. UNCHANGED vars => UNCHANGED <<ranges, added>>
    BY DEF vars
<1> QED
    BY <1>1, <1>2, <1>3, <1>4, <1>5, <1>6, <1>7, <1>8, <1>9, <1>10, <1>11, <1>12, <1>13 DEF Next

\* What the invariant is for.
LEMMA RInvExact == ASSUME StoreAssumption, RInv PROVE RangesExact
<1>0. \A t \in RangeBounds : t \in Time /\ t \in Int
    BY DEF StoreAssumption, Time
<1>1. ASSUME NEW t \in RangeBounds
      PROVE  RangesContain(ranges, t) <=> \E r \in added : r.start <= t /\ t <= r.end
    BY <1>0 DEF RInv, RangesContain, Covered, Within
<1>2. ranges \in Seq(TimeRange) /\ added \subseteq TimeRange /\ Range(ranges) \subseteq TimeRange
    BY LenProperties, ElementOfSeq DEF RInv, Range
<1>3. ASSUME NEW R, R \subseteq TimeRange, NEW lo \in Time, NEW hi \in Time, lo <= hi
      PROVE  (\E r \in R : r.start <= hi /\ lo <= r.end)
             <=> \E t \in Time : lo <= t /\ t <= hi /\ Covered(R, t)
    <2>1. ASSUME NEW r \in R, r.start <= hi, lo <= r.end
          PROVE  \E t \in Time : lo <= t /\ t <= hi /\ Covered(R, t)
        <3> DEFINE t == IF lo <= r.start THEN r.start ELSE lo
        <3>1. r \in TimeRange
            BY <1>3
        <3>2. r.start \in Time /\ r.end \in Time /\ r.start <= r.end
            BY <3>1, RangeBoundsOf
        <3>3. t \in Time /\ lo <= t /\ t <= hi /\ Within(r, t)
            BY <1>3, <2>1, <3>2 DEF Time, Within
        <3> QED
            BY <3>3 DEF Covered
    <2>2. ASSUME NEW t \in Time, lo <= t, t <= hi, NEW r \in R, Within(r, t)
          PROVE  r.start <= hi /\ lo <= r.end
        <3>1. r \in TimeRange
            BY <1>3
        <3>2. r.start \in Nat /\ r.end \in Nat
            BY <3>1, RangeBoundsOf
        <3> QED
            BY <1>3, <2>2, <3>2 DEF Time, Within
    <2> QED
        BY <2>1, <2>2 DEF Covered
<1>4. ASSUME NEW a \in RangeBounds, NEW b \in RangeBounds
      PROVE  RangesOverlap(ranges, [start |-> a, end |-> b]) <=>
                \E r \in added : r.start <= Max({a, b}) /\ Min({a, b}) <= r.end
    <2> DEFINE lo == Min({a, b})
               hi == Max({a, b})
    <2>1. a \in Time /\ b \in Time /\ a \in Int /\ b \in Int
        BY <1>0
    <2>2. lo \in Time /\ hi \in Time /\ lo <= hi
        BY <2>1, MaxOfTwo, MinOfTwo
    <2>3. Normal([start |-> a, end |-> b]) = [start |-> lo, end |-> hi]
        BY DEF Normal
    <2>4. RangesOverlap(ranges, [start |-> a, end |-> b]) <=>
              \E r \in Range(ranges) : lo <= r.end /\ hi >= r.start
        BY <2>3 DEF RangesOverlap
    <2> HIDE DEF lo, hi
    <2>5. \A r \in TimeRange : hi >= r.start <=> r.start <= hi
        BY <2>2, RangeBoundsOf DEF Time
    <2>6. RangesOverlap(ranges, [start |-> a, end |-> b]) <=>
              \E r \in Range(ranges) : r.start <= hi /\ lo <= r.end
        BY <1>2, <2>4, <2>5
    <2>7. (\E r \in Range(ranges) : r.start <= hi /\ lo <= r.end)
              <=> \E t \in Time : lo <= t /\ t <= hi /\ Covered(Range(ranges), t)
        BY <1>2, <1>3, <2>2
    <2>8. (\E r \in added : r.start <= hi /\ lo <= r.end)
              <=> \E t \in Time : lo <= t /\ t <= hi /\ Covered(added, t)
        BY <1>2, <1>3, <2>2
    <2>9. RangesOverlap(ranges, [start |-> a, end |-> b]) <=> \E r \in added : r.start <= hi /\ lo <= r.end
        BY <2>6, <2>7, <2>8 DEF RInv
    <2> QED
        BY <2>9 DEF lo, hi
<1>5. (\E r \in added : r.end = TimeModulus - 1)
      \/ \A i \in 2..Len(ranges) : ranges[i - 1].end + 1 < ranges[i].start
    <2>1. CASE Apart(ranges)
        BY <2>1 DEF Apart
    <2>2. CASE Covered(added, LastTime)
        <3>1. PICK r \in added : Within(r, LastTime)
            BY <2>2 DEF Covered
        <3>2. r \in TimeRange
            BY <1>2
        <3>3. r.end \in Nat /\ r.end <= LastTime /\ LastTime <= r.end /\ LastTime \in Time
            BY <3>1, <3>2, RangeBoundsOf DEF Within
        <3>4. r.end = TimeModulus - 1
            BY <3>3 DEF LastTime, Time
        <3> QED
            BY <3>4
    <2> QED
        BY <2>1, <2>2 DEF RInv
<1> QED
    BY <1>1, <1>4, <1>5 DEF RangesExact

\* Whatever ranges were added to a TimeRangeSet, contains() and overlaps() answer as the added
\* ranges say, and the ranges kept neither overlap nor touch unless one of them reaches the last
\* representable time, where end + 1 wraps to zero.
THEOREM RangesKept == Spec => []RangesExact
<1>1. Init => RInv
    BY RInvInit
<1>2. RInv /\ [Next]_vars => RInv'
    BY RInvNext, StoreAssumption
<1>3. RInv => RangesExact
    BY RInvExact, StoreAssumption
<1> QED
    BY <1>1, <1>2, <1>3, PTL DEF Spec

-----------------------------------------------------------------------------
(* Repair.  Records kept from a list: copying what has no damage, salvage,   *)
(* compaction.                                                               *)
Along == {p \in Nat \X Nat : p[1] <= p[2]}

\* The position of the k-th of some positions.
Nth(P, k) == CHOOSE i \in P : Cardinality({j \in P : j <= i}) = k

LEMMA PositionsNumbered ==
    ASSUME NEW s, Listed(s), NEW P \in SUBSET DOMAIN s
    PROVE  /\ IsFiniteSet(P) /\ P \subseteq Nat /\ Cardinality(P) \in Nat
           /\ \A i \in P : Ranks(Along, P)[i] = Cardinality({j \in P : j <= i})
           /\ Numbering(Ranks(Along, P), Along, P)
<1>1. IsFiniteSet(P) /\ P \subseteq Nat /\ Cardinality(P) \in Nat
    <2>1. DOMAIN s = 1..Len(s) /\ IsFiniteSet(DOMAIN s)
        BY ListedDomain
    <2> QED
        BY <2>1, FS_Subset, FS_CardinalityType
<1>2. \A i \in P : {j \in P : j <= i} = {j \in P : <<j, i>> \in Along}
    BY <1>1 DEF Along
<1>3. \A i \in P : Ranks(Along, P)[i] = Cardinality({j \in P : j <= i})
    BY <1>2 DEF Ranks
<1>4. Orders(Along, P)
    BY <1>1 DEF Orders, Along
<1> QED
    BY <1>1, <1>3, <1>4, RanksNumber

LEMMA NthIsOne ==
    ASSUME NEW s, Listed(s), NEW P \in SUBSET DOMAIN s, NEW k \in 1..Cardinality(P)
    PROVE  Nth(P, k) \in P /\ Cardinality({j \in P : j <= Nth(P, k)}) = k
<1>1. \E i \in P : Ranks(Along, P)[i] = k
    BY PositionsNumbered DEF Numbering
<1>2. \E i \in P : Cardinality({j \in P : j <= i}) = k
    BY <1>1, PositionsNumbered
<1> QED
    BY <1>2 DEF Nth

\* Keeping yields a list of the elements at the positions.
LEMMA KeptList ==
    ASSUME NEW s, Listed(s), NEW P \in SUBSET DOMAIN s
    PROVE  /\ Listed(Kept(s, P)) /\ Len(Kept(s, P)) = Cardinality(P) /\ DOMAIN Kept(s, P) = 1..Cardinality(P)
           /\ \A k \in 1..Cardinality(P) : Nth(P, k) \in P /\ Kept(s, P)[k] = s[Nth(P, k)]
<1> DEFINE n == Cardinality(P)
           t == [k \in 1..n |-> s[Nth(P, k)]]
<1>1. Kept(s, P) = t
    BY DEF Kept, Nth
<1>2. n \in Nat
    BY PositionsNumbered
<1>3. \A k \in 1..n : Nth(P, k) \in P /\ t[k] = s[Nth(P, k)]
    BY NthIsOne
<1>4. t = [k \in 1..n |-> t[k]]
    OBVIOUS
<1> HIDE DEF t, n
<1>5. Listed(t) /\ DOMAIN t = 1..n /\ Len(t) = n
    BY <1>2, <1>4, ListedBuilt
<1> QED
    BY <1>1, <1>3, <1>5 DEF n

\* What stands before the first element left out keeps its place.
LEMMA KeptPrefix ==
    ASSUME NEW s, Listed(s), NEW P \in SUBSET DOMAIN s, NEW m \in Nat, 1..m \subseteq P, NEW k \in 1..m
    PROVE  k \in 1..Cardinality(P) /\ Nth(P, k) = k /\ Kept(s, P)[k] = s[k]
<1> DEFINE Up(i) == {j \in P : j <= i}
           place == Ranks(Along, P)
<1>1. /\ IsFiniteSet(P) /\ P \subseteq Nat /\ Cardinality(P) \in Nat
      /\ \A i \in P : place[i] = Cardinality(Up(i))
      /\ Numbering(place, Along, P)
    BY PositionsNumbered
<1>2. k \in P /\ k \in Nat
    OBVIOUS
<1>3. Up(k) = 1..k
    <2>1. \A j \in P : j \in Nat /\ 1 <= j
        BY ListedDomain
    <2>2. \A j \in 1..k : j \in P /\ j <= k
        BY <1>2
    <2> QED
        BY <1>2, <2>1, <2>2
<1>4. Cardinality(1..k) = k
    <2>1. 1 \in Int /\ k \in Int /\ ~(1 > k)
        OBVIOUS
    <2>2. Cardinality(1..k) = k - 1 + 1
        BY <2>1, FS_Interval
    <2> QED
        BY <1>2, <2>2
<1> HIDE DEF Up, place
<1>5. place[k] = k
    BY <1>1, <1>2, <1>3, <1>4
<1>6. k \in 1..Cardinality(P)
    BY <1>1, <1>2, <1>5 DEF Numbering
<1>7. Nth(P, k) \in P /\ place[Nth(P, k)] = k
    BY <1>1, <1>6, NthIsOne DEF Up
<1>8. <<Nth(P, k), k>> \in Along /\ <<k, Nth(P, k)>> \in Along
    <2>1. k <= k
        BY <1>2
    <2> QED
        BY <1>1, <1>2, <1>5, <1>7, <2>1 DEF Numbering
<1>9. Nth(P, k) = k
    BY <1>1, <1>2, <1>7, <1>8 DEF Along
<1> QED
    BY <1>6, <1>9, KeptList

-----------------------------------------------------------------------------
(* Files and what is read from them.                                       *)
RecordsOk(s) == Listed(s) /\ \A i \in DOMAIN s : IsRecord(s[i])

FileOk(f) ==
    /\ f = [opens |-> f.opens, header |-> f.header, slots |-> f.slots]
    /\ Listed(f.slots)
    /\ \A i \in DOMAIN f.slots : f.slots[i] = Slot(f.slots[i].record, f.slots[i].damage) /\ IsRecord(f.slots[i].record)

Undamaged(f, n) == \A i \in 1..n : f.slots[i].damage = "none"

LEMMA GreatestFromZero ==
    ASSUME NEW n \in Nat, NEW M, M \subseteq 0..n, M # {}
    PROVE  Max(M) \in M /\ \A k \in M : k <= Max(M)
<1> DEFINE B == {m + 1 : m \in M}
<1>1. B \subseteq 1..(n + 1) /\ B # {} /\ n + 1 \in Nat
    <2>1. \A m \in M : m + 1 \in 1..(n + 1)
        OBVIOUS
    <2>2. B # {}
        OBVIOUS
    <2> QED
        BY <2>1, <2>2
<1>2. PICK b \in B : \A k \in B : k <= b
    <2> HIDE DEF B
    <2> QED
        BY <1>1, GreatestNumber
<1>3. PICK m \in M : b = m + 1
    OBVIOUS
<1>4. ASSUME NEW k \in M PROVE k <= m
    <2>1. k + 1 <= m + 1 /\ k \in Int /\ m \in Int
        BY <1>2, <1>3
    <2> QED
        BY <2>1
<1>5. \E x \in M : \A k \in M : x >= k
    BY <1>4
<1>6. Max(M) \in M /\ \A k \in M : Max(M) >= k
    BY <1>5 DEF Max
<1> QED
    BY <1>6

\* The reader gets as far as the slots have no damage.
LEMMA IntactBounds ==
    ASSUME NEW f, FileOk(f)
    PROVE  /\ IntactSlots(f) \in Nat /\ IntactSlots(f) <= Len(f.slots) /\ Len(f.slots) \in Nat
           /\ DOMAIN f.slots = 1..Len(f.slots)
           /\ Undamaged(f, IntactSlots(f))
           /\ f.opens /\ Undamaged(f, Len(f.slots)) => IntactSlots(f) = Len(f.slots)
<1> DEFINE M == {n \in 0..Len(f.slots) : \A i \in 1..n : f.slots[i].damage = "none"}
<1>1. Len(f.slots) \in Nat /\ DOMAIN f.slots = 1..Len(f.slots)
    BY ListedDomain DEF FileOk
<1>2. CASE ~f.opens
    <2>1. IntactSlots(f) = 0
        BY <1>2 DEF IntactSlots
    <2> QED
        BY <1>1, <1>2, <2>1 DEF Undamaged
<1>3. CASE f.opens
    <2>1. IntactSlots(f) = Max(M)
        BY <1>3 DEF IntactSlots
    <2>2. 0 \in M /\ M \subseteq 0..Len(f.slots)
        BY <1>1
    <2>3. Undamaged(f, Len(f.slots)) => Len(f.slots) \in M
        BY <1>1 DEF Undamaged
    <2>4. \A n \in M : n \in Nat /\ n <= Len(f.slots) /\ Undamaged(f, n)
        BY <1>1 DEF Undamaged
    <2> HIDE DEF M
    <2>5. Max(M) \in M /\ \A k \in M : k <= Max(M)
        BY <1>1, <2>2, GreatestFromZero
    <2>6. Max(M) \in Nat /\ Max(M) <= Len(f.slots) /\ Undamaged(f, Max(M))
        BY <2>4, <2>5
    <2>7. Undamaged(f, Len(f.slots)) => Len(f.slots) <= Max(M)
        BY <2>3, <2>5
    <2> QED
        BY <1>1, <2>1, <2>6, <2>7
<1> QED
    BY <1>2, <1>3

LEMMA RecordsRead ==
    ASSUME NEW f, FileOk(f)
    PROVE  /\ RecordsOk(Records(f)) /\ Len(Records(f)) = IntactSlots(f) /\ DOMAIN Records(f) = 1..IntactSlots(f)
           /\ \A i \in 1..IntactSlots(f) : i \in DOMAIN f.slots /\ Records(f)[i] = f.slots[i].record
<1> DEFINE n == IntactSlots(f)
           t == [i \in 1..n |-> f.slots[i].record]
<1>1. n \in Nat /\ \A i \in 1..n : i \in DOMAIN f.slots
    BY IntactBounds
<1>2. \A i \in 1..n : IsRecord(t[i])
    BY <1>1 DEF FileOk
<1>3. Records(f) = t /\ t = [i \in 1..n |-> t[i]]
    BY DEF Records
<1>4. \A i \in 1..n : t[i] = f.slots[i].record
    OBVIOUS
<1> HIDE DEF n, t
<1>5. Listed(t) /\ DOMAIN t = 1..n /\ Len(t) = n
    BY <1>1, <1>3, ListedBuilt
<1> QED
    BY <1>1, <1>2, <1>3, <1>4, <1>5 DEF n, RecordsOk

\* A closed writer's file reads back what was written.
LEMMA WrittenReadsBack ==
    ASSUME NEW s, RecordsOk(s)
    PROVE  /\ FileOk(WriteArchive(s)) /\ Readable(WriteArchive(s)) /\ Records(WriteArchive(s)) = s
           /\ WriteArchive(s).header = SummaryOf(s)
<1> DEFINE f == WriteArchive(s)
           t == [i \in DOMAIN s |-> Slot(s[i], "none")]
<1>1. f = [opens |-> TRUE, header |-> SummaryOf(s), slots |-> t]
    BY DEF WriteArchive
<1>2. f.opens /\ f.header = SummaryOf(s) /\ f.slots = t
    BY <1>1
<1>3. DOMAIN s = 1..Len(s) /\ Len(s) \in Nat
    BY ListedDomain DEF RecordsOk
<1>4. \A i \in DOMAIN s : t[i] = Slot(s[i], "none") /\ t[i].record = s[i] /\ t[i].damage = "none"
    BY DEF Slot
<1>5. t = [i \in 1..Len(s) |-> t[i]]
    BY <1>3
<1> HIDE DEF f, t
<1>6. Listed(t) /\ DOMAIN t = 1..Len(s) /\ Len(t) = Len(s)
    BY <1>3, <1>5, ListedBuilt
<1>7. f = [opens |-> f.opens, header |-> f.header, slots |-> f.slots]
    BY <1>1
<1>8. FileOk(f)
    BY <1>2, <1>3, <1>4, <1>6, <1>7 DEF FileOk, RecordsOk
<1>9. Undamaged(f, Len(f.slots))
    BY <1>2, <1>3, <1>4, <1>6 DEF Undamaged
<1>10. IntactSlots(f) = Len(s) /\ Len(f.slots) = Len(s)
    BY <1>2, <1>6, <1>8, <1>9, IntactBounds
<1>11. Records(f) = [i \in 1..Len(s) |-> s[i]]
    BY <1>2, <1>3, <1>4, <1>10 DEF Records
<1>12. Records(f) = s
    <2>1. s = [i \in 1..Len(s) |-> s[i]]
        BY <1>3 DEF RecordsOk, Listed
    <2> QED
        BY <1>11, <2>1
<1>13. Readable(f)
    BY <1>2, <1>10 DEF Readable
<1> QED
    BY <1>2, <1>8, <1>12, <1>13 DEF f

-----------------------------------------------------------------------------
(* What the writer's header says.                                          *)
Summary == {m \in [record_count : Nat, first_time : Nat, last_time : Nat] : m.first_time <= m.last_time}

LEMMA SummaryTyped ==
    ASSUME NEW m \in Summary, NEW r, IsRecord(r)
    PROVE  SummaryWith(m, r) \in Summary /\ SummaryWith(m, r).record_count = m.record_count + 1
<1>1. m.record_count \in Nat /\ m.first_time \in Nat /\ m.last_time \in Nat /\ m.first_time <= m.last_time /\ r.time \in Nat
    BY DEF Summary, IsRecord
<1>2. Min({m.first_time, r.time}) = (IF m.first_time <= r.time THEN m.first_time ELSE r.time)
    BY <1>1, MinOfTwo
<1>3. Max({m.last_time, r.time}) = (IF m.last_time >= r.time THEN m.last_time ELSE r.time)
    BY <1>1, MaxOfTwo
<1> DEFINE first == Min({m.first_time, r.time})
           last == Max({m.last_time, r.time})
<1>4. first \in Nat /\ last \in Nat /\ first <= last
    BY <1>1, <1>2, <1>3
<1>5. SummaryWith(m, r) = IF m.record_count = 0
                          THEN [record_count |-> 1, first_time |-> r.time, last_time |-> r.time]
                          ELSE [record_count |-> m.record_count + 1, first_time |-> first, last_time |-> last]
    BY DEF SummaryWith
<1> HIDE DEF first, last
<1>6. CASE m.record_count = 0
    BY <1>1, <1>5, <1>6 DEF Summary
<1>7. CASE m.record_count # 0
    BY <1>1, <1>4, <1>5, <1>7 DEF Summary
<1> QED
    BY <1>6, <1>7

\* Sets of positions have a last element.
LEMMA LastPosition ==
    ASSUME NEW s, Listed(s), NEW p \in SUBSET DOMAIN s, p # {}
    PROVE  Max(p) \in p
<1>1. p \subseteq 0..Len(s) /\ Len(s) \in Nat
    BY ListedDomain
<1> QED
    BY <1>1, GreatestFromZero

\* The header counts the records, and its times are in order.
LEMMA SummaryCounts ==
    ASSUME NEW s, RecordsOk(s)
    PROVE  SummaryOf(s) \in Summary /\ SummaryOf(s).record_count = Len(s)
<1> DEFINE D == DOMAIN s
           iter == CHOOSE g : g = [p \in SUBSET D |-> IF p = {} THEN EmptySummary
                                        ELSE SummaryWith(g[p \ {Max(p)}], s[Max(p)])]
<1>1. SummaryOf(s) = iter[D]
    BY DEF SummaryOf, FoldLeft, MapThenFoldSet
<1>2. /\ Listed(s) /\ IsFiniteSet(D) /\ Cardinality(D) = Len(s)
      /\ \A i \in D : IsRecord(s[i])
    BY ListedDomain DEF RecordsOk
<1>3. \A p \in SUBSET D : p # {} => Max(p) \in p
    BY <1>2, LastPosition
<1>4. EmptySummary \in Summary
    BY DEF EmptySummary, Summary
<1>5. \E g : g \in [SUBSET D -> Summary] /\ g = [p \in SUBSET D |-> IF p = {} THEN EmptySummary
                                        ELSE SummaryWith(g[p \ {Max(p)}], s[Max(p)])]
    <2> DEFINE Top == [p \in SUBSET D |-> Max(p)]
               G == [i \in D |-> [m \in Summary |-> SummaryWith(m, s[i])]]
    <2>1. \A p \in SUBSET D : p # {} => Top[p] \in p
        BY <1>3
    <2>2. \A i \in D : G[i] \in [Summary -> Summary]
        BY <1>2, SummaryTyped
    <2> HIDE DEF G, Top
    <2>3. PICK g \in [SUBSET D -> Summary] : FoldsBy(g, D, Top, EmptySummary, G)
        <3> HIDE DEF D, iter
        <3> QED
            BY <1>2, <1>4, <2>1, <2>2, FoldDefined
    <2>4. ASSUME NEW p \in SUBSET D, p # {} PROVE g[p] = SummaryWith(g[p \ {Max(p)}], s[Max(p)])
        <3>1. Top[p] = Max(p) /\ Max(p) \in D /\ g[p \ {Max(p)}] \in Summary
            BY <2>1, <2>3, <2>4 DEF Top
        <3> QED
            BY <2>3, <2>4, <3>1 DEF G, FoldsBy
    <2>5. g[{}] = EmptySummary
        BY <2>3 DEF FoldsBy
    <2> QED
        BY <2>3, <2>4, <2>5
<1>6. \A p \in SUBSET D : iter[p] = IF p = {} THEN EmptySummary ELSE SummaryWith(iter[p \ {Max(p)}], s[Max(p)])
    <2> DEFINE IsIter(g) == g = [p \in SUBSET D |-> IF p = {} THEN EmptySummary
                                        ELSE SummaryWith(g[p \ {Max(p)}], s[Max(p)])]
    <2>1. \E g : IsIter(g)
        BY <1>5
    <2>2. iter = CHOOSE g : IsIter(g)
        OBVIOUS
    <2> HIDE DEF iter
    <2>3. IsIter(iter)
        <3> HIDE DEF IsIter
        <3> QED
            BY <2>1, <2>2
    <2> QED
        BY <2>3
<1> HIDE DEF iter
<1> DEFINE Good == {p \in SUBSET D : iter[p] \in Summary /\ iter[p].record_count = Cardinality(p)}
           Bad == {p \in SUBSET D : p \notin Good}
<1>7. {} \in Good
    <2>1. iter[{}] = EmptySummary
        BY <1>6
    <2> QED
        BY <1>4, <2>1, FS_EmptySet DEF EmptySummary
<1>8. ASSUME NEW p \in SUBSET D, p # {}, p \ {Max(p)} \in Good PROVE p \in Good
    <2> DEFINE q == p \ {Max(p)}
    <2>1. Max(p) \in p /\ IsFiniteSet(p) /\ IsRecord(s[Max(p)])
        BY <1>2, <1>3, <1>8, FS_Subset
    <2>2. Cardinality(q) \in Nat /\ Cardinality(p) \in Nat /\ Cardinality(q) = Cardinality(p) - 1
        BY <2>1, Smaller
    <2>3. iter[q] \in Summary /\ iter[q].record_count = Cardinality(q)
        BY <1>8
    <2>4. iter[p] = SummaryWith(iter[q], s[Max(p)])
        BY <1>6, <1>8
    <2> HIDE DEF q
    <2>5. iter[p] \in Summary /\ iter[p].record_count = Cardinality(q) + 1
        BY <2>1, <2>3, <2>4, SummaryTyped
    <2> QED
        BY <2>2, <2>5
<1>9. Bad = {}
    <2> SUFFICES ASSUME Bad # {} PROVE FALSE
        OBVIOUS
    <2>1. \A p \in Bad : IsFiniteSet(p)
        BY <1>2, FS_Subset
    <2>2. PICK p \in Bad : \A q \in Bad : Cardinality(p) <= Cardinality(q)
        <3> HIDE DEF Bad
        <3> QED
            BY <2>1, SmallestSet
    <2>3. p \in SUBSET D /\ p \notin Good /\ p # {}
        BY <1>7
    <2> DEFINE q == p \ {Max(p)}
    <2>4. Cardinality(q) \in Nat /\ Cardinality(p) \in Nat /\ Cardinality(q) = Cardinality(p) - 1
        BY <1>3, <2>1, <2>3, Smaller
    <2>5. q \in SUBSET D /\ q \notin Bad
        BY <2>2, <2>4
    <2>6. q \in Good
        BY <2>5
    <2> QED
        BY <1>8, <2>3, <2>6
<1>10. D \in Good
    BY <1>9
<1> QED
    BY <1>1, <1>2, <1>10

-----------------------------------------------------------------------------
(* The manifest of records that are all there.                             *)
LEMMA KeptOk ==
    ASSUME NEW s, RecordsOk(s), NEW P \in SUBSET DOMAIN s
    PROVE  RecordsOk(Kept(s, P)) /\ Len(Kept(s, P)) = Cardinality(P)
BY KeptList DEF RecordsOk

Group(home, t) == {i \in DOMAIN home : home[i] = t}

\* The entries of a table that counts the elements of a set by what home says of them
\* add up to the number of elements.
LEMMA GroupsCount ==
    ASSUME NEW D, IsFiniteSet(D), NEW T, NEW home \in [D -> T], \A t \in T : \E i \in D : home[i] = t,
           NEW E, NEW entry \in Bijection(T, E),
           NEW count, \A t \in T : count[entry[t]] = Cardinality(Group(home, t))
    PROVE  SumFunctionOnSet(count, E) = Cardinality(D)
<1> DEFINE w == [i \in D |-> 1]
           Part(t) == {i \in D : home[i] = t}
           by == [t \in T |-> SumFunctionOnSet(w, Part(t))]
<1>0. \A t \in T : Group(home, t) = Part(t)
    BY DEF Group
<1>1. IsFiniteSet(T)
    <2>1. home \in Surjection(D, T)
        BY DEF Surjection
    <2> QED
        BY <2>1, FS_Surjection
<1>2. SumFunctionOnSet(by, T) = SumFunctionOnSet(w, D)
    BY <1>1, SumParts
<1>3. SumFunctionOnSet(w, D) = Cardinality(D)
    BY SumOfOnes
<1>4. \A t \in T : IsFiniteSet(Part(t)) /\ Cardinality(Part(t)) \in Nat
    BY FS_Subset, FS_CardinalityType
<1>5. ASSUME NEW t \in T PROVE by[t] = Cardinality(Part(t))
    <2>1. \A i \in Part(t) : w[i] = 1
        OBVIOUS
    <2> HIDE DEF w
    <2>2. SumFunctionOnSet(w, Part(t)) = Cardinality(Part(t))
        BY <1>4, <2>1, SumOfOnes
    <2> QED
        BY <2>2
<1> HIDE DEF by, w
<1>6. \A t \in T : by[t] = count[entry[t]] /\ by[t] \in Nat
    BY <1>0, <1>4, <1>5
<1>7. SumFunctionOnSet(by, T) = SumFunctionOnSet(count, E)
    BY <1>1, <1>6, SumRenamed
<1> QED
    BY <1>2, <1>3, <1>7

\* Neither the records' table of devices nor that of kinds gives cause for a warning.
LEMMA ManifestConsistent ==
    ASSUME NEW s, RecordsOk(s)
    PROVE  ValidateManifest([summary |-> SummaryOf(s), devices |-> ManifestDevices(s), kinds |-> ManifestKinds(s)]) = {}
<1> DEFINE D == DOMAIN s
           Ds == {r.device : r \in Range(s)}
           Ks == {r.kind : r \in Range(s)}
           Of(d) == {i \in D : s[i].device = d}
           Kind(k) == [kind |-> k, count |-> Cardinality({i \in D : s[i].kind = k})]
           E == ManifestDevices(s)
           F == ManifestKinds(s)
<1>1. IsFiniteSet(D) /\ Cardinality(D) = Len(s) /\ Len(s) \in Nat /\ D = 1..Len(s)
    BY ListedDomain DEF RecordsOk
<1>2. Range(s) = {s[i] : i \in D}
    BY DEF Range
<1>3. ASSUME NEW d \in Ds
      PROVE  /\ DeviceSummary(s, d).device = d /\ DeviceSummary(s, d).summary \in Summary
             /\ DeviceSummary(s, d).summary.record_count = Cardinality(Of(d))
             /\ Cardinality(Of(d)) \in Nat /\ Cardinality(Of(d)) # 0
    <2>1. RecordsOk(Kept(s, Of(d))) /\ Len(Kept(s, Of(d))) = Cardinality(Of(d))
        BY KeptOk
    <2>2. DeviceSummary(s, d).device = d /\ DeviceSummary(s, d).summary = SummaryOf(Kept(s, Of(d)))
        BY DEF DeviceSummary
    <2>3. Of(d) # {} /\ IsFiniteSet(Of(d))
        BY <1>1, <1>2, FS_Subset
    <2>4. Cardinality(Of(d)) \in Nat /\ Cardinality(Of(d)) # 0
        BY <2>3, FS_EmptySet, FS_CardinalityType
    <2> HIDE DEF Of
    <2> QED
        BY <2>1, <2>2, <2>4, SummaryCounts
<1>4. SumFunctionOnSet([e \in E |-> e.summary.record_count], E) = Len(s)
    <2> DEFINE home == [i \in D |-> s[i].device]
               entry == [d \in Ds |-> DeviceSummary(s, d)]
               count == [e \in E |-> e.summary.record_count]
    <2>1. home \in [D -> Ds] /\ \A d \in Ds : \E i \in D : home[i] = d
        BY <1>2
    <2>2. E = {DeviceSummary(s, d) : d \in Ds}
        BY DEF ManifestDevices
    <2>3. entry \in Bijection(Ds, E)
        <3>1. \A d \in Ds : entry[d] = DeviceSummary(s, d) /\ entry[d].device = d
            BY <1>3
        <3>2. entry \in [Ds -> E] /\ \A e \in E : \E d \in Ds : entry[d] = e
            BY <2>2
        <3> HIDE DEF entry, E, Ds
        <3> QED
            BY <3>1, <3>2 DEF Bijection, Injection, Surjection, IsInjective
    <2>4. \A d \in Ds : Group(home, d) = Of(d)
        BY DEF Group
    <2>5. \A d \in Ds : count[entry[d]] = Cardinality(Of(d))
        BY <1>3, <2>2
    <2> HIDE DEF home, entry, count, D, Ds, E, Of
    <2>6. \A d \in Ds : count[entry[d]] = Cardinality(Group(home, d))
        BY <2>4, <2>5
    <2>7. SumFunctionOnSet(count, E) = Cardinality(D)
        <3>1. IsFiniteSet(D)
            BY <1>1
        <3> QED
            BY <2>1, <2>3, <2>6, <3>1, GroupsCount
    <2> QED
        BY <1>1, <2>7 DEF count
<1>5. SumFunctionOnSet([e \in F |-> e.count], F) = Len(s)
    <2> DEFINE home == [i \in D |-> s[i].kind]
               entry == [k \in Ks |-> Kind(k)]
               count == [e \in F |-> e.count]
    <2>1. home \in [D -> Ks] /\ \A k \in Ks : \E i \in D : home[i] = k
        BY <1>2
    <2>2. F = {Kind(k) : k \in Ks}
        BY DEF ManifestKinds
    <2>3. entry \in Bijection(Ks, F)
        BY <2>2 DEF Bijection, Injection, Surjection, IsInjective
    <2>4. \A k \in Ks : Group(home, k) = {i \in D : s[i].kind = k}
        BY DEF Group
    <2>5. \A k \in Ks : count[entry[k]] = Cardinality({i \in D : s[i].kind = k})
        BY <2>2
    <2> HIDE DEF home, entry, count, D, Ks, F
    <2>6. \A k \in Ks : count[entry[k]] = Cardinality(Group(home, k))
        BY <2>4, <2>5
    <2>7. SumFunctionOnSet(count, F) = Cardinality(D)
        <3>1. IsFiniteSet(D)
            BY <1>1
        <3> QED
            BY <2>1, <2>3, <2>6, <3>1, GroupsCount
    <2> QED
        BY <1>1, <2>7 DEF count
<1>6. SummaryOf(s).record_count = Len(s)
    BY SummaryCounts
<1>7. Len(s) = 0 => E = {} /\ F = {}
    <2>1. Len(s) = 0 => D = {}
        BY <1>1
    <2>2. Len(s) = 0 => Range(s) = {}
        BY <1>2, <2>1
    <2> QED
        BY <2>2 DEF ManifestDevices, ManifestKinds
<1>8. \A e \in E : e.summary.record_count # 0 /\ ~(e.summary.first_time > e.summary.last_time)
    <2>1. \A m \in Summary : ~(m.first_time > m.last_time)
        BY DEF Summary
    <2>2. \A e \in E : \E d \in Ds : e = DeviceSummary(s, d)
        BY DEF ManifestDevices
    <2> SUFFICES ASSUME NEW e \in E PROVE e.summary.record_count # 0 /\ ~(e.summary.first_time > e.summary.last_time)
        OBVIOUS
    <2>3. PICK d \in Ds : e = DeviceSummary(s, d)
        BY <2>2
    <2> HIDE DEF E, Ds, Of
    <2> QED
        BY <1>3, <2>1, <2>3
<1>9. SumFunction([e \in E |-> e.summary.record_count]) = Len(s) /\ SumFunction([e \in F |-> e.count]) = Len(s)
    BY <1>4, <1>5 DEF SumFunction
<1> HIDE DEF E, F
<1> DEFINE m == [summary |-> SummaryOf(s), devices |-> E, kinds |-> F]
<1>10. m.summary = SummaryOf(s) /\ m.devices = E /\ m.kinds = F
    OBVIOUS
<1> HIDE DEF m
<1>11. ValidateManifest(m) = {}
    BY <1>6, <1>7, <1>8, <1>9, <1>10 DEF ValidateManifest, When
<1> QED
    BY <1>11 DEF m, E, F

-----------------------------------------------------------------------------
(* What a repair decides and writes.                                       *)
NoneEarlier(s) == ~ \E i \in 2..Len(s) : s[i].time < s[i - 1].time

LEMMA OrderedRecords ==
    ASSUME NEW s, RecordsOk(s)
    PROVE  NoneEarlier(s) <=> Ordered(s)
<1>1. \A i \in 2..Len(s) : s[i].time \in Nat /\ s[i - 1].time \in Nat
    <2>1. Len(s) \in Nat /\ DOMAIN s = 1..Len(s)
        BY ListedDomain DEF RecordsOk
    <2>2. \A i \in 2..Len(s) : i \in DOMAIN s /\ i - 1 \in DOMAIN s
        BY <2>1
    <2> QED
        BY <2>2 DEF RecordsOk, IsRecord
<1>2. \A i \in 2..Len(s) : ~(s[i].time < s[i - 1].time) <=> s[i - 1].time <= s[i].time
    BY <1>1
<1> QED
    BY <1>2 DEF NoneEarlier, Ordered

\* An archive that was closed fails the audit, and its manifest warns, only for times out of order.
LEMMA WrittenAudit ==
    ASSUME NEW s, RecordsOk(s)
    PROVE  /\ AuditOk(AuditArchive(WriteArchive(s), DefaultAudit)) <=> Ordered(s)
           /\ ("manifest.warning" \in AnalyzeHealth(BuildManifest(WriteArchive(s)), Rules)) <=> ~Ordered(s)
<1> DEFINE f == WriteArchive(s)
           m == BuildManifest(f)
           a == AuditArchive(f, DefaultAudit)
<1>1. Readable(f) /\ Records(f) = s /\ f.header = SummaryOf(s)
    BY WrittenReadsBack
<1>2. ValidateManifest([summary |-> SummaryOf(s), devices |-> ManifestDevices(s), kinds |-> ManifestKinds(s)]) = {}
    BY ManifestConsistent
<1> HIDE DEF f
<1>3. m.summary = SummaryOf(s) /\ m.warnings = When(~NoneEarlier(s), "unordered")
    BY <1>1, <1>2 DEF BuildManifest, When, NoneEarlier
<1> HIDE DEF m
<1>4. m.warnings # {} <=> ~NoneEarlier(s)
    BY <1>3 DEF When
<1>5. ("manifest.warning" \in AnalyzeHealth(m, Rules)) <=> m.warnings # {}
    BY DEF AnalyzeHealth, When
<1>6. /\ a.readable = Readable(f)
      /\ a.findings = RecordFindings(s, DefaultAudit) \cup
            (HeaderFindings(SummaryOf(s), SummaryOf(s))
                \cup When(m.warnings # {}, Finding("warning", "manifest_consistency"))
                \cup SparseFindings(m, DefaultAudit))
    BY <1>1, <1>3 DEF AuditArchive, m
<1> HIDE DEF a
<1>7. HeaderFindings(SummaryOf(s), SummaryOf(s)) = {}
    BY DEF HeaderFindings, When
<1>8. \A x \in When(m.warnings # {}, Finding("warning", "manifest_consistency")) : x.severity # "error"
    BY DEF When, Finding
<1>9. \A x \in SparseFindings(m, DefaultAudit) : x.severity # "error"
    BY DEF SparseFindings, When, Finding
<1>10. RecordFindings(s, DefaultAudit) = When(~NoneEarlier(s), Finding("error", "ordered_timestamps"))
    BY DEF RecordFindings, When, DefaultAudit, NoneEarlier
<1>11. HasError(a) <=> ~NoneEarlier(s)
    <2>1. ASSUME ~NoneEarlier(s) PROVE HasError(a)
        <3>1. Finding("error", "ordered_timestamps") \in a.findings
            BY <1>6, <1>10, <2>1 DEF When
        <3> QED
            BY <3>1 DEF HasError, Finding
    <2>2. ASSUME NoneEarlier(s) PROVE ~HasError(a)
        <3>1. RecordFindings(s, DefaultAudit) = {}
            BY <1>10, <2>2 DEF When
        <3> QED
            BY <1>6, <1>7, <1>8, <1>9, <3>1 DEF HasError
    <2> QED
        BY <2>1, <2>2
<1>12. AuditOk(a) <=> NoneEarlier(s)
    BY <1>1, <1>6, <1>11 DEF AuditOk
<1> QED
    BY <1>4, <1>5, <1>12, OrderedRecords DEF f, m, a

Whole(f) == {i \in DOMAIN f.slots : f.slots[i].damage \notin {"frame", "torn"}}

\* When a repair does what.
Planned(action, f, options) ==
    /\ action \in {"no_op", "rebuild_from_salvage", "rewrite_from_readable_records", "quarantine_file"}
    /\ action = "no_op" => AuditOk(AuditArchive(f, DefaultAudit)) \/ ~options.quarantine
    /\ action = "quarantine_file" /\ options.allow_salvage => Cardinality(Whole(f)) <= IntactSlots(f)
    /\ action = "rewrite_from_readable_records" => Readable(f)

LEMMA PlannedAction ==
    ASSUME NEW f, FileOk(f), NEW options
    PROVE  Planned(PlanRepair(f, options), f, options)
<1> DEFINE a == AuditArchive(f, DefaultAudit)
           w == Cardinality(Whole(f))
<1>1. a.readable = Readable(f) /\ a.records_scanned = IntactSlots(f)
    BY RecordsRead DEF AuditArchive
<1>2. Len(Salvage(f)) = w /\ w \in Nat
    <2>1. Listed(f.slots) /\ Whole(f) \in SUBSET DOMAIN f.slots
        BY DEF FileOk, Whole
    <2>2. Salvage(f) = Kept(f.slots, Whole(f))
        BY DEF Salvage, Salvageable, Whole
    <2> QED
        BY <2>1, <2>2, KeptList, PositionsNumbered
<1>3. PlanRepair(f, options) = RepairAction(a, f, options)
    BY DEF PlanRepair
<1>4. IntactSlots(f) \in Nat
    BY IntactBounds
<1> HIDE DEF a
<1> DEFINE salvaged == IF options.allow_salvage /\ (~a.readable \/ HasError(a)) THEN Len(Salvage(f)) ELSE 0
           rewrite == \/ options.rewrite_header /\ HasCheck(a, "header_matches_records")
                      \/ options.rewrite_unordered /\ HasCheck(a, "ordered_timestamps")
<1>5. RepairAction(a, f, options) =
        CASE AuditOk(a) -> "no_op"
          [] ~AuditOk(a) /\ salvaged > a.records_scanned -> "rebuild_from_salvage"
          [] ~AuditOk(a) /\ salvaged <= a.records_scanned /\ rewrite /\ a.readable -> "rewrite_from_readable_records"
          [] OTHER -> IF options.quarantine THEN "quarantine_file" ELSE "no_op"
    BY Zenon DEF RepairAction
<1>6. ~AuditOk(a) /\ options.allow_salvage => salvaged = w
    BY <1>2 DEF AuditOk
<1>7. salvaged \in Nat
    BY <1>2
<1> HIDE DEF salvaged, rewrite, w
<1>8. CASE AuditOk(a)
    BY <1>3, <1>5, <1>8 DEF a, Planned
<1>9. CASE ~AuditOk(a) /\ salvaged > a.records_scanned
    <2>1. ~(salvaged <= a.records_scanned)
        BY <1>1, <1>4, <1>7, <1>9
    <2> QED
        BY <1>3, <1>5, <1>9, <2>1 DEF Planned
<1>10. CASE ~AuditOk(a) /\ ~(salvaged > a.records_scanned) /\ rewrite /\ a.readable
    <2>1. salvaged <= a.records_scanned
        BY <1>1, <1>4, <1>7, <1>10
    <2> QED
        BY <1>1, <1>3, <1>5, <1>10, <2>1 DEF Planned
<1>11. CASE ~AuditOk(a) /\ ~(salvaged > a.records_scanned) /\ ~(rewrite /\ a.readable)
    <2>1. salvaged <= a.records_scanned
        BY <1>1, <1>4, <1>7, <1>11
    <2>2. RepairAction(a, f, options) = IF options.quarantine THEN "quarantine_file" ELSE "no_op"
        BY <1>5, <1>11
    <2>3. options.allow_salvage => w <= IntactSlots(f)
        BY <1>1, <1>6, <1>11, <2>1
    <2> QED
        BY <1>3, <2>2, <2>3 DEF w, Planned
<1> QED
    BY <1>8, <1>9, <1>10, <1>11

\* The output holds a record for every whole frame, and those before the first damage as they were.
LEMMA RepairedOutput ==
    ASSUME StoreAssumption, NEW f, FileOk(f),
           NEW action \in {"rebuild_from_salvage", "rewrite_from_readable_records"},
           action = "rewrite_from_readable_records" => Readable(f)
    PROVE  \E s : /\ RecordsOk(s) /\ RepairedFile(f, action) = WriteArchive(s)
                  /\ Len(s) = Cardinality(Whole(f))
                  /\ \A i \in 1..IntactSlots(f) :
                        f.slots[i].record.time # 0 \/ action = "rewrite_from_readable_records"
                            => SameRecord(s[i], f.slots[i].record)
<1> DEFINE n == IntactSlots(f)
           P == Whole(f)
<1>1. /\ n \in Nat /\ n <= Len(f.slots) /\ Len(f.slots) \in Nat /\ DOMAIN f.slots = 1..Len(f.slots)
      /\ \A i \in 1..n : i \in DOMAIN f.slots /\ f.slots[i].damage = "none"
    BY IntactBounds DEF Undamaged
<1>2. CASE action = "rewrite_from_readable_records"
    <2>1. n = Len(f.slots)
        BY <1>2 DEF Readable
    <2>2. P = 1..n
        BY <1>1, <2>1 DEF Whole
    <2>3. Cardinality(P) = n
        <3>1. 1 \in Int /\ n \in Int /\ (1 > n => n = 0)
            BY <1>1
        <3>2. Cardinality(1..n) = IF 1 > n THEN 0 ELSE n - 1 + 1
            BY <3>1, FS_Interval
        <3> QED
            BY <1>1, <2>2, <3>1, <3>2
    <2>4. RepairedFile(f, action) = WriteArchive(Records(f))
        BY <1>2 DEF RepairedFile
    <2>5. /\ RecordsOk(Records(f)) /\ Len(Records(f)) = n
          /\ \A i \in 1..n : SameRecord(Records(f)[i], f.slots[i].record)
        BY RecordsRead DEF SameRecord
    <2> QED
        BY <2>3, <2>4, <2>5
<1>3. CASE action = "rebuild_from_salvage"
    <2> DEFINE t == Kept(f.slots, P)
               s == [k \in DOMAIN t |-> RepairedRecord(t[k])]
    <2>1. Listed(f.slots) /\ P \in SUBSET DOMAIN f.slots
        BY DEF FileOk, Whole
    <2>2. Salvage(f) = t
        BY DEF Salvage, Salvageable, Whole
    <2>3. RepairedFile(f, action) = WriteArchive(s)
        BY <1>3, <2>2 DEF RepairedFile
    <2>4. Cardinality(P) \in Nat
        BY <2>1, PositionsNumbered
    <2>5. /\ DOMAIN t = 1..Cardinality(P)
          /\ \A k \in 1..Cardinality(P) : Nth(P, k) \in P /\ t[k] = f.slots[Nth(P, k)]
        BY <2>1, KeptList
    <2>6. \A k \in 1..Cardinality(P) : \E i \in DOMAIN f.slots : t[k] = f.slots[i]
        BY <2>1, <2>5
    <2>7. \A k \in 1..n : t[k] = f.slots[k] /\ k \in 1..Cardinality(P)
        <3>1. 1..n \subseteq P
            BY <1>1 DEF Whole
        <3> HIDE DEF P, n
        <3> QED
            BY <1>1, <2>1, <3>1, KeptPrefix
    <2> HIDE DEF t, P
    <2>8. ASSUME NEW i \in DOMAIN f.slots
          PROVE  /\ IsRecord(RepairedRecord(f.slots[i]))
                 /\ f.slots[i].damage = "none" /\ f.slots[i].record.time # 0
                        => SameRecord(RepairedRecord(f.slots[i]), f.slots[i].record)
        <3> DEFINE slot == f.slots[i]
                   r == slot.record
        <3>1. /\ r = Record(r.time, r.device, r.sequence, r.kind, r.payload, r.stamp)
              /\ r.time \in Nat /\ r.stamp \in Nat
            BY DEF FileOk, IsRecord
        <3>2. InferredTime(slot) \in Nat /\ (slot.damage = "none" => InferredTime(slot) = r.time)
            BY <3>1 DEF InferredTime, StoreAssumption
        <3> HIDE DEF slot
        <3>3. PICK time \in Nat : /\ RepairedRecord(slot) = [r EXCEPT !.time = time]
                                  /\ slot.damage = "none" /\ r.time # 0 => time = r.time
            BY <3>1, <3>2 DEF RepairedRecord
        <3> HIDE DEF r
        <3>4. RepairedRecord(slot) = Record(time, r.device, r.sequence, r.kind, r.payload, r.stamp)
            BY <3>1, <3>3 DEF Record
        <3>5. IsRecord(RepairedRecord(slot))
            BY <3>1, <3>3, <3>4 DEF IsRecord, Record
        <3>6. slot.damage = "none" /\ r.time # 0 => SameRecord(RepairedRecord(slot), r)
            BY <3>3, <3>4 DEF SameRecord, Record
        <3> QED
            BY <3>5, <3>6 DEF slot, r
    <2>9. s = [k \in 1..Cardinality(P) |-> s[k]] /\ \A k \in 1..Cardinality(P) : s[k] = RepairedRecord(t[k])
        BY <2>5
    <2> HIDE DEF s
    <2>10. Listed(s) /\ DOMAIN s = 1..Cardinality(P) /\ Len(s) = Cardinality(P)
        BY <2>4, <2>9, ListedBuilt
    <2>11. RecordsOk(s)
        BY <2>6, <2>8, <2>9, <2>10 DEF RecordsOk
    <2>12. \A i \in 1..n : f.slots[i].record.time # 0 => SameRecord(s[i], f.slots[i].record)
        BY <1>1, <2>7, <2>8, <2>9
    <2> QED
        BY <1>3, <2>3, <2>10, <2>11, <2>12 DEF P
<1> QED
    BY <1>2, <1>3

-----------------------------------------------------------------------------
(* A rotation's plan, and what it copies.                                  *)
FilesOk(fs) == fs = [p \in DOMAIN fs |-> fs[p]] /\ \A p \in DOMAIN fs : FileOk(fs[p])

\* The records of finitely many files are finitely many.
LEMMA CollectedList ==
    ASSUME NEW fs, FilesOk(fs), NEW inputs, Listed(inputs), \A n \in DOMAIN inputs : inputs[n] \in DOMAIN fs, NEW order
    PROVE  Listed(CollectInputs(fs, inputs, order))
<1> DEFINE Of(n) == Projections(n, inputs[n], fs[inputs[n]])
           parts == {Of(n) : n \in DOMAIN inputs}
           found == UNION parts
<1>1. ASSUME NEW n \in DOMAIN inputs PROVE IsFiniteSet(Of(n))
    <2> DEFINE f == fs[inputs[n]]
               Entry(i) == [input |-> n, path |-> inputs[n], offset |-> OffsetOf(f, i), record |-> f.slots[i].record]
               g == [i \in 1..IntactSlots(f) |-> Entry(i)]
    <2>1. FileOk(f)
        BY DEF FilesOk
    <2>2. IntactSlots(f) \in Nat
        BY <2>1, IntactBounds
    <2>3. IsFiniteSet(1..IntactSlots(f))
        BY <2>2, FS_Interval
    <2>4. Of(n) = {Entry(i) : i \in 1..IntactSlots(f)}
        BY DEF Projections
    <2> HIDE DEF f, Entry
    <2>5. g \in Surjection(1..IntactSlots(f), Of(n))
        BY <2>4 DEF Surjection
    <2> QED
        BY <2>3, <2>5, FS_Surjection
<1>2. IsFiniteSet(parts)
    <2> DEFINE g == [n \in DOMAIN inputs |-> Of(n)]
    <2>1. g \in Surjection(DOMAIN inputs, parts)
        BY DEF Surjection
    <2>2. IsFiniteSet(DOMAIN inputs)
        BY ListedDomain
    <2> QED
        BY <2>1, <2>2, FS_Surjection
<1>3. IsFiniteSet(found)
    <2>1. \A T \in parts : IsFiniteSet(T)
        BY <1>1
    <2> HIDE DEF parts
    <2> QED
        BY <1>2, <2>1, FS_UNION
<1> DEFINE NotAfter(a, b) == \/ a.record.time < b.record.time
                             \/ /\ a.record.time = b.record.time
                                /\ \/ PathBefore(order, a.path, b.path)
                                   \/ a.path = b.path /\ a.offset < b.offset
                                   \/ a.path = b.path /\ a.offset = b.offset /\ a.input <= b.input
           n == Cardinality(found)
           Entered(k) == CHOOSE p \in found : Cardinality({q \in found : NotAfter(q, p)}) = k
           t == [k \in 1..n |-> Entered(k)]
<1>4. CollectInputs(fs, inputs, order) = t
    BY DEF CollectInputs
<1>5. t = [k \in 1..n |-> t[k]]
    <2> HIDE DEF Entered, n
    <2> QED
        OBVIOUS
<1>6. n \in Nat
    <2> HIDE DEF found
    <2> QED
        BY <1>3, FS_CardinalityType
<1> HIDE DEF t, n
<1> QED
    BY <1>4, <1>5, <1>6, ListedBuilt

ShardOk(shard) == "records" \in DOMAIN shard /\ Listed(shard.records)

ShardsOk(shards) == Listed(shards) /\ \A shard \in Range(shards) : ShardOk(shard)

PlanOk(plan) ==
    /\ plan = [closed |-> plan.closed, current |-> plan.current]
    /\ ShardsOk(plan.closed) /\ ShardOk(plan.current)

LEMMA AppendList ==
    ASSUME NEW s, Listed(s), NEW x
    PROVE  Listed(Append(s, x)) /\ Range(Append(s, x)) \subseteq Range(s) \cup {x}
<1> DEFINE S == Range(s) \cup {x}
           t == Append(s, x)
<1>1. Len(s) \in Nat /\ DOMAIN s = 1..Len(s)
    BY ListedDomain
<1>2. s \in [1..Len(s) -> S]
    <2>1. s \in [1..Len(s) -> Range(s)]
        BY <1>1, LenProperties DEF Listed
    <2> QED
        BY <2>1
<1>3. s \in Seq(S) /\ x \in S
    <2> HIDE DEF S
    <2>1. s \in Seq(S)
        BY <1>1, <1>2
    <2> QED
        BY <2>1 DEF S
<1>4. t \in Seq(S)
    <2> HIDE DEF S
    <2> QED
        BY <1>3, AppendProperties
<1> HIDE DEF t, S
<1>5. Len(t) \in Nat /\ t \in [1..Len(t) -> S]
    BY <1>4, LenProperties
<1>6. t = [i \in 1..Len(t) |-> t[i]] /\ DOMAIN t = 1..Len(t)
    BY <1>5
<1>7. Listed(t)
    BY <1>5, <1>6, ListedBuilt
<1>8. Range(t) \subseteq S
    BY <1>5, <1>6 DEF Range
<1> QED
    BY <1>7, <1>8 DEF S, t

LEMMA ShardGrows ==
    ASSUME NEW shard, ShardOk(shard), NEW p
    PROVE  ShardOk(AppendToShard(shard, p))
<1> DEFINE t == Append(shard.records, p)
<1>1. Listed(t)
    BY AppendList DEF ShardOk
<1> HIDE DEF t
<1>2. "records" \in DOMAIN AppendToShard(shard, p) /\ AppendToShard(shard, p).records = t
    BY DEF AppendToShard, ShardOk, t
<1> QED
    BY <1>1, <1>2 DEF ShardOk

LEMMA PlaceKeeps ==
    ASSUME NEW policy, NEW plan, PlanOk(plan), NEW p
    PROVE  PlanOk(PlaceRecord(policy, plan, p))
<1> DEFINE reason == BoundaryReason(policy, plan.current, p.record)
           closing == [plan.current EXCEPT !.reason = reason]
           opening == [EmptyShard EXCEPT !.reason = reason]
<1>1. CASE reason = "none"
    <2>1. PlaceRecord(policy, plan, p) = [plan EXCEPT !.current = AppendToShard(@, p)]
        BY <1>1 DEF PlaceRecord
    <2>2. PlaceRecord(policy, plan, p) = [closed |-> plan.closed, current |-> AppendToShard(plan.current, p)]
        BY <2>1 DEF PlanOk
    <2> QED
        BY <2>2, ShardGrows DEF PlanOk
<1>2. CASE reason # "none"
    <2>1. PlaceRecord(policy, plan, p) = [closed |-> Append(plan.closed, closing), current |-> AppendToShard(opening, p)]
        BY <1>2 DEF PlaceRecord
    <2>2. ShardOk(closing) /\ Listed(plan.closed) /\ \A shard \in Range(plan.closed) : ShardOk(shard)
        BY DEF PlanOk, ShardOk, ShardsOk
    <2>3. <<>> = [i \in 1..0 |-> <<>>[i]]
        OBVIOUS
    <2>4. Listed(<<>>)
        BY DEF Listed
    <2>5. ShardOk(opening)
        BY <2>4 DEF ShardOk, EmptyShard
    <2> HIDE DEF closing, opening
    <2>6. ShardOk(AppendToShard(opening, p))
        BY <2>5, ShardGrows
    <2>7. ShardsOk(Append(plan.closed, closing))
        BY <2>2, AppendList DEF ShardsOk
    <2> QED
        BY <2>1, <2>6, <2>7 DEF PlanOk
<1> QED
    BY <1>1, <1>2

\* One step of the planning loop for each record: the plan stays one of lists of records.
Placed(g, policy, s, p) ==
    IF p = {} THEN [closed |-> <<>>, current |-> EmptyShard] ELSE PlaceRecord(policy, g[p \ {Max(p)}], s[Max(p)])

Places(g, policy, s) == g = [p \in SUBSET DOMAIN s |-> Placed(g, policy, s, p)]

LEMMA PlacesExist ==
    ASSUME NEW policy, NEW s, Listed(s)
    PROVE  \E g : Places(g, policy, s)
<1> DEFINE D == DOMAIN s
           Sub(n) == {p \in SUBSET D : Cardinality(p) <= n}
           Good(g, n) == \A p \in Sub(n) : g[p] = Placed(g, policy, s, p)
           Typed(g) == DOMAIN g = SUBSET D /\ g = [p \in SUBSET D |-> g[p]]
           Bad == {n \in Nat : ~ \E g : Typed(g) /\ Good(g, n)}
<1>0. \A p \in SUBSET D : IsFiniteSet(p) /\ Cardinality(p) \in Nat /\ Cardinality(p) <= Cardinality(D)
    BY ListedDomain, FS_Subset, FS_CardinalityType
<1>1. Bad = {}
    <2> SUFFICES ASSUME Bad # {} PROVE FALSE
        OBVIOUS
    <2>1. PICK n \in Bad : \A k \in Bad : n <= k
        BY LeastNumber
    <2>2. CASE n = 0
        <3> DEFINE g == [p \in SUBSET D |-> Placed(<<>>, policy, s, {})]
        <3>1. \A p \in Sub(0) : p = {}
            BY <1>0, FS_EmptySet
        <3>2. Good(g, 0)
            BY <3>1 DEF Placed
        <3>3. Typed(g)
            OBVIOUS
        <3> QED
            BY <2>1, <2>2, <3>2, <3>3
    <2>3. CASE n # 0
        <3>1. n - 1 \in Nat /\ n - 1 \notin Bad /\ n \in Nat
            <4>1. n \in Nat
                OBVIOUS
            <4> HIDE DEF Bad
            <4> QED
                BY <2>1, <2>3, <4>1
        <3>2. PICK g : Typed(g) /\ Good(g, n - 1)
            BY <3>1
        <3> DEFINE h == [p \in SUBSET D |-> Placed(g, policy, s, p)]
        <3>3. \A p \in Sub(n - 1) : h[p] = g[p]
            BY <3>2
        <3>4. ASSUME NEW p \in Sub(n) PROVE h[p] = Placed(h, policy, s, p)
            <4>1. CASE p = {}
                BY <4>1 DEF Placed
            <4>2. CASE p # {}
                <5> DEFINE q == p \ {Max(p)}
                <5>1. Max(p) \in p /\ IsFiniteSet(p) /\ Cardinality(p) \in Nat /\ Cardinality(p) <= n
                    BY <1>0, <4>2, LastPosition
                <5>2. Cardinality(q) \in Nat /\ Cardinality(q) = Cardinality(p) - 1
                    BY <5>1, Smaller
                <5>3. q \in Sub(n - 1)
                    BY <3>1, <5>1, <5>2
                <5>4. h[q] = g[q]
                    BY <3>3, <5>3
                <5> HIDE DEF h
                <5>5. Placed(h, policy, s, p) = Placed(g, policy, s, p)
                    BY <5>4 DEF Placed
                <5> QED
                    BY <5>5 DEF h
            <4> QED
                BY <4>1, <4>2
        <3>5. Typed(h) /\ Good(h, n)
            BY <3>4
        <3> QED
            BY <2>1, <3>5
    <2> QED
        BY <2>2, <2>3
<1>2. PICK g : Typed(g) /\ Good(g, Cardinality(D))
    BY <1>0, <1>1
<1>3. \A p \in SUBSET D : g[p] = Placed(g, policy, s, p)
    BY <1>0, <1>2
<1> QED
    BY <1>2, <1>3 DEF Places

LEMMA RotationPlanned ==
    ASSUME NEW policy, NEW s, Listed(s)
    PROVE  ShardsOk(PlanRotation(policy, s))
<1> DEFINE D == DOMAIN s
           start == [closed |-> <<>>, current |-> EmptyShard]
           iter == CHOOSE g : g = [p \in SUBSET D |-> IF p = {} THEN start
                                        ELSE PlaceRecord(policy, g[p \ {Max(p)}], s[Max(p)])]
           plan == iter[D]
<1>1. PlanRotation(policy, s) =
        IF plan.current.records # <<>> \/ policy.keep_empty
        THEN Append(plan.closed, [plan.current EXCEPT !.reason = "none"])
        ELSE plan.closed
    BY DEF PlanRotation, FoldLeft, MapThenFoldSet
<1>2. Places(iter, policy, s)
    <2> DEFINE IsIter(g) == g = [p \in SUBSET D |-> IF p = {} THEN start
                                        ELSE PlaceRecord(policy, g[p \ {Max(p)}], s[Max(p)])]
    <2>1. \E g : IsIter(g)
        <3>1. PICK g : Places(g, policy, s)
            BY PlacesExist
        <3>2. IsIter(g)
            BY <3>1 DEF Places, Placed
        <3> HIDE DEF IsIter
        <3> QED
            BY <3>2
    <2>2. iter = CHOOSE g : IsIter(g)
        OBVIOUS
    <2> HIDE DEF iter
    <2>3. IsIter(iter)
        <3> HIDE DEF IsIter
        <3> QED
            BY <2>1, <2>2
    <2> QED
        BY <2>3 DEF Places, Placed
<1>3. \A p \in SUBSET D : iter[p] = Placed(iter, policy, s, p)
    BY <1>2 DEF Places
<1> HIDE DEF iter
<1> DEFINE Bad == {p \in SUBSET D : ~PlanOk(iter[p])}
<1>4. PlanOk(iter[{}])
    <2>1. iter[{}] = start
        BY <1>3 DEF Placed
    <2>2. <<>> = [i \in 1..0 |-> <<>>[i]] /\ DOMAIN <<>> = {}
        OBVIOUS
    <2>3. Listed(<<>>) /\ Range(<<>>) = {}
        BY <2>2 DEF Listed, Range
    <2> QED
        BY <2>1, <2>3 DEF PlanOk, ShardsOk, ShardOk, EmptyShard
<1>5. Bad = {}
    <2> SUFFICES ASSUME Bad # {} PROVE FALSE
        OBVIOUS
    <2>1. \A p \in SUBSET D : IsFiniteSet(p)
        BY ListedDomain, FS_Subset
    <2>2. PICK p \in Bad : \A q \in Bad : Cardinality(p) <= Cardinality(q)
        <3>1. \A p \in Bad : IsFiniteSet(p)
            BY <2>1
        <3> HIDE DEF Bad
        <3> QED
            BY <3>1, SmallestSet
    <2>3. p \in SUBSET D /\ ~PlanOk(iter[p]) /\ p # {} /\ IsFiniteSet(p)
        BY <1>4, <2>1
    <2> DEFINE q == p \ {Max(p)}
    <2>4. Max(p) \in p
        BY <2>3, LastPosition
    <2>5. Cardinality(q) \in Nat /\ Cardinality(p) \in Nat /\ Cardinality(q) = Cardinality(p) - 1
        BY <2>3, <2>4, Smaller
    <2>6. q \in SUBSET D /\ q \notin Bad
        BY <2>2, <2>5
    <2>7. PlanOk(iter[q])
        BY <2>6
    <2>8. iter[p] = PlaceRecord(policy, iter[q], s[Max(p)])
        BY <1>3, <2>3 DEF Placed
    <2> HIDE DEF q
    <2> QED
        BY <2>3, <2>7, <2>8, PlaceKeeps
<1>6. PlanOk(plan)
    BY <1>5
<1> HIDE DEF plan
<1>7. ShardsOk(plan.closed) /\ ShardOk([plan.current EXCEPT !.reason = "none"])
    BY <1>6 DEF PlanOk, ShardOk
<1> DEFINE last == [plan.current EXCEPT !.reason = "none"]
<1> HIDE DEF last
<1>8. ShardOk(last)
    BY <1>7 DEF last
<1>9. ShardsOk(Append(plan.closed, last))
    BY <1>7, <1>8, AppendList DEF ShardsOk
<1> QED
    BY <1>1, <1>7, <1>9 DEF last

\* Copying a shard reads records that some file has, or none.
RecordsOf(fs) == UNION {{fs[p].slots[i].record : i \in DOMAIN fs[p].slots} : p \in DOMAIN fs}

Copy(fs) == [records : Seq(RecordsOf(fs)), skipped : Nat, failed : BOOLEAN]

LEMMA CopyRecordTyped ==
    ASSUME NEW fs, FilesOk(fs), NEW copy \in Copy(fs), NEW p
    PROVE  CopyRecord(fs, copy, p) \in Copy(fs)
<1> DEFINE throws == p.path \notin DOMAIN fs \/ ReadThrows(fs[p.path], p.offset)
           there == RecordAt(fs[p.path], p.offset)
<1>1. CopyRecord(fs, copy, p) =
        CASE copy.failed -> copy
          [] ~copy.failed /\ throws -> [copy EXCEPT !.failed = TRUE]
          [] OTHER -> IF there = {} THEN [copy EXCEPT !.skipped = @ + 1]
                      ELSE [copy EXCEPT !.records = Append(@, CHOOSE r \in there : TRUE)]
    BY DEF CopyRecord
<1>2. CASE copy.failed
    BY <1>1, <1>2
<1>3. CASE ~copy.failed /\ throws
    <2>1. CopyRecord(fs, copy, p) = [copy EXCEPT !.failed = TRUE]
        BY <1>1, <1>3
    <2> QED
        BY <2>1 DEF Copy
<1>4. CASE ~copy.failed /\ ~throws
    <2>1. CopyRecord(fs, copy, p) = IF there = {} THEN [copy EXCEPT !.skipped = @ + 1]
                                    ELSE [copy EXCEPT !.records = Append(@, CHOOSE r \in there : TRUE)]
        BY <1>1, <1>4
    <2>2. there \subseteq RecordsOf(fs)
        <3>1. p.path \in DOMAIN fs /\ FileOk(fs[p.path])
            BY <1>4 DEF FilesOk
        <3>2. \A i \in 1..IntactSlots(fs[p.path]) : i \in DOMAIN fs[p.path].slots
            BY <3>1, IntactBounds
        <3>3. there \subseteq {fs[p.path].slots[i].record : i \in DOMAIN fs[p.path].slots}
            BY <3>2 DEF RecordAt
        <3> QED
            BY <3>1, <3>3 DEF RecordsOf
    <2> HIDE DEF there
    <2>3. CASE there = {}
        BY <2>1, <2>3 DEF Copy
    <2>4. CASE there # {}
        <3> DEFINE r == CHOOSE x \in there : TRUE
        <3>1. r \in RecordsOf(fs)
            BY <2>2, <2>4
        <3> HIDE DEF r
        <3>2. copy.records \in Seq(RecordsOf(fs))
            BY DEF Copy
        <3>3. Append(copy.records, r) \in Seq(RecordsOf(fs))
            BY <3>1, <3>2, AppendProperties
        <3>4. CopyRecord(fs, copy, p) = [copy EXCEPT !.records = Append(@, r)]
            BY <2>1, <2>4 DEF r
        <3> QED
            BY <3>3, <3>4 DEF Copy
    <2> QED
        BY <2>3, <2>4
<1> QED
    BY <1>2, <1>3, <1>4

LEMMA ShardCopied ==
    ASSUME NEW fs, FilesOk(fs), NEW shard, ShardOk(shard)
    PROVE  RecordsOk(CopyShard(fs, shard).records)
<1> DEFINE s == shard.records
           D == DOMAIN s
           X == Copy(fs)
           none == [records |-> <<>>, skipped |-> 0, failed |-> FALSE]
           iter == CHOOSE g : g = [p \in SUBSET D |-> IF p = {} THEN none
                                        ELSE CopyRecord(fs, g[p \ {Max(p)}], s[Max(p)])]
<1>1. CopyShard(fs, shard) = iter[D]
    BY DEF CopyShard, FoldLeft, MapThenFoldSet
<1>2. Listed(s) /\ IsFiniteSet(D)
    BY ListedDomain DEF ShardOk
<1>3. \A p \in SUBSET D : p # {} => Max(p) \in p
    <2> HIDE DEF s
    <2> QED
        BY <1>2, LastPosition
<1>4. none \in X
    BY DEF Copy
<1>5. PICK g \in [SUBSET D -> X] : g = [p \in SUBSET D |-> IF p = {} THEN none
                                        ELSE CopyRecord(fs, g[p \ {Max(p)}], s[Max(p)])]
    <2> DEFINE Top == [p \in SUBSET D |-> Max(p)]
               G == [i \in D |-> [c \in X |-> CopyRecord(fs, c, s[i])]]
    <2>1. \A p \in SUBSET D : p # {} => Top[p] \in p
        BY <1>3
    <2>2. \A i \in D : G[i] \in [X -> X]
        BY CopyRecordTyped
    <2> HIDE DEF G, Top
    <2>3. PICK g \in [SUBSET D -> X] : FoldsBy(g, D, Top, none, G)
        <3> HIDE DEF D, iter, X, none
        <3> QED
            BY <1>2, <1>4, <2>1, <2>2, FoldDefined
    <2>4. ASSUME NEW p \in SUBSET D, p # {} PROVE g[p] = CopyRecord(fs, g[p \ {Max(p)}], s[Max(p)])
        <3>1. Top[p] = Max(p) /\ Max(p) \in D /\ g[p \ {Max(p)}] \in X
            BY <2>1, <2>3, <2>4 DEF Top
        <3> HIDE DEF X
        <3> QED
            BY <2>3, <2>4, <3>1 DEF G, FoldsBy
    <2>5. g[{}] = none
        BY <2>3 DEF FoldsBy
    <2> HIDE DEF X
    <2> QED
        BY <2>3, <2>4, <2>5
<1>6. \A p \in SUBSET D : iter[p] = IF p = {} THEN none ELSE CopyRecord(fs, iter[p \ {Max(p)}], s[Max(p)])
    <2> DEFINE IsIter(h) == h = [p \in SUBSET D |-> IF p = {} THEN none
                                        ELSE CopyRecord(fs, h[p \ {Max(p)}], s[Max(p)])]
    <2>1. IsIter(g)
        BY <1>5
    <2>2. iter = CHOOSE h : IsIter(h)
        OBVIOUS
    <2> HIDE DEF iter
    <2>3. IsIter(iter)
        <3> HIDE DEF IsIter
        <3> QED
            BY <2>1, <2>2
    <2> QED
        BY <2>3
<1> HIDE DEF iter
<1> DEFINE Bad == {p \in SUBSET D : iter[p] \notin X}
<1>7. Bad = {}
    <2> SUFFICES ASSUME Bad # {} PROVE FALSE
        OBVIOUS
    <2>1. \A p \in Bad : IsFiniteSet(p)
        BY <1>2, FS_Subset
    <2>2. PICK p \in Bad : \A q \in Bad : Cardinality(p) <= Cardinality(q)
        <3> HIDE DEF Bad
        <3> QED
            BY <2>1, SmallestSet
    <2>3. p \in SUBSET D /\ iter[p] \notin X /\ p # {}
        <3> HIDE DEF X
        <3> QED
            BY <1>4, <1>6
    <2> DEFINE q == p \ {Max(p)}
    <2>4. Cardinality(q) \in Nat /\ Cardinality(p) \in Nat /\ Cardinality(q) = Cardinality(p) - 1
        BY <1>3, <2>1, <2>3, Smaller
    <2>5. q \in SUBSET D /\ q \notin Bad
        BY <2>2, <2>4
    <2>6. iter[q] \in X
        BY <2>5
    <2>7. iter[p] = CopyRecord(fs, iter[q], s[Max(p)])
        BY <1>6, <2>3
    <2> HIDE DEF q, X
    <2>8. iter[p] \in Copy(fs)
        BY <2>6, <2>7, CopyRecordTyped DEF X
    <2> QED
        BY <2>3, <2>8 DEF X
<1>8. iter[D] \in X
    BY <1>7
<1> DEFINE t == CopyShard(fs, shard).records
<1>9. t \in Seq(RecordsOf(fs))
    BY <1>1, <1>8 DEF Copy
<1> HIDE DEF t
<1>10. t \in [1..Len(t) -> RecordsOf(fs)] /\ Len(t) \in Nat
    BY <1>9, LenProperties
<1>11. \A r \in RecordsOf(fs) : IsRecord(r)
    BY DEF RecordsOf, FilesOk, FileOk
<1>12. t = [i \in 1..Len(t) |-> t[i]]
    BY <1>10
<1>13. Listed(t)
    BY <1>10, <1>12, ListedBuilt
<1> QED
    BY <1>10, <1>11, <1>13 DEF RecordsOk, t

-----------------------------------------------------------------------------
(* Every operation leaves files, and a repair reports what it did.         *)
RepairedFaithfully(action, options, before, output) ==
    /\ action = "no_op" => AuditOk(AuditArchive(before, DefaultAudit)) \/ ~options.quarantine
    /\ action = "quarantine_file" =>
        output = before /\ (options.allow_salvage => Cardinality(Whole(before)) <= IntactSlots(before))
    /\ action \in {"rebuild_from_salvage", "rewrite_from_readable_records"} =>
        /\ RecordsOk(Records(output)) /\ output = WriteArchive(Records(output))
        /\ Len(Records(output)) = Cardinality(Whole(before))
        /\ \A i \in 1..IntactSlots(before) :
            before.slots[i].record.time # 0 \/ action = "rewrite_from_readable_records"
                => SameRecord(Records(output)[i], before.slots[i].record)

ReportOk(r) == r.operation = "repair" => RepairedFaithfully(r.action, r.options, r.source, r.output)

JobOk(j) ==
    /\ {"shards", "next", "quiet", "skipped"} \subseteq DOMAIN j
    /\ ShardsOk(j.shards)
    /\ j.shards # <<>> => j.next \in 1..Len(j.shards)

UpkeepInv == FilesOk(files) /\ JobOk(job) /\ ReportOk(report)

LEMMA RepairDone ==
    ASSUME StoreAssumption, NEW f, FileOk(f), NEW options, NEW action, action = PlanRepair(f, options), NEW output,
           action \in {"no_op", "quarantine_file"} => output = f,
           action \in {"rebuild_from_salvage", "rewrite_from_readable_records"} => output = RepairedFile(f, action)
    PROVE  FileOk(output) /\ RepairedFaithfully(action, options, f, output)
<1>1. Planned(action, f, options)
    BY PlannedAction
<1>2. CASE action \in {"no_op", "quarantine_file"}
    BY <1>1, <1>2 DEF Planned, RepairedFaithfully
<1>3. CASE action \in {"rebuild_from_salvage", "rewrite_from_readable_records"}
    <2>1. action = "rewrite_from_readable_records" => Readable(f)
        BY <1>1 DEF Planned
    <2>2. PICK s : /\ RecordsOk(s) /\ RepairedFile(f, action) = WriteArchive(s)
                   /\ Len(s) = Cardinality(Whole(f))
                   /\ \A i \in 1..IntactSlots(f) :
                        f.slots[i].record.time # 0 \/ action = "rewrite_from_readable_records"
                            => SameRecord(s[i], f.slots[i].record)
        BY <1>3, <2>1, RepairedOutput
    <2>3. FileOk(output) /\ Records(output) = s /\ output = WriteArchive(s)
        BY <1>3, <2>2, WrittenReadsBack
    <2> QED
        BY <1>3, <2>2, <2>3 DEF RepairedFaithfully
<1> QED
    BY <1>1, <1>2, <1>3 DEF Planned

LEMMA FaithfulReport == ASSUME UpkeepInv PROVE RepairFaithful
<1> SUFFICES ASSUME report.operation = "repair" PROVE RepairFaithful
    BY DEF RepairFaithful
<1> DEFINE before == report.source
           out == Records(report.output)
<1>1. RepairedFaithfully(report.action, report.options, before, report.output)
    BY DEF UpkeepInv, ReportOk
<1>2. report.action = "no_op" => AuditOk(AuditArchive(before, DefaultAudit)) \/ ~report.options.quarantine
    BY <1>1 DEF RepairedFaithfully
<1>3. report.action = "quarantine_file" =>
        report.output = before /\ (report.options.allow_salvage => Cardinality(Whole(before)) <= IntactSlots(before))
    BY <1>1 DEF RepairedFaithfully
<1>4. ASSUME report.action \in {"rebuild_from_salvage", "rewrite_from_readable_records"}
      PROVE  /\ Len(out) = Cardinality(Whole(before))
             /\ \A i \in 1..IntactSlots(before) :
                    before.slots[i].record.time # 0 \/ report.action = "rewrite_from_readable_records"
                        => SameRecord(out[i], before.slots[i].record)
             /\ Readable(report.output)
             /\ AuditOk(AuditArchive(report.output, DefaultAudit)) <=> Ordered(out)
             /\ ("manifest.warning" \in AnalyzeHealth(BuildManifest(report.output), Rules)) <=> ~Ordered(out)
    <2>1. RecordsOk(out) /\ report.output = WriteArchive(out)
        BY <1>1, <1>4 DEF RepairedFaithfully
    <2>2. /\ Len(out) = Cardinality(Whole(before))
          /\ \A i \in 1..IntactSlots(before) :
                before.slots[i].record.time # 0 \/ report.action = "rewrite_from_readable_records"
                    => SameRecord(out[i], before.slots[i].record)
        BY <1>1, <1>4 DEF RepairedFaithfully
    <2> HIDE DEF out
    <2>3. Readable(WriteArchive(out))
        BY <2>1, WrittenReadsBack
    <2>4. /\ AuditOk(AuditArchive(WriteArchive(out), DefaultAudit)) <=> Ordered(out)
          /\ ("manifest.warning" \in AnalyzeHealth(BuildManifest(WriteArchive(out)), Rules)) <=> ~Ordered(out)
        BY <2>1, WrittenAudit
    <2> QED
        BY <2>1, <2>2, <2>3, <2>4
<1> QED
    BY <1>2, <1>3, <1>4 DEF RepairFaithful, Whole

LEMMA ReplacedOk ==
    ASSUME FilesOk(files), NEW path, NEW f, FileOk(f)
    PROVE  FilesOk(Replaced(path, f)) /\ Replaced(path, f)[path] = f
<1> DEFINE fs == Replaced(path, f)
<1>1. fs = [p \in DOMAIN files \cup {path} |-> IF p = path THEN f ELSE files[p]]
    BY DEF Replaced
<1> HIDE DEF fs
<1>2. DOMAIN fs = DOMAIN files \cup {path} /\ fs = [p \in DOMAIN fs |-> fs[p]]
    BY <1>1
<1>3. \A p \in DOMAIN fs : fs[p] = IF p = path THEN f ELSE files[p]
    BY <1>1
<1>4. \A p \in DOMAIN fs : FileOk(fs[p])
    BY <1>2, <1>3 DEF FilesOk
<1> QED
    BY <1>2, <1>3, <1>4 DEF FilesOk, fs

LEMMA AbandonedOk ==
    ASSUME NEW s, RecordsOk(s), NEW n \in 0..Len(s), NEW d
    PROVE  FileOk(AbandonedArchive(SubSeq(s, 1, n), d))
<1> DEFINE r == SubSeq(s, 1, n)
           D(i) == IF i = Len(r) THEN d ELSE "none"
           t == [i \in DOMAIN r |-> Slot(r[i], D(i))]
           f == AbandonedArchive(r, d)
<1>1. s \in Seq(Range(s)) /\ Len(s) \in Nat /\ DOMAIN s = 1..Len(s)
    BY ListedDomain DEF RecordsOk, Listed
<1>2. r = [i \in 1..n |-> s[i]]
    BY <1>1
<1> HIDE DEF r, D
<1>3. DOMAIN r = 1..n /\ n \in Nat /\ \A i \in 1..n : IsRecord(r[i])
    BY <1>1, <1>2 DEF RecordsOk
<1>4. f = [opens |-> TRUE, header |-> EmptySummary, slots |-> t]
    BY DEF AbandonedArchive, D
<1>5. t = [i \in 1..n |-> t[i]] /\ \A i \in 1..n : t[i] = Slot(r[i], D(i))
    BY <1>3
<1> HIDE DEF t, f
<1>6. Listed(t) /\ DOMAIN t = 1..n
    BY <1>3, <1>5, ListedBuilt
<1>7. \A i \in 1..n : t[i] = Slot(t[i].record, t[i].damage) /\ IsRecord(t[i].record)
    BY <1>3, <1>5 DEF Slot
<1>8. f = [opens |-> f.opens, header |-> f.header, slots |-> f.slots] /\ f.slots = t
    BY <1>4
<1> QED
    BY <1>6, <1>7, <1>8 DEF FileOk, f, r

LEMMA WithoutOk == ASSUME FilesOk(files) PROVE FilesOk(WithoutOutput)
<1> DEFINE fs == WithoutOutput
<1>1. fs = [p \in DOMAIN files \ {ShardPath[job.next]} |-> files[p]]
    BY DEF WithoutOutput
<1> HIDE DEF fs
<1>2. fs = [p \in DOMAIN fs |-> fs[p]] /\ \A p \in DOMAIN fs : p \in DOMAIN files /\ fs[p] = files[p]
    BY <1>1
<1> QED
    BY <1>2 DEF FilesOk, fs

LEMMA NoReportOk == ReportOk(NoReport)
BY DEF ReportOk, NoReport

LEMMA IdleOk == JobOk(Idle)
<1>1. <<>> = [i \in 1..0 |-> <<>>[i]] /\ DOMAIN <<>> = {}
    OBVIOUS
<1>2. ShardsOk(<<>>)
    BY <1>1 DEF ShardsOk, Listed, Range
<1> QED
    BY <1>2 DEF JobOk, Idle

LEMMA UpkeepInit == ASSUME StoreAssumption, Init PROVE UpkeepInv
<1>1. PICK choice \in [DOMAIN Contents -> UNION {Contents[p] : p \in DOMAIN Contents}] :
        /\ \A p \in DOMAIN Contents : choice[p] \in Contents[p]
        /\ files = [p \in DOMAIN Contents |-> WriteArchive(choice[p])]
    BY DEF Init
<1>2. ASSUME NEW p \in DOMAIN Contents PROVE FileOk(WriteArchive(choice[p]))
    <2> DEFINE s == choice[p]
    <2>1. s \in Contents[p]
        BY <1>1
    <2> HIDE DEF s
    <2>2. s \in Seq(Range(s)) /\ \A r \in Range(s) : IsRecord(r)
        BY <2>1 DEF StoreAssumption
    <2>3. RecordsOk(s)
        BY <2>2 DEF RecordsOk, Listed, Range
    <2>4. FileOk(WriteArchive(s))
        BY <2>3, WrittenReadsBack
    <2> QED
        BY <2>4 DEF s
<1>3. FilesOk(files)
    BY <1>1, <1>2 DEF FilesOk
<1> QED
    BY <1>3, IdleOk, NoReportOk DEF Init, UpkeepInv

\* What the shard being copied holds.
LEMMA CopiedOk == ASSUME UpkeepInv, Busy PROVE RecordsOk(CopyShard(WithoutOutput, job.shards[job.next]).records)
<1>1. job.next \in 1..Len(job.shards) /\ ShardsOk(job.shards)
    BY DEF UpkeepInv, JobOk, Busy
<1>2. DOMAIN job.shards = 1..Len(job.shards)
    BY <1>1, ListedDomain DEF ShardsOk
<1>3. ShardOk(job.shards[job.next])
    BY <1>1, <1>2 DEF ShardsOk, Range
<1>4. FilesOk(WithoutOutput)
    BY WithoutOk DEF UpkeepInv
<1> QED
    BY <1>3, <1>4, ShardCopied

LEMMA UpkeepRotation ==
    ASSUME StoreAssumption, UpkeepInv,
           \/ \E i \in Inputs, p \in Policies, overwrite \in BOOLEAN : StartRotation(i, p, overwrite)
           \/ RefuseOutput \/ WriteShard \/ CrashInShard
    PROVE  UpkeepInv'
<1>1. ASSUME NEW inputs \in Inputs, NEW policy \in Policies, NEW overwrite \in BOOLEAN,
             StartRotation(inputs, policy, overwrite)
      PROVE  UpkeepInv'
    <2> DEFINE projections == CollectInputs(files, inputs, PathOrder)
               shards == PlanRotation(policy, projections)
    <2>1. files' = files /\ report' = NoReport /\ job'.next = 1 /\ job'.shards = shards /\ shards # <<>>
          /\ DOMAIN job' = DOMAIN Idle /\ \A p \in Range(inputs) : p \in DOMAIN files
        BY <1>1 DEF StartRotation, Idle
    <2>2. Listed(inputs) /\ \A n \in DOMAIN inputs : inputs[n] \in DOMAIN files
        BY <2>1 DEF StoreAssumption, Listed, Range
    <2>3. FilesOk(files)
        BY DEF UpkeepInv
    <2>4. Listed(projections)
        BY <2>2, <2>3, CollectedList
    <2> HIDE DEF projections
    <2>5. ShardsOk(shards)
        BY <2>4, RotationPlanned
    <2> HIDE DEF shards
    <2>6. 1 \in 1..Len(shards)
        <3>1. shards \in Seq(Range(shards))
            BY <2>5 DEF ShardsOk, Listed
        <3>2. Len(shards) \in Nat /\ Len(shards) # 0
            BY <2>1, <3>1, EmptySeq
        <3> QED
            BY <3>2
    <2>7. JobOk(job')
        BY <2>1, <2>5, <2>6 DEF JobOk, Idle
    <2> QED
        BY <2>1, <2>3, <2>7, NoReportOk DEF UpkeepInv
<1>2. ASSUME RefuseOutput PROVE UpkeepInv'
    BY <1>2, IdleOk DEF UpkeepInv, RefuseOutput, RotationReport, ReportOk
<1>3. ASSUME WriteShard PROVE UpkeepInv'
    <2> DEFINE copy == CopyShard(WithoutOutput, job.shards[job.next])
               f == WriteArchive(copy.records)
               finished == job.next = Len(job.shards)
    <2>1. FileOk(f)
        BY <1>3, CopiedOk, WrittenReadsBack DEF WriteShard
    <2>2. files' = Replaced(ShardPath[job.next], f)
        BY <1>3 DEF WriteShard
    <2> HIDE DEF f
    <2>3. FilesOk(files')
        BY <2>1, <2>2, ReplacedOk DEF UpkeepInv
    <2>4. CASE copy.failed \/ finished
        <3>1. job' = Idle /\ report'.operation = "rotation"
            BY <1>3, <2>4 DEF WriteShard, RotationReport
        <3> QED
            BY <2>3, <3>1, IdleOk DEF UpkeepInv, ReportOk
    <2>5. CASE ~(copy.failed \/ finished)
        <3>1. job' = [job EXCEPT !.next = @ + 1, !.skipped = @ + copy.skipped] /\ report' = report
            BY <1>3, <2>5 DEF WriteShard
        <3>2. job.next \in 1..Len(job.shards) /\ ShardsOk(job.shards) /\ {"shards", "next", "quiet", "skipped"} \subseteq DOMAIN job
            BY <1>3 DEF WriteShard, Busy, UpkeepInv, JobOk
        <3>3. job.next + 1 \in 1..Len(job.shards)
            <4>1. Len(job.shards) \in Nat
                BY <3>2, ListedDomain DEF ShardsOk
            <4> QED
                BY <2>5, <3>2, <4>1
        <3>4. job'.next = job.next + 1 /\ job'.shards = job.shards /\ DOMAIN job' = DOMAIN job
            BY <3>1, <3>2
        <3>5. JobOk(job')
            BY <3>2, <3>3, <3>4 DEF JobOk
        <3> QED
            BY <2>3, <3>1, <3>5 DEF UpkeepInv
    <2> QED
        BY <2>4, <2>5
<1>4. ASSUME CrashInShard PROVE UpkeepInv'
    <2> DEFINE copied == CopyShard(WithoutOutput, job.shards[job.next]).records
    <2>1. RecordsOk(copied)
        BY <1>4, CopiedOk DEF CrashInShard
    <2>2. PICK n \in 0..Len(copied), d \in {"none", "torn"} :
            files' = Replaced(ShardPath[job.next], AbandonedArchive(SubSeq(copied, 1, n), d))
        BY <1>4 DEF CrashInShard
    <2> HIDE DEF copied
    <2> DEFINE f == AbandonedArchive(SubSeq(copied, 1, n), d)
    <2>3. FileOk(f)
        BY <2>1, AbandonedOk
    <2> HIDE DEF f
    <2>4. FilesOk(files')
        <3>1. files' = Replaced(ShardPath[job.next], f)
            BY <2>2 DEF f
        <3> QED
            BY <2>3, <3>1, ReplacedOk DEF UpkeepInv
    <2> QED
        BY <1>4, <2>4, IdleOk, NoReportOk DEF CrashInShard, UpkeepInv
<1> QED
    BY <1>1, <1>2, <1>3, <1>4

LEMMA Disturbed == ASSUME JobOk(job), Disturb PROVE JobOk(job')
<1>1. job'.shards = job.shards /\ job'.next = job.next /\ DOMAIN job' = DOMAIN job
    BY DEF Disturb, JobOk
<1> QED
    BY <1>1 DEF JobOk

LEMMA UpkeepMaintenance ==
    ASSUME StoreAssumption, UpkeepInv,
           \/ \E s \in DOMAIN files, t \in CompactionTargets, o \in CompactionOptions : Compact(s, t, o)
           \/ \E p \in DOMAIN files \cap DOMAIN RepairedPath, o \in RepairOptions, w \in BOOLEAN : Repair(p, o, w)
    PROVE  UpkeepInv'
<1>1. ASSUME NEW s \in DOMAIN files, NEW t, NEW o, Compact(s, t, o) PROVE UpkeepInv'
    <2> DEFINE f == CompactArchive(files[s], o)
    <2>1. FileOk(f)
        <3> DEFINE r == Records(files[s])
                   P == {i \in DOMAIN r : CompactionDrop(r, i, o) = "none"}
        <3>1. RecordsOk(r)
            BY RecordsRead DEF UpkeepInv, FilesOk
        <3>2. P \in SUBSET DOMAIN r
            OBVIOUS
        <3>3. f = WriteArchive(Kept(r, P))
            BY DEF CompactArchive
        <3> HIDE DEF f, r, P
        <3> QED
            BY <3>1, <3>2, <3>3, KeptOk, WrittenReadsBack
    <2>2. files' = Replaced(t, f) /\ Disturb /\ report'.operation = "compaction"
        BY <1>1 DEF Compact
    <2> HIDE DEF f
    <2>3. FilesOk(files')
        BY <2>1, <2>2, ReplacedOk DEF UpkeepInv
    <2>4. JobOk(job')
        BY <2>2, Disturbed DEF UpkeepInv
    <2> QED
        BY <2>2, <2>3, <2>4 DEF UpkeepInv, ReportOk
<1>2. ASSUME NEW path \in DOMAIN files, NEW o, NEW w, Repair(path, o, w) PROVE UpkeepInv'
    <2> DEFINE f == files[path]
               action == PlanRepair(f, o)
               target == IF action = "quarantine_file" THEN QuarantinePath[path] ELSE RepairedPath[path]
               moved == [p \in (DOMAIN files \ {path}) \cup {target} |-> IF p = target THEN files[path] ELSE files[p]]
               output == IF action = "no_op" THEN f ELSE files'[target]
    <2>1. /\ files' = CASE action = "no_op" -> files
                        [] action = "quarantine_file" -> moved
                        [] OTHER -> Replaced(target, RepairedFile(f, action))
          /\ report' = [operation |-> "repair", action |-> action, options |-> o, source |-> f, output |-> output]
          /\ Disturb
        BY <1>2 DEF Repair
    <2>2. FilesOk(files) /\ FileOk(f)
        BY DEF UpkeepInv, FilesOk
    <2>3. Planned(action, f, o)
        BY <2>2, PlannedAction
    <2>4. JobOk(job')
        BY <2>1, Disturbed DEF UpkeepInv
    <2>5. ASSUME FilesOk(files'), RepairedFaithfully(action, o, f, output) PROVE UpkeepInv'
        <3> HIDE DEF output, action, f
        <3>1. ReportOk(report')
            BY <2>1, <2>5 DEF ReportOk
        <3> QED
            BY <2>4, <2>5, <3>1 DEF UpkeepInv
    <2> HIDE DEF f, action
    <2>6. CASE action = "no_op"
        <3>1. files' = files /\ output = f
            BY <2>1, <2>6
        <3> HIDE DEF output
        <3>2. RepairedFaithfully(action, o, f, output)
            BY <2>2, <2>6, <3>1, RepairDone DEF action
        <3> QED
            BY <2>2, <2>5, <3>1, <3>2
    <2>7. CASE action = "quarantine_file"
        <3>1. files' = moved
            BY <2>1, <2>7
        <3>2. DOMAIN files' = (DOMAIN files \ {path}) \cup {target} /\ files' = [p \in DOMAIN files' |-> files'[p]]
              /\ \A p \in DOMAIN files' : files'[p] = IF p = target THEN f ELSE files[p]
            BY <3>1 DEF f
        <3>3. FilesOk(files')
            BY <2>2, <3>2 DEF FilesOk
        <3>4. output = f
            BY <2>7, <3>2
        <3> HIDE DEF output
        <3>5. RepairedFaithfully(action, o, f, output)
            BY <2>2, <2>7, <3>4, RepairDone DEF action
        <3> QED
            BY <2>5, <3>3, <3>5
    <2>8. CASE action \in {"rebuild_from_salvage", "rewrite_from_readable_records"}
        <3> DEFINE g == RepairedFile(f, action)
        <3>1. files' = Replaced(target, g)
            BY <2>1, <2>8
        <3>2. FileOk(g) /\ RepairedFaithfully(action, o, f, g)
            <4>1. action = PlanRepair(f, o) /\ action \notin {"no_op", "quarantine_file"}
                BY <2>8 DEF action
            <4> QED
                BY <2>2, <2>8, <4>1, RepairDone
        <3> HIDE DEF g
        <3>3. FilesOk(files') /\ files'[target] = g
            BY <2>2, <3>1, <3>2, ReplacedOk
        <3>4. output = g
            BY <2>8, <3>3
        <3> QED
            BY <2>5, <3>2, <3>3, <3>4
    <2> QED
        BY <2>3, <2>6, <2>7, <2>8 DEF Planned
<1> QED
    BY <1>1, <1>2

LEMMA OpensChanged ==
    ASSUME NEW f, f = [opens |-> f.opens, header |-> f.header, slots |-> f.slots], NEW v
    PROVE  [f EXCEPT !.opens = v] = [opens |-> v, header |-> f.header, slots |-> f.slots]
OBVIOUS

LEMMA SlotDamaged ==
    ASSUME NEW x, x = Slot(x.record, x.damage), NEW d
    PROVE  [x EXCEPT !.damage = d] = Slot(x.record, d)
BY DEF Slot

LEMMA DamagedOk ==
    ASSUME NEW f, FileOk(f), NEW i \in DOMAIN f.slots, NEW d
    PROVE  FileOk([f EXCEPT !.slots[i].damage = d])
<1> DEFINE t == [f.slots EXCEPT ![i].damage = d]
           g == [f EXCEPT !.slots[i].damage = d]
<1>1. f = [opens |-> f.opens, header |-> f.header, slots |-> f.slots]
    BY DEF FileOk
<1>2. \A k \in DOMAIN f.slots : f.slots[k] = Slot(f.slots[k].record, f.slots[k].damage) /\ IsRecord(f.slots[k].record)
    BY DEF FileOk
<1>3. g = [opens |-> f.opens, header |-> f.header, slots |-> t]
    BY <1>1
<1>4. DOMAIN f.slots = 1..Len(f.slots) /\ Len(f.slots) \in Nat
    BY ListedDomain DEF FileOk
<1>5. f.slots = [k \in 1..Len(f.slots) |-> f.slots[k]]
    BY <1>4 DEF FileOk, Listed
<1>6. t = [k \in 1..Len(f.slots) |-> t[k]] /\ \A k \in 1..Len(f.slots) : k # i => t[k] = f.slots[k]
    BY <1>4, <1>5
<1>7. t[i] = Slot(f.slots[i].record, d)
    <2> DEFINE x == f.slots[i]
    <2>1. t[i] = [x EXCEPT !.damage = d]
        BY <1>4, <1>5
    <2>2. x = Slot(x.record, x.damage)
        BY <1>2
    <2> HIDE DEF x, t
    <2>3. t[i] = Slot(x.record, d)
        BY <2>1, <2>2, SlotDamaged
    <2> QED
        BY <2>3 DEF x
<1> HIDE DEF t
<1>8. Listed(t) /\ DOMAIN t = 1..Len(f.slots)
    BY <1>4, <1>6, ListedBuilt
<1>9. \A k \in DOMAIN t : t[k] = Slot(t[k].record, t[k].damage) /\ IsRecord(t[k].record)
    <2>1. ASSUME NEW k \in DOMAIN t, k # i PROVE t[k] = Slot(t[k].record, t[k].damage) /\ IsRecord(t[k].record)
        BY <1>2, <1>4, <1>6, <1>8, <2>1
    <2>2. t[i] = Slot(t[i].record, t[i].damage) /\ IsRecord(t[i].record)
        <3>1. t[i].record = f.slots[i].record /\ t[i].damage = d
            BY <1>7 DEF Slot
        <3> QED
            BY <1>2, <1>7, <3>1
    <2> QED
        BY <2>1, <2>2
<1>10. FileOk(g)
    <2>1. g.slots = t /\ g = [opens |-> g.opens, header |-> g.header, slots |-> g.slots]
        BY <1>3
    <2> HIDE DEF g
    <2> QED
        BY <1>8, <1>9, <2>1 DEF FileOk
<1> QED
    BY <1>10

LEMMA StartDamagedOk ==
    ASSUME NEW f, FileOk(f)
    PROVE  FileOk([f EXCEPT !.opens = FALSE])
<1> DEFINE g == [f EXCEPT !.opens = FALSE]
<1>1. g = [opens |-> FALSE, header |-> f.header, slots |-> f.slots]
    BY OpensChanged DEF FileOk
<1> HIDE DEF g
<1>2. g.slots = f.slots /\ g = [opens |-> g.opens, header |-> g.header, slots |-> g.slots]
    BY <1>1
<1>3. FileOk(g)
    BY <1>2 DEF FileOk
<1> QED
    BY <1>3 DEF g

LEMMA UpkeepDamage ==
    ASSUME UpkeepInv,
           \/ \E p \in DOMAIN files, d \in Damages : \E i \in DOMAIN files[p].slots : DamageSlot(p, i, d)
           \/ \E p \in DOMAIN files : DamageStart(p)
    PROVE  UpkeepInv'
<1>1. ASSUME NEW path \in DOMAIN files, NEW g, FileOk(g), files' = [files EXCEPT ![path] = g],
             report' = NoReport, Disturb
      PROVE  UpkeepInv'
    <2>1. files = [p \in DOMAIN files |-> files[p]] /\ \A p \in DOMAIN files : FileOk(files[p])
        BY DEF UpkeepInv, FilesOk
    <2>2. /\ DOMAIN files' = DOMAIN files /\ files' = [p \in DOMAIN files' |-> files'[p]]
          /\ \A p \in DOMAIN files' : files'[p] = IF p = path THEN g ELSE files[p]
        BY <1>1, <2>1
    <2>3. FilesOk(files')
        BY <1>1, <2>1, <2>2 DEF FilesOk
    <2>4. JobOk(job')
        BY <1>1, Disturbed DEF UpkeepInv
    <2> QED
        BY <1>1, <2>3, <2>4, NoReportOk DEF UpkeepInv
<1>2. ASSUME NEW path \in DOMAIN files, NEW d, NEW i \in DOMAIN files[path].slots, DamageSlot(path, i, d) PROVE UpkeepInv'
    <2> DEFINE g == [files[path] EXCEPT !.slots[i].damage = d]
    <2>1. FileOk(files[path])
        BY DEF UpkeepInv, FilesOk
    <2>2. FileOk(g)
        <3> DEFINE f == files[path]
        <3>1. FileOk(f) /\ i \in DOMAIN f.slots
            BY <2>1
        <3> HIDE DEF f
        <3>2. FileOk([f EXCEPT !.slots[i].damage = d])
            BY <3>1, DamagedOk
        <3> QED
            BY <3>2 DEF f
    <2>3. files' = [files EXCEPT ![path] = g] /\ report' = NoReport /\ Disturb
        BY <1>2 DEF DamageSlot
    <2> HIDE DEF g
    <2> QED
        BY <1>1, <2>2, <2>3
<1>3. ASSUME NEW path \in DOMAIN files, DamageStart(path) PROVE UpkeepInv'
    <2> DEFINE f == files[path]
               g == [f EXCEPT !.opens = FALSE]
    <2>1. FileOk(f)
        BY DEF UpkeepInv, FilesOk
    <2>2. FileOk(g)
        <3> HIDE DEF f
        <3> QED
            BY <2>1, StartDamagedOk
    <2>3. files' = [files EXCEPT ![path] = g] /\ report' = NoReport /\ Disturb
        BY <1>3 DEF DamageStart
    <2> HIDE DEF g, f
    <2> QED
        BY <1>1, <2>2, <2>3
<1> QED
    BY <1>2, <1>3

LEMMA UpkeepNext == ASSUME StoreAssumption, UpkeepInv, [Next]_vars PROVE UpkeepInv'
<1>1. ASSUME UNCHANGED <<files, job, report>> PROVE UpkeepInv'
    BY <1>1 DEF UpkeepInv
<1>2. \A p : CatalogAdd(p) => UNCHANGED <<files, job, report>>
    BY DEF CatalogAdd
<1>3. \A p : CatalogRemove(p) => UNCHANGED <<files, job, report>>
    BY DEF CatalogRemove
<1>4. \A i : Collect(i) => UNCHANGED <<files, job, report>>
    BY DEF Collect
<1>5. \A r : AddTimeRange(r) => UNCHANGED <<files, job, report>>
    BY DEF AddTimeRange
<1>6. UNCHANGED vars => UNCHANGED <<files, job, report>>
    BY DEF vars
<1> QED
    BY <1>1, <1>2, <1>3, <1>4, <1>5, <1>6, UpkeepRotation, UpkeepMaintenance, UpkeepDamage DEF Next

\* Whatever was written, rotated, compacted and damaged before, and wherever a rotation crashed: a
\* repair that writes an archive puts in every record whose frame is whole, those before the first
\* damage unchanged and first, under a true header, so that the audit and the manifest then complain
\* of nothing but times out of order; and one that writes none had no more to save, or was not
\* allowed to.
THEOREM RepairsFaithful == Spec => []RepairFaithful
<1>1. Init => UpkeepInv
    BY UpkeepInit, StoreAssumption
<1>2. UpkeepInv /\ [Next]_vars => UpkeepInv'
    BY UpkeepNext, StoreAssumption
<1>3. UpkeepInv => RepairFaithful
    BY FaithfulReport
<1> QED
    BY <1>1, <1>2, <1>3, PTL DEF Spec
=============================================================================
