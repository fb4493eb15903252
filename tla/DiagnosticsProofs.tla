---------------------------- MODULE DiagnosticsProofs ----------------------------
(***************************************************************************)
(* Proofs about the diagnostics: stale metrics, rules on one metric,       *)
(* incident reports and the partition of an error budget, for all rules,   *)
(* metrics, objectives and times that satisfy DiagnosticsAssumption.       *)
(*                                                                         *)
(* Selecting and sorting samples, alerts, findings and events (copy_if,    *)
(* std::sort) numbers the positions chosen by how many of them come before *)
(* or are them; the numbering is a permutation because the order by two    *)
(* numbers and the position is total (RanksNumber, SortedEnumerates).      *)
(*                                                                         *)
(* Stale metrics: no kept sample is later than the clock (SamplesTyped),   *)
(* so as time passes samples only leave a window that ends now, and a rule *)
(* that found all of them too old finds what is left too old.              *)
(*                                                                         *)
(* Rules on one metric select the same samples, so what makes one of them  *)
(* fire is there for the other to see: the samples behind a rate that      *)
(* rises are samples between which the trend cannot be flat or falling.    *)
(*                                                                         *)
(* Reports: what a report is built from keeps its kinds (IsReport), a      *)
(* sorted timeline is a permutation of the events it was made of, and the  *)
(* finding on top is one than which none is more severe.                   *)
(*                                                                         *)
(* Budget: each instant of a range lies in the slice that starts at its    *)
(* home and in no other (SliceHome), so the sum over the slices of what    *)
(* they weigh is the sum over the range (SumParts), and when each slice    *)
(* keeps within its share of errors so does the whole.                     *)
(***************************************************************************)
EXTENDS Diagnostics, SumTheorems, SequenceTheorems

-----------------------------------------------------------------------------
(* Sequences laid out by the places of their elements.                     *)
\* t holds the elements of s at the positions P, in the order R.
Enumerates(t, s, P, R) ==
    /\ Len(t) = Cardinality(P)
    /\ \E at \in [1..Cardinality(P) -> P] :
        /\ \A k \in 1..Cardinality(P) : t[k] = s[at[k]]
        /\ \A k, l \in 1..Cardinality(P) : k <= l <=> <<at[k], at[l]>> \in R
        /\ \A i \in P : \E k \in 1..Cardinality(P) : at[k] = i

\* A sequence laid out by its places has each of its elements once, in their order.
LEMMA PlacedEnumerates ==
    ASSUME NEW P, IsFiniteSet(P), NEW R, Orders(R, P), NEW place, Numbering(place, R, P),
           NEW S, NEW s, \A i \in P : s[i] \in S
    PROVE  Placed(s, place) \in Seq(S) /\ Enumerates(Placed(s, place), s, P, R)
<1> DEFINE n == Cardinality(P)
           at == [k \in 1..n |-> CHOOSE i \in P : place[i] = k]
           t == [k \in 1..n |-> s[at[k]]]
<1>1. n \in Nat
    BY FS_CardinalityType
<1>2. DOMAIN place = P /\ \A i \in P : place[i] \in 1..n
    BY DEF Numbering
<1>3. ASSUME NEW k \in 1..n PROVE at[k] \in P /\ place[at[k]] = k
    BY DEF Numbering
<1>4. at \in [1..n -> P]
    BY <1>3
<1>5. \A k \in 1..n : t[k] = s[at[k]]
    OBVIOUS
<1>6. t \in Seq(S) /\ Len(t) = n /\ DOMAIN t = 1..n
    <2>1. \A k \in 1..n : s[at[k]] \in S
        BY <1>3
    <2> HIDE DEF at
    <2> QED
        BY <1>1, <2>1
<1>7. Placed(s, place) = t \o <<>>
    BY <1>2 DEF Placed
<1> HIDE DEF at, t, n
<1>8. Placed(s, place) = t
    BY <1>6, <1>7, ConcatEmptySeq
<1>9. ASSUME NEW k \in 1..n, NEW l \in 1..n PROVE k <= l <=> <<at[k], at[l]>> \in R
    BY <1>3 DEF Numbering
<1>10. ASSUME NEW i \in P PROVE \E k \in 1..n : at[k] = i
    <2>1. place[i] \in 1..n
        BY <1>2
    <2>2. at[place[i]] \in P /\ place[at[place[i]]] = place[i]
        BY <1>3, <2>1
    <2>3. <<at[place[i]], i>> \in R /\ <<i, at[place[i]]>> \in R
        <3>1. place[i] <= place[i]
            BY <1>1, <2>1
        <3> QED
            BY <2>2, <3>1 DEF Numbering
    <2>4. at[place[i]] = i
        BY <2>2, <2>3 DEF Orders
    <2> QED
        BY <2>1, <2>4
<1>11. Enumerates(t, s, P, R)
    BY <1>4, <1>5, <1>6, <1>9, <1>10 DEF Enumerates, n
<1> QED
    BY <1>6, <1>8, <1>11

\* The order of positions, and that of two numbers of them.
Along == {p \in Nat \X Nat : p[1] <= p[2]}

By(first, second, P) ==
    {p \in P \X P : \/ first[p[1]] < first[p[2]]
                    \/ first[p[1]] = first[p[2]] /\ second[p[1]] < second[p[2]]
                    \/ first[p[1]] = first[p[2]] /\ second[p[1]] = second[p[2]] /\ p[1] <= p[2]}

\* Elements chosen from a sequence (copy_if) keep the order they have in it.
LEMMA ChosenEnumerates ==
    ASSUME NEW S, NEW s \in Seq(S), NEW P \in SUBSET DOMAIN s
    PROVE  Chosen(s, P) \in Seq(S) /\ Enumerates(Chosen(s, P), s, P, Along)
<1>1. P \subseteq Nat /\ IsFiniteSet(P) /\ \A i \in P : s[i] \in S
    <2>1. DOMAIN s = 1..Len(s) /\ Len(s) \in Nat
        OBVIOUS
    <2>2. IsFiniteSet(1..Len(s))
        BY <2>1, FS_Interval
    <2> QED
        BY <2>1, <2>2, FS_Subset
<1>2. Orders(Along, P)
    BY <1>1 DEF Orders, Along
<1>3. [i \in P |-> Cardinality({j \in P : j <= i})] = Ranks(Along, P)
    <2>1. \A i \in P : {j \in P : j <= i} = {j \in P : <<j, i>> \in Along}
        BY <1>1 DEF Along
    <2> QED
        BY <2>1 DEF Ranks
<1>4. Numbering(Ranks(Along, P), Along, P)
    BY <1>1, <1>2, RanksNumber
<1>5. Chosen(s, P) = Placed(s, Ranks(Along, P))
    BY <1>3 DEF Chosen
<1> QED
    BY <1>1, <1>2, <1>4, <1>5, PlacedEnumerates

\* Pairs that are compared by one number and then by another, and last by where they stand.
LEMMA Lexicographic ==
    ASSUME NEW a1 \in Int, NEW a2 \in Int, NEW a3 \in Int, NEW b1 \in Int, NEW b2 \in Int, NEW b3 \in Int,
           NEW c1 \in Int, NEW c2 \in Int, NEW c3 \in Int,
           a1 < b1 \/ (a1 = b1 /\ a2 < b2) \/ (a1 = b1 /\ a2 = b2 /\ a3 <= b3),
           b1 < c1 \/ (b1 = c1 /\ b2 < c2) \/ (b1 = c1 /\ b2 = c2 /\ b3 <= c3)
    PROVE  a1 < c1 \/ (a1 = c1 /\ a2 < c2) \/ (a1 = c1 /\ a2 = c2 /\ a3 <= c3)
OBVIOUS

\* Sorting by two numbers (std::sort) yields a permutation in the order of the two.
LEMMA SortedEnumerates ==
    ASSUME NEW S, NEW s \in Seq(S), NEW first, NEW second,
           \A i \in DOMAIN s : first[i] \in Int /\ second[i] \in Int
    PROVE  /\ Sorted(s, first, second) \in Seq(S)
           /\ Enumerates(Sorted(s, first, second), s, DOMAIN s, By(first, second, DOMAIN s))
<1> DEFINE P == DOMAIN s
           R == By(first, second, P)
<1>1. P \subseteq Nat /\ IsFiniteSet(P) /\ \A i \in P : s[i] \in S
    <2>1. DOMAIN s = 1..Len(s) /\ Len(s) \in Nat
        OBVIOUS
    <2>2. IsFiniteSet(1..Len(s))
        BY <2>1, FS_Interval
    <2> QED
        BY <2>1, <2>2
<1> HIDE DEF P
<1>2. \A i \in P : first[i] \in Int /\ second[i] \in Int /\ i \in Int
    BY <1>1 DEF P
<1>3. \A i, j \in P : <<i, j>> \in R <=>
        \/ first[i] < first[j]
        \/ first[i] = first[j] /\ second[i] < second[j]
        \/ first[i] = first[j] /\ second[i] = second[j] /\ i <= j
    BY DEF By
<1> HIDE DEF R
<1>4. Orders(R, P)
    <2>1. ASSUME NEW i \in P, NEW j \in P PROVE <<i, j>> \in R \/ <<j, i>> \in R
        <3>1. /\ first[i] \in Int /\ second[i] \in Int /\ i \in Int
              /\ first[j] \in Int /\ second[j] \in Int /\ j \in Int
            BY <1>2
        <3>2. \/ first[i] < first[j] \/ first[j] < first[i]
              \/ first[i] = first[j] /\ (second[i] < second[j] \/ second[j] < second[i])
              \/ first[i] = first[j] /\ second[i] = second[j] /\ (i <= j \/ j <= i)
            BY <3>1
        <3> QED
            BY <1>3, <3>2
    <2>2. \A i, j \in P : <<i, j>> \in R /\ <<j, i>> \in R => i = j
        BY <1>2, <1>3
    <2>3. ASSUME NEW i \in P, NEW j \in P, NEW k \in P, <<i, j>> \in R, <<j, k>> \in R PROVE <<i, k>> \in R
        <3> DEFINE a1 == first[i]  a2 == second[i]  b1 == first[j]  b2 == second[j]  c1 == first[k]  c2 == second[k]
        <3>1. /\ a1 \in Int /\ a2 \in Int /\ i \in Int /\ b1 \in Int /\ b2 \in Int /\ j \in Int
              /\ c1 \in Int /\ c2 \in Int /\ k \in Int
            BY <1>2
        <3>2. /\ a1 < b1 \/ (a1 = b1 /\ a2 < b2) \/ (a1 = b1 /\ a2 = b2 /\ i <= j)
              /\ b1 < c1 \/ (b1 = c1 /\ b2 < c2) \/ (b1 = c1 /\ b2 = c2 /\ j <= k)
            BY <1>3, <2>3
        <3>4. (a1 < c1 \/ (a1 = c1 /\ a2 < c2) \/ (a1 = c1 /\ a2 = c2 /\ i <= k)) => <<i, k>> \in R
            BY <1>3
        <3> HIDE DEF a1, a2, b1, b2, c1, c2
        <3>3. a1 < c1 \/ (a1 = c1 /\ a2 < c2) \/ (a1 = c1 /\ a2 = c2 /\ i <= k)
            BY <3>1, <3>2, Lexicographic
        <3> QED
            BY <3>3, <3>4
    <2> QED
        BY <2>1, <2>2, <2>3 DEF Orders
<1>5. Numbering(Ranks(R, P), R, P)
    BY <1>1, <1>4, RanksNumber
<1> DEFINE NotAfter(j, i) == \/ first[j] < first[i]
                             \/ first[j] = first[i] /\ second[j] < second[i]
                             \/ first[j] = first[i] /\ second[j] = second[i] /\ j <= i
<1>6. Sorted(s, first, second) = Placed(s, [i \in P |-> Cardinality({j \in P : NotAfter(j, i)})])
    BY DEF Sorted, P
<1>7. [i \in P |-> Cardinality({j \in P : NotAfter(j, i)})] = Ranks(R, P)
    <2>1. \A i, j \in P : NotAfter(j, i) <=> <<j, i>> \in R
        BY <1>3
    <2> HIDE DEF NotAfter
    <2>2. ASSUME NEW i \in P PROVE {j \in P : NotAfter(j, i)} = {j \in P : <<j, i>> \in R}
        BY <2>1
    <2>3. \A i \in P : Cardinality({j \in P : NotAfter(j, i)}) = Cardinality({j \in P : <<j, i>> \in R})
        BY <2>2
    <2> QED
        BY <2>3 DEF Ranks
<1> HIDE DEF NotAfter
<1>8. Sorted(s, first, second) = Placed(s, Ranks(R, P))
    BY <1>6, <1>7
<1>9. Placed(s, Ranks(R, P)) \in Seq(S) /\ Enumerates(Placed(s, Ranks(R, P)), s, P, R)
    BY <1>1, <1>4, <1>5, PlacedEnumerates
<1> QED
    BY <1>8, <1>9 DEF P, R

-----------------------------------------------------------------------------
(* What is selected from the samples. *)
Sample == [identity : {r.identity : r \in Reading}, kind : Kinds, value : Int, time : Nat]

NotLater(s, time) == \A i \in DOMAIN s : s[i].time <= time

IsContext(c) ==
    /\ c.now \in Nat
    /\ c.current.samples \in Seq(Sample) /\ NotLater(c.current.samples, c.now)
    /\ c.history \in Seq(Sample) /\ NotLater(c.history, c.now)

\* Everything known of a metric in a context.
Known(c) == c.history \o c.current.samples

\* An element of a concatenation is one of the first sequence or of the second.
LEMMA ConcatAt ==
    ASSUME NEW S, NEW a \in Seq(S), NEW b \in Seq(S), NEW i \in DOMAIN (a \o b)
    PROVE  \/ i \in DOMAIN a /\ (a \o b)[i] = a[i]
           \/ i - Len(a) \in DOMAIN b /\ (a \o b)[i] = b[i - Len(a)]
<1>1. /\ DOMAIN (a \o b) = 1..(Len(a) + Len(b)) /\ DOMAIN a = 1..Len(a) /\ DOMAIN b = 1..Len(b)
      /\ Len(a) \in Nat /\ Len(b) \in Nat
    OBVIOUS
<1>2. CASE i <= Len(a)
    <2>1. i \in 1..Len(a) /\ (a \o b)[i] = a[i]
        BY <1>1, <1>2
    <2> QED
        BY <1>1, <2>1
<1>3. CASE i > Len(a)
    <2>1. i - Len(a) \in 1..Len(b) /\ (a \o b)[i] = b[i - Len(a)]
        BY <1>1, <1>3
    <2> QED
        BY <1>1, <2>1
<1> QED
    BY <1>1, <1>2, <1>3

\* The samples a builder starts from, none of which carries a time to come.
LEMMA KnownTyped ==
    ASSUME NEW c, IsContext(c)
    PROVE  Known(c) \in Seq(Sample) /\ NotLater(Known(c), c.now)
<1>1. Known(c) \in Seq(Sample)
    BY DEF IsContext, Known
<1>2. ASSUME NEW i \in DOMAIN Known(c) PROVE Known(c)[i].time <= c.now
    <2>1. c.history \in Seq(Sample) /\ c.current.samples \in Seq(Sample)
        BY DEF IsContext
    <2>2. \/ i \in DOMAIN c.history /\ Known(c)[i] = c.history[i]
          \/ i - Len(c.history) \in DOMAIN c.current.samples
             /\ Known(c)[i] = c.current.samples[i - Len(c.history)]
        BY <2>1, ConcatAt DEF Known
    <2> QED
        BY <2>2 DEF IsContext, NotLater
<1> QED
    BY <1>1, <1>2 DEF NotLater

\* The history of a metric: its samples of the window, by time.
IsHistory(h, condition, c, window) ==
    /\ h \in Seq(Sample)
    /\ \A x : x \in Range(h) <=>
        \E i \in DOMAIN Known(c) : /\ x = Known(c)[i] /\ Concerns(condition, x)
                                   /\ x.time \in WindowStart(c.now, window)..c.now
    /\ \A k, l \in DOMAIN h : k <= l => h[k].time <= h[l].time

\* What the history of a rule holds: the samples of its metric and window, by time.
LEMMA HistorySelected ==
    ASSUME NEW c, IsContext(c), NEW condition, NEW window
    PROVE  IsHistory(SelectHistory(condition, c, window), condition, c, window)
<1> DEFINE h == SelectHistory(condition, c, window)
           s == Known(c)
           In(x) == Concerns(condition, x) /\ x.time \in WindowStart(c.now, window)..c.now
           P == {i \in DOMAIN s : In(s[i])}
           t == Chosen(s, P)
<1>1. s \in Seq(Sample)
    BY KnownTyped
<1>2. h = Sorted(t, Times(t), Alike(t))
    BY DEF SelectHistory, Known
<1> HIDE DEF h, s, t
<1>3. t \in Seq(Sample) /\ Enumerates(t, s, P, Along)
    BY <1>1, ChosenEnumerates DEF t
<1>4. \A i \in DOMAIN t : Times(t)[i] \in Int /\ Alike(t)[i] \in Int /\ Times(t)[i] = t[i].time
    <2>1. \A i \in DOMAIN t : t[i] \in Sample
        BY <1>3
    <2>2. \A i \in DOMAIN t : t[i].time \in Int
        BY <2>1 DEF Sample
    <2> QED
        BY <2>2 DEF Times, Alike
<1> DEFINE R == By(Times(t), Alike(t), DOMAIN t)
<1>5. h \in Seq(Sample) /\ Enumerates(h, t, DOMAIN t, R)
    BY <1>2, <1>3, <1>4, SortedEnumerates
<1>6. PICK a \in [1..Cardinality(P) -> P] :
        /\ \A k \in 1..Cardinality(P) : t[k] = s[a[k]]
        /\ \A i \in P : \E k \in 1..Cardinality(P) : a[k] = i
    BY <1>3 DEF Enumerates
<1>7. PICK b \in [1..Cardinality(DOMAIN t) -> DOMAIN t] :
        /\ \A k \in 1..Cardinality(DOMAIN t) : h[k] = t[b[k]]
        /\ \A k, l \in 1..Cardinality(DOMAIN t) : k <= l <=> <<b[k], b[l]>> \in R
        /\ \A i \in DOMAIN t : \E k \in 1..Cardinality(DOMAIN t) : b[k] = i
    BY <1>5 DEF Enumerates
<1>8. DOMAIN t = 1..Cardinality(P) /\ DOMAIN h = 1..Cardinality(DOMAIN t)
    BY <1>3, <1>5 DEF Enumerates
<1>9. ASSUME NEW x PROVE x \in Range(h) <=> \E i \in DOMAIN s : x = s[i] /\ In(x)
    <2> HIDE DEF In, R
    <2>1. ASSUME x \in Range(h) PROVE \E i \in DOMAIN s : x = s[i] /\ In(x)
        <3>1. PICK k \in DOMAIN h : x = h[k]
            BY <2>1 DEF Range
        <3>2. b[k] \in DOMAIN t /\ x = t[b[k]]
            BY <1>7, <1>8, <3>1
        <3>3. a[b[k]] \in P /\ x = s[a[b[k]]]
            BY <1>6, <1>8, <3>2
        <3> QED
            BY <3>3
    <2>2. ASSUME NEW i \in DOMAIN s, x = s[i], In(x) PROVE x \in Range(h)
        <3>1. i \in P
            BY <2>2
        <3>2. PICK k \in DOMAIN t : a[k] = i
            BY <1>6, <1>8, <3>1
        <3>3. PICK l \in DOMAIN h : b[l] = k
            BY <1>7, <1>8, <3>2
        <3>4. h[l] = x
            BY <1>6, <1>7, <1>8, <2>2, <3>2, <3>3
        <3> QED
            BY <3>4 DEF Range
    <2> QED
        BY <2>1, <2>2
<1>10. ASSUME NEW k \in DOMAIN h, NEW l \in DOMAIN h, k <= l PROVE h[k].time <= h[l].time
    <2>1. <<b[k], b[l]>> \in R /\ b[k] \in DOMAIN t /\ b[l] \in DOMAIN t
        BY <1>7, <1>8, <1>10
    <2>2. t[b[k]].time <= t[b[l]].time
        <3>1. /\ Times(t)[b[k]] \in Int /\ Times(t)[b[l]] \in Int
              /\ Times(t)[b[k]] = t[b[k]].time /\ Times(t)[b[l]] = t[b[l]].time
            BY <1>4, <2>1
        <3>2. Times(t)[b[k]] < Times(t)[b[l]] \/ Times(t)[b[k]] = Times(t)[b[l]]
            BY <2>1 DEF By
        <3> QED
            BY <3>1, <3>2
    <2> QED
        BY <1>7, <1>8, <2>2
<1> QED
    BY <1>5, <1>9, <1>10 DEF IsHistory, h, s

\* The newest sample, the last of those of equal time.
LEMMA NewestIsLast ==
    ASSUME NEW s \in Seq(Sample), s # <<>>, NEW n \in Nat, NotLater(s, n)
    PROVE  \E m \in DOMAIN s : /\ Newest(s) = s[m]
                               /\ \A j \in DOMAIN s : s[j].time <= s[m].time
                               /\ \A j \in DOMAIN s : j > m => s[j].time < s[m].time
<1> DEFINE T == {s[i].time + 1 : i \in DOMAIN s}
           M == {i \in DOMAIN s : \A j \in DOMAIN s : s[j].time <= s[i].time}
<1>1. DOMAIN s = 1..Len(s) /\ Len(s) \in Nat /\ 1 \in DOMAIN s
    OBVIOUS
<1>2. \A i \in DOMAIN s : s[i].time \in Nat /\ s[i].time <= n
    <2>1. \A i \in DOMAIN s : s[i] \in Sample
        OBVIOUS
    <2> QED
        BY <2>1 DEF Sample, NotLater
<1>3. T \subseteq 1..(n + 1) /\ T # {}
    BY <1>1, <1>2
<1> HIDE DEF T
<1>4. PICK t \in T : \A k \in T : k <= t
    <2>1. n + 1 \in Nat
        OBVIOUS
    <2> QED
        BY <1>3, <2>1, GreatestNumber
<1>5. PICK i \in DOMAIN s : t = s[i].time + 1
    BY DEF T
<1>6. ASSUME NEW j \in DOMAIN s PROVE s[j].time <= s[i].time
    <2>1. s[j].time + 1 \in T
        BY DEF T
    <2>2. s[j].time + 1 <= s[i].time + 1
        BY <1>4, <1>5, <2>1
    <2>3. s[j].time \in Nat /\ s[i].time \in Nat
        BY <1>2
    <2> QED
        BY <2>2, <2>3
<1>7. M \subseteq 1..Len(s) /\ M # {}
    BY <1>1, <1>6
<1> HIDE DEF M
<1>8. PICK m \in M : \A k \in M : k <= m
    BY <1>1, <1>7, GreatestNumber
<1>9. Max(M) = m
    <2>1. \A k \in M : k \in Int
        BY <1>7
    <2>2. m \in M /\ \A k \in M : m >= k
        BY <1>8, <2>1
    <2>3. \A x \in M : (\A k \in M : x >= k) => x = m
        BY <2>1, <2>2
    <2>4. Max(M) \in M /\ \A k \in M : Max(M) >= k
        BY <2>2 DEF Max
    <2> QED
        BY <2>3, <2>4
<1>10. Newest(s) = s[m]
    BY <1>9 DEF Newest, M
<1>11. m \in DOMAIN s /\ \A j \in DOMAIN s : s[j].time <= s[m].time
    BY DEF M
<1>12. ASSUME NEW j \in DOMAIN s, j > m PROVE s[j].time < s[m].time
    <2>1. s[j].time \in Nat /\ s[m].time \in Nat /\ s[j].time <= s[m].time /\ m \in Int /\ j \in Int
        BY <1>1, <1>2, <1>11
    <2>2. CASE s[j].time = s[m].time
        <3>1. j \in M
            BY <1>11, <2>2 DEF M
        <3>2. j <= m
            BY <1>8, <3>1
        <3> QED
            BY <1>12, <2>1, <3>2
    <2> QED
        BY <2>1, <2>2
<1> QED
    BY <1>10, <1>11, <1>12

\* What the newest builder's samples say of a metric.
LEMMA CurrentSelected ==
    ASSUME NEW c, IsContext(c), NEW condition
    PROVE  /\ SelectCurrentSamples(condition, c) \in Seq(Sample)
           /\ NotLater(SelectCurrentSamples(condition, c), c.now)
           /\ SelectCurrentSamples(condition, c) = <<>> <=>
                \A i \in DOMAIN c.current.samples : ~Concerns(condition, c.current.samples[i])
<1> DEFINE s == c.current.samples
           P == {i \in DOMAIN s : Concerns(condition, s[i])}
           t == SelectCurrentSamples(condition, c)
<1>1. t = Chosen(s, P)
    BY DEF SelectCurrentSamples
<1>2. s \in Seq(Sample) /\ NotLater(s, c.now)
    BY DEF IsContext
<1> HIDE DEF s, t
<1>3. t \in Seq(Sample) /\ Enumerates(t, s, P, Along)
    BY <1>1, <1>2, ChosenEnumerates
<1>4. PICK a \in [1..Cardinality(P) -> P] :
        /\ \A k \in 1..Cardinality(P) : t[k] = s[a[k]]
        /\ \A i \in P : \E k \in 1..Cardinality(P) : a[k] = i
    BY <1>3 DEF Enumerates
<1>5. DOMAIN t = 1..Cardinality(P)
    BY <1>3 DEF Enumerates
<1>6. ASSUME NEW k \in DOMAIN t PROVE t[k].time <= c.now
    <2>1. a[k] \in P /\ t[k] = s[a[k]]
        BY <1>4, <1>5
    <2> QED
        BY <1>2, <2>1 DEF NotLater
<1>7. t = <<>> <=> P = {}
    <2>1. CASE P = {}
        <3>1. Cardinality(P) = 0
            BY <2>1, FS_EmptySet
        <3> QED
            BY <1>3, <1>5, <2>1, <3>1
    <2>2. CASE P # {}
        <3>1. PICK i \in P : TRUE
            BY <2>2
        <3>2. \E k \in DOMAIN t : TRUE
            BY <1>4, <1>5, <3>1
        <3> QED
            BY <2>2, <3>2
    <2> QED
        BY <2>1, <2>2
<1>8. P = {} <=> \A i \in DOMAIN s : ~Concerns(condition, s[i])
    OBVIOUS
<1> QED
    BY <1>3, <1>6, <1>7, <1>8 DEF NotLater, s, t

-----------------------------------------------------------------------------
(* Stale metrics: a rule on the age of a metric, at one time and at later    *)
(* ones.                                                                     *)
\* What a stale rule looks at are samples, none of them from later than the evaluation.
LEMMA CandidatesTyped ==
    ASSUME NEW c, IsContext(c), NEW r
    PROVE  StaleCandidates(r, c) \in Seq(Sample) /\ NotLater(StaleCandidates(r, c), c.now)
<1> DEFINE w == IF r.window = 0 THEN r.condition.max_age ELSE r.window
           h == SelectHistory(r.condition, c, w)
<1>1. StaleCandidates(r, c) = IF SelectCurrentSamples(r.condition, c) # <<>>
                              THEN SelectCurrentSamples(r.condition, c) ELSE h
    BY DEF StaleCandidates
<1> HIDE DEF w
<1>2. IsHistory(h, r.condition, c, w)
    BY HistorySelected
<1> HIDE DEF h
<1>3. h \in Seq(Sample) /\ NotLater(h, c.now)
    <2>1. h \in Seq(Sample)
        BY <1>2 DEF IsHistory
    <2>2. ASSUME NEW k \in DOMAIN h PROVE h[k].time <= c.now
        <3>1. h[k] \in Range(h)
            BY DEF Range
        <3>2. h[k].time \in WindowStart(c.now, w)..c.now
            BY <1>2, <3>1 DEF IsHistory
        <3> QED
            BY <3>2
    <2> QED
        BY <2>1, <2>2 DEF NotLater
<1> QED
    BY <1>1, <1>3, CurrentSelected

\* A stale rule holds exactly when every candidate is older than the age it allows.
LEMMA StaleVerdict ==
    ASSUME NEW c, IsContext(c), NEW r, r.condition.max_age \in Nat
    PROVE  EvaluateStale(r, c).state \in {"active", "no_data"} <=>
            \A x \in Range(StaleCandidates(r, c)) : c.now - x.time > r.condition.max_age
<1> DEFINE s == StaleCandidates(r, c)
           age == Max({0, c.now - Newest(s).time})
<1>1. s \in Seq(Sample) /\ NotLater(s, c.now) /\ c.now \in Nat
    BY CandidatesTyped DEF IsContext
<1>2. EvaluateStale(r, c) = IF s = <<>> THEN Evaluation(r, c, "no_data")
                            ELSE Evaluation(r, c, MatchState(age > r.condition.max_age))
    BY DEF EvaluateStale
<1>3. CASE s = <<>>
    <2>1. EvaluateStale(r, c).state = "no_data"
        BY <1>2, <1>3 DEF Evaluation
    <2>2. Range(s) = {}
        BY <1>3 DEF Range
    <2> QED
        BY <2>1, <2>2
<1>4. CASE s # <<>>
    <2>1. EvaluateStale(r, c).state = MatchState(age > r.condition.max_age)
        BY <1>2, <1>4 DEF Evaluation
    <2> HIDE DEF s, age
    <2>2. PICK m \in DOMAIN s : Newest(s) = s[m] /\ \A j \in DOMAIN s : s[j].time <= s[m].time
        BY <1>1, <1>4, NewestIsLast
    <2>3. \A j \in DOMAIN s : s[j].time \in Nat /\ s[j].time <= c.now
        <3>1. \A j \in DOMAIN s : s[j] \in Sample
            BY <1>1
        <3> QED
            BY <1>1, <3>1 DEF Sample, NotLater
    <2>4. age = c.now - s[m].time
        <3> DEFINE d == c.now - s[m].time
        <3>1. d \in Nat
            BY <1>1, <2>3
        <3>2. age = Max({0, d})
            BY <2>2 DEF age
        <3> HIDE DEF d
        <3>3. d \in {0, d} /\ \A y \in {0, d} : d >= y
            BY <3>1
        <3>4. \A x \in {0, d} : (\A y \in {0, d} : x >= y) => x = d
            BY <3>1
        <3>5. Max({0, d}) \in {0, d} /\ \A y \in {0, d} : Max({0, d}) >= y
            BY <3>3 DEF Max
        <3> QED
            BY <3>2, <3>4, <3>5 DEF d
    <2>5. age > r.condition.max_age <=> \A x \in Range(s) : c.now - x.time > r.condition.max_age
        <3>1. ASSUME age > r.condition.max_age, NEW x \in Range(s) PROVE c.now - x.time > r.condition.max_age
            <4>1. PICK j \in DOMAIN s : x = s[j]
                BY DEF Range
            <4>2. /\ s[j].time \in Nat /\ s[m].time \in Nat /\ s[j].time <= s[m].time
                  /\ c.now - s[m].time > r.condition.max_age
                BY <2>2, <2>3, <2>4, <3>1
            <4> QED
                BY <1>1, <4>1, <4>2
        <3>2. ASSUME \A x \in Range(s) : c.now - x.time > r.condition.max_age PROVE age > r.condition.max_age
            <4>1. s[m] \in Range(s)
                BY DEF Range
            <4> QED
                BY <2>4, <3>2, <4>1
        <3> QED
            BY <3>1, <3>2
    <2> QED
        BY <2>1, <2>5 DEF MatchState, s
<1> QED
    BY <1>3, <1>4

\* What is passed by when only the clock goes on.
LaterOnly(c, d) == c.current = d.current /\ c.history = d.history /\ d.now = c.now + 1

\* As time passes without new samples, candidates leave the window and none enters it.
LEMMA CandidatesLeave ==
    ASSUME NEW c, IsContext(c), NEW d, IsContext(d), LaterOnly(c, d),
           NEW r, r.window \in Nat, r.condition.max_age \in Nat
    PROVE  Range(StaleCandidates(r, d)) \subseteq Range(StaleCandidates(r, c))
<1> DEFINE w == IF r.window = 0 THEN r.condition.max_age ELSE r.window
           hc == SelectHistory(r.condition, c, w)
           hd == SelectHistory(r.condition, d, w)
           selected == SelectCurrentSamples(r.condition, c)
<1>1. SelectCurrentSamples(r.condition, d) = selected
    BY DEF SelectCurrentSamples, LaterOnly
<1>2. /\ StaleCandidates(r, c) = IF selected # <<>> THEN selected ELSE hc
      /\ StaleCandidates(r, d) = IF selected # <<>> THEN selected ELSE hd
    BY <1>1 DEF StaleCandidates
<1>3. w \in Nat
    OBVIOUS
<1> HIDE DEF w
<1>4. IsHistory(hc, r.condition, c, w) /\ IsHistory(hd, r.condition, d, w)
    BY HistorySelected
<1> HIDE DEF hc, hd, selected
<1>5. Known(d) = Known(c) /\ NotLater(Known(c), c.now) /\ d.now = c.now + 1 /\ c.now \in Nat
    BY KnownTyped DEF Known, LaterOnly, IsContext
<1>6. Known(c) \in Seq(Sample)
    BY KnownTyped
<1>7. ASSUME NEW x \in Range(hd) PROVE x \in Range(hc)
    <2>1. PICK i \in DOMAIN Known(c) : /\ x = Known(c)[i] /\ Concerns(r.condition, x)
                                       /\ x.time \in WindowStart(c.now + 1, w)..(c.now + 1)
        BY <1>4, <1>5 DEF IsHistory
    <2>2. x.time \in Nat /\ x.time <= c.now
        <3>1. x \in Sample
            BY <1>6, <2>1
        <3> QED
            BY <1>5, <2>1, <3>1 DEF Sample, NotLater
    <2>3. WindowStart(c.now, w) <= WindowStart(c.now + 1, w) /\ WindowStart(c.now, w) \in Nat
          /\ WindowStart(c.now + 1, w) \in Nat
        BY <1>3, <1>5 DEF WindowStart
    <2>4. x.time \in WindowStart(c.now, w)..c.now
        BY <1>5, <2>1, <2>2, <2>3
    <2> QED
        BY <1>4, <2>1, <2>4 DEF IsHistory
<1> QED
    BY <1>2, <1>7

\* A metric that was stale, or gone, is so at every later time, unless the rule is suppressed.
LEMMA StaysStale ==
    ASSUME NEW c, IsContext(c), NEW d, IsContext(d), LaterOnly(c, d),
           NEW r, IsRule(r), r.condition.kind = "stale",
           EvaluateAlertRule(r, c).state \in {"active", "no_data"}
    PROVE  EvaluateAlertRule(r, d).state \in {"active", "no_data", "suppressed"}
<1>1. r.window \in Nat /\ r.condition.max_age \in Nat
    BY DEF IsRule, IsCondition
<1>2. r.enabled /\ EvaluateStale(r, c).state \in {"active", "no_data"}
    BY DEF EvaluateAlertRule, Evaluation
<1>3. \A x \in Range(StaleCandidates(r, c)) : c.now - x.time > r.condition.max_age
    BY <1>1, <1>2, StaleVerdict
<1>4. ASSUME NEW x \in Range(StaleCandidates(r, d)) PROVE d.now - x.time > r.condition.max_age
    <2>1. x \in Range(StaleCandidates(r, c))
        BY <1>1, CandidatesLeave
    <2>2. c.now - x.time > r.condition.max_age
        BY <1>3, <2>1
    <2>3. x.time \in Nat
        <3>1. StaleCandidates(r, c) \in Seq(Sample)
            BY CandidatesTyped
        <3>2. x \in Sample
            BY <2>1, <3>1 DEF Range
        <3> QED
            BY <3>2 DEF Sample
    <2> QED
        BY <1>1, <2>2, <2>3 DEF LaterOnly, IsContext
<1>5. EvaluateStale(r, d).state \in {"active", "no_data"}
    BY <1>1, <1>4, StaleVerdict
<1>6. EvaluateAlertRule(r, d).state \in {"suppressed"} \/ EvaluateAlertRule(r, d) = EvaluateStale(r, d)
    BY <1>2 DEF EvaluateAlertRule, Evaluation
<1> QED
    BY <1>5, <1>6

-----------------------------------------------------------------------------
(* The samples keep their types and carry no time to come. *)
IsSnapshot(s) ==
    s.samples \in Seq(Sample) /\ s.capture_time \in Nat /\ NotLater(s.samples, s.capture_time)

SamplesTyped ==
    /\ now \in Nat
    /\ IsSnapshot(current) /\ NotLater(current.samples, now)
    /\ IsSnapshot(previous)
    /\ history \in Seq(Sample) /\ NotLater(history, now)

\* The context that the rules are evaluated in is made of such samples.
LEMMA TypedContext ==
    ASSUME SamplesTyped
    PROVE  IsContext(Context)
BY DEF SamplesTyped, IsSnapshot, IsContext, Context

\* A sample that is not later may be added.
LEMMA NotLaterAppended ==
    ASSUME NEW s \in Seq(Sample), NEW x \in Sample, NEW n, NotLater(s, n), x.time <= n
    PROVE  NotLater(Append(s, x), n)
<1>1. /\ DOMAIN Append(s, x) = 1..(Len(s) + 1) /\ DOMAIN s = 1..Len(s) /\ Len(s) \in Nat
      /\ \A i \in 1..(Len(s) + 1) : Append(s, x)[i] = IF i = Len(s) + 1 THEN x ELSE s[i]
    OBVIOUS
<1>2. ASSUME NEW i \in DOMAIN Append(s, x) PROVE Append(s, x)[i].time <= n
    <2>1. CASE i = Len(s) + 1
        BY <1>1, <2>1
    <2>2. CASE i # Len(s) + 1
        <3>1. i \in DOMAIN s /\ Append(s, x)[i] = s[i]
            BY <1>1, <2>2
        <3> QED
            BY <3>1 DEF NotLater
    <2> QED
        BY <2>1, <2>2
<1> QED
    BY <1>2 DEF NotLater

\* What is not later now is not later afterwards.
LEMMA NotLaterLater ==
    ASSUME NEW s \in Seq(Sample), NEW m \in Nat, NEW n \in Nat, NotLater(s, m), m <= n
    PROVE  NotLater(s, n)
<1>1. ASSUME NEW i \in DOMAIN s PROVE s[i].time <= n
    <2>1. s[i] \in Sample
        OBVIOUS
    <2>2. s[i].time \in Nat /\ s[i].time <= m
        BY <2>1 DEF Sample, NotLater
    <2> QED
        BY <2>2
<1> QED
    BY <1>1 DEF NotLater

\* Adding a sample to a snapshot moves its capture time up when the sample is later.
LEMMA SampleAdded ==
    ASSUME NEW s, IsSnapshot(s), NEW x \in Sample
    PROVE  IsSnapshot(SnapshotAdd(s, x))
<1> DEFINE a == s.capture_time
           b == x.time
           m == Max({a, b})
<1>1. a \in Nat /\ b \in Nat /\ s.samples \in Seq(Sample) /\ NotLater(s.samples, a)
    BY DEF IsSnapshot, Sample
<1>2. SnapshotAdd(s, x) = [samples |-> Append(s.samples, x), capture_time |-> m]
    BY DEF SnapshotAdd
<1>3. \E y \in {a, b} : \A z \in {a, b} : y >= z
    <2> HIDE DEF a, b
    <2>1. CASE a <= b
        BY <1>1, <2>1
    <2>2. CASE b <= a
        BY <1>1, <2>2
    <2> QED
        BY <1>1, <2>1, <2>2
<1>4. m \in {a, b} /\ \A z \in {a, b} : m >= z
    BY <1>3 DEF Max
<1> HIDE DEF a, b, m
<1>5. m \in Nat /\ a <= m /\ b <= m
    BY <1>1, <1>4
<1>6. NotLater(s.samples, m)
    BY <1>1, <1>5, NotLaterLater
<1>7. NotLater(Append(s.samples, x), m)
    BY <1>1, <1>5, <1>6, NotLaterAppended DEF b
<1>8. Append(s.samples, x) \in Seq(Sample)
    BY <1>1
<1> QED
    BY <1>2, <1>5, <1>7, <1>8 DEF IsSnapshot

\* The samples that are kept are samples, none of them from later than the clock.
LEMMA SamplesAlways == Spec => []SamplesTyped
<1>1. Init => SamplesTyped
    <2> SUFFICES ASSUME Init PROVE SamplesTyped
        OBVIOUS
    <2>1. now = 0 /\ current = EmptySnapshot /\ previous = EmptySnapshot /\ history = <<>>
        BY DEF Init
    <2>2. IsSnapshot(EmptySnapshot)
        BY DEF EmptySnapshot, IsSnapshot, NotLater
    <2>3. NotLater(EmptySnapshot.samples, 0) /\ NotLater(<<>>, 0)
        BY DEF EmptySnapshot, NotLater
    <2> QED
        BY <2>1, <2>2, <2>3 DEF SamplesTyped
<1>2. SamplesTyped /\ [Next]_vars => SamplesTyped'
    <2> SUFFICES ASSUME SamplesTyped, [Next]_vars PROVE SamplesTyped'
        OBVIOUS
    <2>1. /\ now \in Nat
          /\ current.samples \in Seq(Sample) /\ IsSnapshot(current) /\ NotLater(current.samples, now)
          /\ IsSnapshot(previous)
          /\ history \in Seq(Sample) /\ NotLater(history, now)
        BY DEF SamplesTyped, IsSnapshot
    <2>2. ASSUME NEW r \in Reading, NEW t \in {now - 1, now}, AddSample(r, t) PROVE SamplesTyped'
        <3> DEFINE x == MetricSample(r.identity, r.kind, r.value, t)
        <3>1. /\ t \in 0..now /\ current' = SnapshotAdd(current, x)
              /\ now' = now /\ previous' = previous /\ history' = history
            BY <2>2 DEF AddSample
        <3>2. x \in Sample /\ x.time <= now
            <4>1. r.kind \in Kinds /\ r.value \in Int
                BY DiagnosticsAssumption
            <4>2. t \in Nat /\ t <= now
                BY <2>1, <3>1
            <4> QED
                BY <4>1, <4>2 DEF MetricSample, Sample
        <3> HIDE DEF x
        <3>3. IsSnapshot(current')
            BY <2>1, <3>1, <3>2, SampleAdded
        <3>4. current'.samples = Append(current.samples, x)
            BY <3>1 DEF SnapshotAdd
        <3>5. NotLater(current'.samples, now)
            BY <2>1, <3>2, <3>4, NotLaterAppended
        <3> QED
            BY <2>1, <3>1, <3>3, <3>5 DEF SamplesTyped
    <2>3. CASE Scrape
        <3>1. /\ history' = history \o current.samples /\ previous' = current
              /\ current' = EmptySnapshot /\ now' = now
            BY <2>3 DEF Scrape
        <3>2. history' \in Seq(Sample)
            BY <2>1, <3>1
        <3>3. NotLater(history', now)
            <4>1. ASSUME NEW i \in DOMAIN history' PROVE history'[i].time <= now
                <5>1. \/ i \in DOMAIN history /\ history'[i] = history[i]
                      \/ i - Len(history) \in DOMAIN current.samples
                         /\ history'[i] = current.samples[i - Len(history)]
                    BY <2>1, <3>1, ConcatAt
                <5> QED
                    BY <2>1, <5>1 DEF NotLater
            <4> QED
                BY <4>1 DEF NotLater
        <3>4. IsSnapshot(current') /\ NotLater(current'.samples, now)
            BY <3>1 DEF EmptySnapshot, IsSnapshot, NotLater
        <3> QED
            BY <2>1, <3>1, <3>2, <3>3, <3>4 DEF SamplesTyped
    <2>4. CASE Tick
        <3>1. now' = now + 1 /\ current' = current /\ previous' = previous /\ history' = history
            BY <2>4 DEF Tick, metricVars
        <3>2. NotLater(current.samples, now + 1) /\ NotLater(history, now + 1)
            <4>1. now + 1 \in Nat /\ now <= now + 1
                BY <2>1
            <4> QED
                BY <2>1, <4>1, NotLaterLater
        <3> QED
            BY <2>1, <3>1, <3>2 DEF SamplesTyped
    <2>5. CASE UNCHANGED <<now, current, previous, history>>
        BY <2>1, <2>5 DEF SamplesTyped
    <2>6. \/ \E r \in Reading, t \in {now - 1, now} : AddSample(r, t)
          \/ Scrape \/ Tick \/ UNCHANGED <<now, current, previous, history>>
        BY DEF Next, vars, metricVars, ObserveLatency, MergeUp, AddSloEvent, OpenReport, Resolve
    <2> QED
        BY <2>2, <2>3, <2>4, <2>5, <2>6
<1> QED
    BY <1>1, <1>2, PTL DEF Spec

\* A metric that was stale, or of which nothing was known, does not become fresh by the
\* passing of time (evaluate_stale).
THEOREM StaleStaysStale == Spec => NeverFreshByItself
<1> DEFINE Held == now' # now =>
        \A i \in DOMAIN Rules :
            /\ Rules[i].condition.kind = "stale"
            /\ EvaluateAlertRule(Rules[i], Context).state \in {"active", "no_data"}
            => EvaluateAlertRule(Rules[i], Context').state \in {"active", "no_data", "suppressed"}
<1>1. ASSUME SamplesTyped, SamplesTyped', [Next]_vars PROVE [Held]_vars
    <2> SUFFICES ASSUME now' # now, NEW i \in DOMAIN Rules, Rules[i].condition.kind = "stale",
                        EvaluateAlertRule(Rules[i], Context).state \in {"active", "no_data"}
                 PROVE  EvaluateAlertRule(Rules[i], Context').state \in {"active", "no_data", "suppressed"}
        OBVIOUS
    <2>1. now' = now + 1 /\ current' = current /\ history' = history
        BY <1>1 DEF Next, vars, metricVars, AddSample, Scrape, ObserveLatency, MergeUp, AddSloEvent, OpenReport,
                    Resolve, Tick
    <2>2. IsContext(Context)
        BY <1>1, TypedContext
    <2>3. IsContext(Context')
        BY <1>1 DEF SamplesTyped, IsSnapshot, IsContext, Context
    <2>4. LaterOnly(Context, Context')
        BY <2>1 DEF LaterOnly, Context
    <2>5. IsRule(Rules[i])
        BY DiagnosticsAssumption
    <2> QED
        BY <2>2, <2>3, <2>4, <2>5, StaysStale
<1>2. Spec => [][Held]_vars
    BY <1>1, SamplesAlways, PTL DEF Spec
<1> QED
    BY <1>2 DEF NeverFreshByItself

-----------------------------------------------------------------------------
(* Rules on one metric. *)
SameMetric(a, b) == a.metric_name = b.metric_name /\ a.required_tags = b.required_tags

\* Conditions on one metric select the same samples.
LEMMA SameSelections ==
    ASSUME NEW c, NEW a, NEW b, SameMetric(a, b), NEW window
    PROVE  /\ SelectCurrentSamples(a, c) = SelectCurrentSamples(b, c)
           /\ SelectHistory(a, c, window) = SelectHistory(b, c, window)
<1>1. \A s : Concerns(a, s) = Concerns(b, s)
    BY DEF Concerns, SameMetric
<1> QED
    BY <1>1 DEF SelectCurrentSamples, SelectHistory

\* An evaluation that is active behind the gate was so before it, and long enough.
LEMMA GatePassed ==
    ASSUME NEW r, r.min_duration \in Nat, NEW c, NEW st, NEW h \in Seq(Sample),
           FinishDurationGate(Evaluation(r, c, st), r, h).state = "active"
    PROVE  /\ st = "active"
           /\ r.min_duration > 0 => h # <<>> /\ ~(Newest(h).time - h[1].time < r.min_duration)
<1> DEFINE e == Evaluation(r, c, st)
           duration == Newest(h).time - h[1].time
<1>1. e.state = st /\ (Firing(e) <=> st = "active")
    BY DEF Evaluation, Firing
<1>2. CASE ~Firing(e)
    <2>1. FinishDurationGate(e, r, h) = e
        BY <1>2 DEF FinishDurationGate
    <2> QED
        BY <1>1, <1>2, <2>1
<1>3. CASE Firing(e) /\ r.min_duration = 0
    BY <1>1, <1>3
<1>4. CASE Firing(e) /\ r.min_duration # 0 /\ h = <<>>
    <2>1. FinishDurationGate(e, r, h) = [e EXCEPT !.state = "no_data"]
        BY <1>4 DEF FinishDurationGate
    <2>2. FinishDurationGate(e, r, h).state = "no_data"
        BY <2>1 DEF Evaluation
    <2> QED
        BY <2>2
<1>5. CASE Firing(e) /\ r.min_duration # 0 /\ h # <<>>
    <2>1. FinishDurationGate(e, r, h) =
            [e EXCEPT !.active_since = h[1].time, !.active_duration = duration,
                      !.state = IF duration < r.min_duration THEN "inactive" ELSE @]
        BY <1>5 DEF FinishDurationGate
    <2> HIDE DEF duration
    <2>2. [e EXCEPT !.active_since = h[1].time, !.active_duration = duration,
                    !.state = IF duration < r.min_duration THEN "inactive" ELSE @].state
            = IF duration < r.min_duration THEN "inactive" ELSE st
        BY DEF Evaluation
    <2>4. FinishDurationGate(e, r, h).state = IF duration < r.min_duration THEN "inactive" ELSE st
        BY <2>1, <2>2
    <2>3. ~(duration < r.min_duration)
        BY <2>4
    <2> QED
        BY <1>1, <1>5, <2>3 DEF duration
<1> QED
    BY <1>2, <1>3, <1>4, <1>5

\* The first and the newest sample of a history.
LEMMA HistoryEnds ==
    ASSUME NEW c, IsContext(c), NEW condition, NEW window,
           NEW h \in Seq(Sample), IsHistory(h, condition, c, window), h # <<>>
    PROVE  \E m \in DOMAIN h : /\ Newest(h) = h[m] /\ 1 \in DOMAIN h
                               /\ h[1].time \in Nat /\ h[m].time \in Nat /\ h[1].time <= h[m].time
                               /\ h[1].value \in Int /\ h[m].value \in Int
<1>1. NotLater(h, c.now) /\ c.now \in Nat
    <2>1. ASSUME NEW k \in DOMAIN h PROVE h[k].time <= c.now
        <3>1. h[k] \in Range(h)
            BY DEF Range
        <3>2. h[k].time \in WindowStart(c.now, window)..c.now
            BY <3>1 DEF IsHistory
        <3> QED
            BY <3>2
    <2> QED
        BY <2>1 DEF NotLater, IsContext
<1>2. PICK m \in DOMAIN h : Newest(h) = h[m] /\ \A j \in DOMAIN h : h[j].time <= h[m].time
    BY <1>1, NewestIsLast
<1>3. 1 \in DOMAIN h
    OBVIOUS
<1>4. h[1] \in Sample /\ h[m] \in Sample
    BY <1>3
<1> QED
    BY <1>2, <1>3, <1>4 DEF Sample

\* A rule that is active is enabled and not suppressed, and its condition's verdict is "active".
LEMMA VerdictActive ==
    ASSUME NEW r, NEW c, EvaluateAlertRule(r, c).state = "active"
    PROVE  /\ r.condition.kind = "missing" => EvaluateMissing(r, c).state = "active"
           /\ r.condition.kind = "threshold" => EvaluateThreshold(r, c).state = "active"
           /\ r.condition.kind = "rate_of_change" => EvaluateRate(r, c).state = "active"
           /\ r.condition.kind = "trend" => EvaluateTrend(r, c).state = "active"
<1>1. r.enabled /\ ~RuleSuppressed(r, c.now)
    BY DEF EvaluateAlertRule, Evaluation
<1> QED
    BY <1>1 DEF EvaluateAlertRule

\* A verdict behind the gate is that of a metric reported for the minimum duration.
LEMMA HeldLongEnough ==
    ASSUME NEW c, IsContext(c), NEW r, IsRule(r), r.min_duration > 0,
           r.condition.kind \in {"threshold", "rate_of_change", "trend"},
           EvaluateAlertRule(r, c).state = "active"
    PROVE  \E a, b \in Range(SelectHistory(r.condition, c, r.window)) : b.time - a.time >= r.min_duration
<1> DEFINE h == SelectHistory(r.condition, c, r.window)
<1>1. h \in Seq(Sample) /\ IsHistory(h, r.condition, c, r.window)
    BY HistorySelected DEF IsHistory
<1>2. r.min_duration \in Nat
    BY DEF IsRule
<1>3. \E st : FinishDurationGate(Evaluation(r, c, st), r, h).state = "active"
    <2>1. CASE r.condition.kind = "threshold"
        <3>1. EvaluateThreshold(r, c).state = "active"
            BY <2>1, VerdictActive
        <3> QED
            BY <3>1 DEF EvaluateThreshold, Evaluation
    <2>2. CASE r.condition.kind = "rate_of_change"
        <3>1. EvaluateRate(r, c).state = "active"
            BY <2>2, VerdictActive
        <3> QED
            BY <3>1 DEF EvaluateRate, Evaluation
    <2>3. CASE r.condition.kind = "trend"
        <3>1. EvaluateTrend(r, c).state = "active"
            BY <2>3, VerdictActive
        <3> QED
            BY <3>1 DEF EvaluateTrend, Evaluation
    <2> QED
        BY <2>1, <2>2, <2>3
<1> HIDE DEF h
<1>4. h # <<>> /\ ~(Newest(h).time - h[1].time < r.min_duration)
    <2>1. PICK st : FinishDurationGate(Evaluation(r, c, st), r, h).state = "active"
        BY <1>3
    <2> QED
        BY <1>1, <1>2, <2>1, GatePassed
<1>5. PICK m \in DOMAIN h : /\ Newest(h) = h[m] /\ 1 \in DOMAIN h
                            /\ h[1].time \in Nat /\ h[m].time \in Nat
    BY <1>1, <1>4, HistoryEnds
<1>6. h[1] \in Range(h) /\ h[m] \in Range(h)
    BY <1>5 DEF Range
<1>7. h[m].time - h[1].time >= r.min_duration
    BY <1>2, <1>4, <1>5
<1> QED
    BY <1>6, <1>7 DEF h

\* Samples that do not rise from one to the next do not rise from an earlier to a later one.
LEMMA NotRising ==
    ASSUME NEW n \in Nat, NEW v, \A k \in 1..n : v[k] \in Int,
           \A k \in 2..n : v[k] <= v[k - 1],
           NEW i \in 1..n, NEW j \in 1..n, i <= j
    PROVE  v[j] <= v[i]
<1> DEFINE B == {k \in i..n : ~(v[k] <= v[i])}
<1> SUFFICES ASSUME B # {} PROVE FALSE
    OBVIOUS
<1>1. PICK m \in B : \A k \in B : m <= k
    <2>1. B \subseteq Nat
        OBVIOUS
    <2> HIDE DEF B
    <2> QED
        BY <2>1, LeastNumber
<1>2. m # i /\ m \in i..n /\ ~(v[m] <= v[i])
    BY <1>1
<1>3. m - 1 \in i..n /\ m - 1 \in 1..n /\ m \in 2..n /\ m \in 1..n
    BY <1>2
<1>4. ~(m - 1 \in B)
    BY <1>1, <1>3
<1>5. v[m - 1] <= v[i]
    BY <1>3, <1>4
<1>6. v[m] <= v[m - 1]
    BY <1>3
<1>7. v[m] \in Int /\ v[m - 1] \in Int /\ v[i] \in Int
    BY <1>3
<1> QED
    BY <1>2, <1>5, <1>6, <1>7

\* A history in which any rise counts and that is flat or falling holds no later, larger sample.
LEMMA NoRiseInTrend ==
    ASSUME NEW h \in Seq(Sample), Len(h) >= 2, ClassifyMetricTrend(h, 0) \in {"flat", "falling"},
           NEW f \in DOMAIN h, NEW l \in DOMAIN h, h[f].time < h[l].time
    PROVE  h[l].value <= h[f].value
<1> DEFINE ordered == SamplesByTime(h)
           first == Times(h)
           second == [i \in DOMAIN h |-> KeyRank[h[i].identity]]
           R == By(first, second, DOMAIN h)
           n == Cardinality(DOMAIN h)
<1>1. \A i \in DOMAIN h : first[i] \in Int /\ second[i] \in Int /\ first[i] = h[i].time
    <2>1. ASSUME NEW i \in DOMAIN h PROVE first[i] \in Int /\ second[i] \in Int /\ first[i] = h[i].time
        <3>1. h[i] \in Sample
            OBVIOUS
        <3>2. PICK r \in Reading : h[i].identity = r.identity
            BY <3>1 DEF Sample
        <3>3. KeyRank[h[i].identity] \in Nat /\ h[i].time \in Nat
            BY <3>1, <3>2, DiagnosticsAssumption DEF Sample
        <3> QED
            BY <3>3 DEF Times
    <2> QED
        BY <2>1
<1>2. ordered = Sorted(h, first, second)
    BY DEF SamplesByTime
<1> HIDE DEF first, second
<1>3. Enumerates(ordered, h, DOMAIN h, R)
    BY <1>1, <1>2, SortedEnumerates DEF R
<1>4. ordered \in Seq(Sample)
    BY <1>1, <1>2, SortedEnumerates
<1>5. n \in Nat
    <2>1. IsFiniteSet(DOMAIN h)
        <3>1. DOMAIN h = 1..Len(h) /\ Len(h) \in Nat
            OBVIOUS
        <3> QED
            BY <3>1, FS_Interval
    <2> QED
        BY <2>1, FS_CardinalityType
<1>6. \A i \in 2..Len(ordered) : ~(ordered[i].value - ordered[i - 1].value > 0)
    BY DEF ClassifyMetricTrend
<1>7. Len(ordered) = n
    BY <1>3 DEF Enumerates
<1>8. PICK at \in [1..n -> DOMAIN h] : /\ \A k \in 1..n : ordered[k] = h[at[k]]
                                       /\ \A k, q \in 1..n : k <= q <=> <<at[k], at[q]>> \in R
                                       /\ \A i \in DOMAIN h : \E k \in 1..n : at[k] = i
    BY <1>3 DEF Enumerates
<1> HIDE DEF ordered, n
<1>9. PICK k \in 1..n : at[k] = f
    BY <1>8
<1>10. PICK q \in 1..n : at[q] = l
    BY <1>8
<1>11. k <= q
    <2>1. <<f, l>> \in R
        BY <1>1 DEF By
    <2> QED
        BY <1>8, <1>9, <1>10, <2>1
<1>12. \A i \in 1..n : ordered[i].value \in Int
    <2>1. \A i \in 1..n : ordered[i] \in Sample
        BY <1>4, <1>5, <1>7
    <2> QED
        BY <2>1 DEF Sample
<1> DEFINE v == [i \in 1..n |-> ordered[i].value]
<1>13. \A i \in 2..n : v[i] <= v[i - 1]
    <2>1. ASSUME NEW i \in 2..n PROVE v[i] <= v[i - 1]
        <3>1. i \in 1..n /\ i - 1 \in 1..n
            BY <1>5
        <3>2. v[i] = ordered[i].value /\ v[i - 1] = ordered[i - 1].value
            BY <3>1
        <3>3. v[i] \in Int /\ v[i - 1] \in Int
            BY <1>12, <3>1
        <3>4. ~(v[i] - v[i - 1] > 0)
            BY <1>6, <1>7, <3>2
        <3> HIDE DEF v
        <3> QED
            BY <3>3, <3>4
    <2> QED
        BY <2>1
<1>14. \A i \in 1..n : v[i] \in Int
    BY <1>12
<1>15. v[k] = h[f].value /\ v[q] = h[l].value
    BY <1>8, <1>9, <1>10
<1> HIDE DEF v
<1>16. v[q] <= v[k]
    BY <1>5, <1>11, <1>13, <1>14, NotRising
<1> QED
    BY <1>15, <1>16

\* A rate that is active upwards comes of a later sample larger than the first.
LEMMA RateRises ==
    ASSUME NEW c, IsContext(c), NEW r, IsRule(r), r.condition.kind = "rate_of_change",
           r.condition.comparator = ">", r.condition.threshold >= 0,
           NEW h, h = SelectHistory(r.condition, c, r.window),
           EvaluateRate(r, c).state = "active"
    PROVE  Len(h) >= 2 /\ \E f, l \in DOMAIN h : h[f].time < h[l].time /\ h[f].value < h[l].value
<1>1. h \in Seq(Sample) /\ IsHistory(h, r.condition, c, r.window)
    BY HistorySelected DEF IsHistory
<1> DEFINE elapsed == Newest(h).time - h[1].time
           change == Newest(h).value - h[1].value
           t == r.condition.threshold
           st == MatchState(CompareAlertValue(change, ">", t * elapsed))
<1>2. ~(Len(h) < 2) /\ elapsed # 0 /\ FinishDurationGate(Evaluation(r, c, st), r, h).state = "active"
    BY DEF EvaluateRate, Evaluation
<1>3. r.min_duration \in Nat /\ t \in Nat
    BY DEF IsRule, IsCondition
<1>4. st = "active"
    <2> HIDE DEF st
    <2> QED
        BY <1>1, <1>2, <1>3, GatePassed
<1>5. change > t * elapsed
    BY <1>4 DEF MatchState, CompareAlertValue
<1>6. Len(h) \in Nat /\ h # <<>>
    BY <1>1, <1>2
<1>7. PICK m \in DOMAIN h : /\ Newest(h) = h[m] /\ 1 \in DOMAIN h
                            /\ h[1].time \in Nat /\ h[m].time \in Nat /\ h[1].time <= h[m].time
                            /\ h[1].value \in Int /\ h[m].value \in Int
    BY <1>1, <1>6, HistoryEnds
<1>8. elapsed \in Nat /\ elapsed = h[m].time - h[1].time /\ change = h[m].value - h[1].value
    BY <1>7
<1>9. h[1].time < h[m].time
    BY <1>2, <1>7, <1>8
<1>10. t * elapsed \in Nat
    <2> HIDE DEF t, elapsed
    <2> QED
        BY <1>3, <1>8
<1>11. h[1].value < h[m].value
    <2> DEFINE p == t * elapsed
    <2>1. p \in Nat /\ change > p
        BY <1>5, <1>10
    <2> HIDE DEF p, change
    <2> QED
        BY <1>7, <1>8, <2>1
<1> QED
    BY <1>2, <1>6, <1>7, <1>9, <1>11

\* A trend that is active is the one the rule expects.
LEMMA TrendExpected ==
    ASSUME NEW c, NEW r, IsRule(r), NEW h \in Seq(Sample), h = SelectHistory(r.condition, c, r.window),
           EvaluateTrend(r, c).state = "active"
    PROVE  ClassifyMetricTrend(h, r.condition.noise_floor) = r.condition.expected
<1> DEFINE st == MatchState(ClassifyMetricTrend(h, r.condition.noise_floor) = r.condition.expected)
<1>1. FinishDurationGate(Evaluation(r, c, st), r, h).state = "active"
    BY DEF EvaluateTrend, Evaluation
<1>2. r.min_duration \in Nat
    BY DEF IsRule
<1>3. st = "active"
    <2> HIDE DEF st
    <2> QED
        BY <1>1, <1>2, GatePassed
<1> QED
    BY <1>3 DEF MatchState

\* Rules on one metric do not contradict each other (AlertRuleSet::evaluate).
THEOREM RulesAgree == Spec => []AlertsConsistent
<1> SUFFICES ASSUME SamplesTyped PROVE AlertsConsistent
    BY SamplesAlways, PTL
<1> DEFINE State(i) == EvaluateAlertRule(Rules[i], Context).state
           OnOneMetric(i, j) == /\ Rules[i].condition.metric_name = Rules[j].condition.metric_name
                                /\ Rules[i].condition.required_tags = Rules[j].condition.required_tags
                                /\ Rules[i].window = Rules[j].window
<1>1. IsContext(Context)
    BY TypedContext
<1>2. \A i \in DOMAIN Rules : IsRule(Rules[i])
    BY DiagnosticsAssumption
<1>3. ASSUME NEW i \in DOMAIN Rules, NEW j \in DOMAIN Rules,
             Rules[i].condition.kind = "missing", Rules[j].condition.kind = "threshold",
             OnOneMetric(i, j), Rules[j].enabled, State(i) = "active"
      PROVE  State(j) \in {"no_data", "suppressed"}
    <2>1. EvaluateMissing(Rules[i], Context).state = "active"
        BY <1>3, VerdictActive
    <2>2. SelectCurrentSamples(Rules[i].condition, Context) = <<>>
        BY <2>1 DEF EvaluateMissing, Evaluation, MatchState
    <2>3. SelectCurrentSamples(Rules[j].condition, Context) = <<>>
        BY <1>3, <2>2, SameSelections DEF SameMetric
    <2>4. EvaluateThreshold(Rules[j], Context).state = "no_data"
        BY <2>3 DEF EvaluateThreshold, Evaluation
    <2> QED
        BY <1>3, <2>4 DEF EvaluateAlertRule, Evaluation
<1>4. ASSUME NEW i \in DOMAIN Rules, NEW j \in DOMAIN Rules,
             Rules[i].condition.kind = "rate_of_change", Rules[j].condition.kind = "trend",
             OnOneMetric(i, j), Rules[i].condition.comparator = ">", Rules[i].condition.threshold >= 0,
             Rules[j].condition.noise_floor = 0, State(i) = "active", State(j) = "active"
      PROVE  Rules[j].condition.expected \notin {"flat", "falling"}
    <2> DEFINE h == SelectHistory(Rules[i].condition, Context, Rules[i].window)
    <2>1. h = SelectHistory(Rules[j].condition, Context, Rules[j].window)
        BY <1>4, SameSelections DEF SameMetric
    <2>2. EvaluateRate(Rules[i], Context).state = "active" /\ EvaluateTrend(Rules[j], Context).state = "active"
        BY <1>4, VerdictActive
    <2>3. h \in Seq(Sample)
        BY <1>1, HistorySelected DEF IsHistory
    <2>4. Len(h) >= 2 /\ \E f, l \in DOMAIN h : h[f].time < h[l].time /\ h[f].value < h[l].value
        BY <1>1, <1>2, <1>4, <2>2, RateRises
    <2> HIDE DEF h
    <2>5. ClassifyMetricTrend(h, 0) = Rules[j].condition.expected
        BY <1>2, <1>4, <2>1, <2>2, <2>3, TrendExpected
    <2>6. PICK f \in DOMAIN h, l \in DOMAIN h : h[f].time < h[l].time /\ h[f].value < h[l].value
        BY <2>4
    <2>7. h[f].value \in Int /\ h[l].value \in Int
        <3>1. h[f] \in Sample /\ h[l] \in Sample
            BY <2>3, <2>6
        <3> QED
            BY <3>1 DEF Sample
    <2>8. ~(h[l].value <= h[f].value)
        BY <2>6, <2>7
    <2> QED
        BY <2>3, <2>4, <2>5, <2>6, <2>8, NoRiseInTrend
<1>5. ASSUME NEW i \in DOMAIN Rules, Rules[i].condition.kind \in {"threshold", "rate_of_change", "trend"},
             Rules[i].min_duration > 0, State(i) = "active"
      PROVE  \E a, b \in Range(SelectHistory(Rules[i].condition, Context, Rules[i].window)) :
                b.time - a.time >= Rules[i].min_duration
    BY <1>1, <1>2, <1>5, HeldLongEnough
<1> QED
    BY <1>3, <1>4, <1>5 DEF AlertsConsistent

-----------------------------------------------------------------------------
(* Lists, put together and taken apart. *)
\* A concatenation has the elements of both.
LEMMA ListedConcat ==
    ASSUME NEW a, Listed(a), NEW b, Listed(b)
    PROVE  Listed(a \o b) /\ Range(a \o b) = Range(a) \cup Range(b)
<1> DEFINE S == Range(a) \cup Range(b)
           t == a \o b
<1>1. a \in Seq(S) /\ b \in Seq(S)
    <2>1. a \in [1..Len(a) -> Range(a)] /\ Len(a) \in Nat
        BY DEF Listed
    <2>2. b \in [1..Len(b) -> Range(b)] /\ Len(b) \in Nat
        BY DEF Listed
    <2>3. a \in [1..Len(a) -> S] /\ b \in [1..Len(b) -> S]
        BY <2>1, <2>2
    <2> HIDE DEF S
    <2> QED
        BY <2>1, <2>2, <2>3
<1> HIDE DEF S
<1>2. /\ t \in Seq(S) /\ Len(t) = Len(a) + Len(b) /\ Len(a) \in Nat /\ Len(b) \in Nat
      /\ DOMAIN a = 1..Len(a) /\ DOMAIN b = 1..Len(b) /\ DOMAIN t = 1..Len(t)
      /\ \A i \in 1..Len(a) : t[i] = a[i]
      /\ \A i \in 1..Len(b) : t[Len(a) + i] = b[i]
    BY <1>1
<1>3. ASSUME NEW i \in DOMAIN t PROVE t[i] \in S
    BY <1>2, <1>3
<1>4. ASSUME NEW x \in S PROVE \E i \in DOMAIN t : t[i] = x
    <2>1. CASE x \in Range(a)
        <3>1. PICK i \in DOMAIN a : a[i] = x
            BY <2>1 DEF Range
        <3>2. i \in DOMAIN t /\ t[i] = x
            BY <1>2, <3>1
        <3> QED
            BY <3>2
    <2>2. CASE x \in Range(b)
        <3>1. PICK i \in DOMAIN b : b[i] = x
            BY <2>2 DEF Range
        <3>2. Len(a) + i \in DOMAIN t /\ t[Len(a) + i] = x
            BY <1>2, <3>1
        <3> QED
            BY <3>2
    <2> QED
        BY <2>1, <2>2 DEF S
<1> HIDE DEF t
<1>5. Range(t) = S
    BY <1>3, <1>4 DEF Range
<1>6. Listed(t)
    BY <1>2, <1>5 DEF Listed
<1> QED
    BY <1>5, <1>6 DEF S, t

\* What is chosen from a sequence is what stands at the places chosen.
LEMMA ListedChosen ==
    ASSUME NEW s, Listed(s), NEW P \in SUBSET DOMAIN s
    PROVE  Listed(Chosen(s, P)) /\ \A x : x \in Range(Chosen(s, P)) <=> \E i \in P : x = s[i]
<1> DEFINE t == Chosen(s, P)
           n == Cardinality(P)
<1>1. t \in Seq(Range(s)) /\ Enumerates(t, s, P, Along)
    BY ChosenEnumerates DEF Listed
<1>2. DOMAIN t = 1..n
    <2>1. DOMAIN t = 1..Len(t)
        BY <1>1
    <2> QED
        BY <1>1, <2>1 DEF Enumerates
<1>3. PICK at \in [1..n -> P] : /\ \A k \in 1..n : t[k] = s[at[k]]
                                /\ \A i \in P : \E k \in 1..n : at[k] = i
    BY <1>1 DEF Enumerates
<1> HIDE DEF t, n
<1>4. \A x : x \in Range(t) <=> \E i \in P : x = s[i]
    <2>1. ASSUME NEW x \in Range(t) PROVE \E i \in P : x = s[i]
        <3>1. PICK k \in 1..n : x = t[k]
            BY <1>2 DEF Range
        <3>2. at[k] \in P /\ x = s[at[k]]
            BY <1>3, <3>1
        <3> QED
            BY <3>2
    <2>2. ASSUME NEW i \in P PROVE s[i] \in Range(t)
        <3>1. PICK k \in 1..n : at[k] = i
            BY <1>3
        <3>2. t[k] = s[i]
            BY <1>3, <3>1
        <3> QED
            BY <1>2, <3>2 DEF Range
    <2> QED
        BY <2>1, <2>2
<1>5. Listed(t)
    <2>1. t \in [1..Len(t) -> Range(s)] /\ Len(t) \in Nat
        BY <1>1
    <2>2. t \in [1..Len(t) -> Range(t)]
        BY <2>1 DEF Range
    <2> QED
        BY <2>1, <2>2 DEF Listed
<1> QED
    BY <1>4, <1>5 DEF t

\* A sorted sequence is a permutation, by the first number and then the second.
LEMMA ListedSorted ==
    ASSUME NEW s, Listed(s), NEW first, NEW second,
           \A i \in DOMAIN s : first[i] \in Int /\ second[i] \in Int
    PROVE  LET t == Sorted(s, first, second)
           IN  /\ Listed(t) /\ Len(t) = Len(s)
               /\ \E at \in [1..Len(s) -> 1..Len(s)] :
                    /\ \A k \in 1..Len(s) : t[k] = s[at[k]]
                    /\ \A i \in 1..Len(s) : \E k \in 1..Len(s) : at[k] = i
                    /\ \A k, l \in 1..Len(s) : k <= l =>
                        \/ first[at[k]] < first[at[l]]
                        \/ first[at[k]] = first[at[l]] /\ second[at[k]] <= second[at[l]]
<1> DEFINE t == Sorted(s, first, second)
           n == Len(s)
           R == By(first, second, DOMAIN s)
<1>1. DOMAIN s = 1..n /\ n \in Nat /\ Cardinality(DOMAIN s) = n
    BY ListedDomain
<1>2. t \in Seq(Range(s)) /\ Enumerates(t, s, DOMAIN s, R)
    BY SortedEnumerates DEF Listed
<1> HIDE DEF t, n
<1>3. Len(t) = n
    BY <1>1, <1>2 DEF Enumerates
<1>4. PICK at \in [1..n -> DOMAIN s] : /\ \A k \in 1..n : t[k] = s[at[k]]
                                       /\ \A k, l \in 1..n : k <= l <=> <<at[k], at[l]>> \in R
                                       /\ \A i \in DOMAIN s : \E k \in 1..n : at[k] = i
    BY <1>1, <1>2 DEF Enumerates
<1>5. ASSUME NEW k \in 1..n, NEW l \in 1..n, k <= l
      PROVE  \/ first[at[k]] < first[at[l]]
             \/ first[at[k]] = first[at[l]] /\ second[at[k]] <= second[at[l]]
    <2>1. <<at[k], at[l]>> \in R
        BY <1>4, <1>5
    <2>2. at[k] \in DOMAIN s /\ at[l] \in DOMAIN s
        BY <1>4
    <2>3. second[at[k]] \in Int /\ second[at[l]] \in Int
        BY <2>2
    <2> QED
        BY <2>1, <2>3 DEF By
<1>6. Listed(t)
    <2>1. t \in [1..Len(t) -> Range(s)] /\ Len(t) \in Nat
        BY <1>2
    <2>2. t \in [1..Len(t) -> Range(t)]
        BY <2>1 DEF Range
    <2> QED
        BY <2>1, <2>2 DEF Listed
<1> HIDE DEF R
<1>7. /\ at \in [1..n -> 1..n]
      /\ \A k \in 1..n : t[k] = s[at[k]]
      /\ \A i \in 1..n : \E k \in 1..n : at[k] = i
      /\ \A k, l \in 1..n : k <= l => \/ first[at[k]] < first[at[l]]
                                      \/ first[at[k]] = first[at[l]] /\ second[at[k]] <= second[at[l]]
    BY <1>1, <1>4, <1>5
<1> QED
    BY <1>3, <1>6, <1>7 DEF t, n

\* A sequence has finitely many elements.
LEMMA ListedImage ==
    ASSUME NEW f, Listed(f)
    PROVE  IsFiniteSet(Range(f))
<1>1. f \in Surjection(DOMAIN f, Range(f))
    BY DEF Surjection, Range, Listed
<1> QED
    BY <1>1, ListedDomain, FS_Surjection

\* A finite set as a sequence.
LEMMA ListedSet ==
    ASSUME NEW T, IsFiniteSet(T)
    PROVE  Listed(SetToSeq(T)) /\ Range(SetToSeq(T)) \subseteq T
<1> DEFINE n == Cardinality(T)
           f == SetToSeq(T)
<1>1. n \in Nat
    BY FS_CardinalityType
<1>2. \E g \in [1..n -> T] : IsInjective(g)
    <2>1. ExistsBijection(1..n, T)
        BY FS_CardinalityType
    <2> QED
        BY <2>1 DEF ExistsBijection, Bijection, Injection
<1>3. f \in [1..n -> T]
    BY <1>2 DEF SetToSeq
<1> HIDE DEF f, n
<1>4. f = [i \in 1..n |-> f[i]] /\ Range(f) \subseteq T
    BY <1>3 DEF Range
<1> QED
    BY <1>1, <1>4, ListedBuilt DEF f

-----------------------------------------------------------------------------
(* The parts of a report. *)
IsAlerts(a) ==
    Listed(a) /\ \A x \in Range(a) : x.severity \in {"info", "warning", "critical"} /\ x.evaluated_at \in Nat

IsFindings(f) == Listed(f) /\ \A x \in Range(f) : x.severity \in DOMAIN SeverityRank /\ x.time \in Nat

IsEvents(e) == Listed(e) /\ \A x \in Range(e) : x.level \in DOMAIN LevelRank /\ x.time \in Nat

\* A rule's verdict carries the rule's severity and the time it was reached at.
LEMMA VerdictSigned ==
    ASSUME NEW r, IsRule(r), NEW c
    PROVE  EvaluateAlertRule(r, c).severity = r.severity /\ EvaluateAlertRule(r, c).evaluated_at = c.now
<1> DEFINE Signed(e) == e.severity = r.severity /\ e.evaluated_at = c.now
<1>1. \A st : Signed(Evaluation(r, c, st))
    BY DEF Evaluation
<1>2. ASSUME NEW st, NEW h PROVE Signed(FinishDurationGate(Evaluation(r, c, st), r, h))
    <2> DEFINE e == Evaluation(r, c, st)
               duration == Newest(h).time - h[1].time
               held == [e EXCEPT !.active_since = h[1].time, !.active_duration = duration,
                                 !.state = IF duration < r.min_duration THEN "inactive" ELSE @]
    <2>1. FinishDurationGate(e, r, h) \in {e, [e EXCEPT !.state = "no_data"], held}
        BY DEF FinishDurationGate
    <2>2. Signed(e) /\ Signed([e EXCEPT !.state = "no_data"]) /\ Signed(held)
        BY DEF Evaluation
    <2> HIDE DEF e, held
    <2>3. Signed(FinishDurationGate(e, r, h))
        BY <2>1, <2>2
    <2> QED
        BY <2>3 DEF e
<1>3. Signed(EvaluateThreshold(r, c)) /\ Signed(EvaluateMissing(r, c)) /\ Signed(EvaluateStale(r, c))
      /\ Signed(EvaluateRate(r, c)) /\ Signed(EvaluateTrend(r, c))
    <2>1. Signed(EvaluateThreshold(r, c))
        BY <1>1, <1>2, Zenon DEF EvaluateThreshold
    <2>2. Signed(EvaluateMissing(r, c))
        BY <1>1, Zenon DEF EvaluateMissing
    <2>3. Signed(EvaluateStale(r, c))
        BY <1>1, Zenon DEF EvaluateStale
    <2>4. Signed(EvaluateRate(r, c))
        BY <1>1, <1>2, Zenon DEF EvaluateRate
    <2>5. Signed(EvaluateTrend(r, c))
        BY <1>1, <1>2, Zenon DEF EvaluateTrend
    <2> QED
        BY <2>1, <2>2, <2>3, <2>4, <2>5
<1>4. r.condition.kind \in {"threshold", "missing", "stale", "rate_of_change", "trend"}
    BY DEF IsRule, IsCondition
<1> HIDE DEF Signed
<1>5. Signed(EvaluateAlertRule(r, c))
    BY <1>1, <1>3, <1>4 DEF EvaluateAlertRule
<1> QED
    BY <1>5 DEF Signed

\* The rules' verdicts are alerts with severities of the program, reached at the time of the context.
LEMMA AlertsTyped ==
    ASSUME NEW c, c.now \in Nat
    PROVE  IsAlerts(EvaluateRules(Rules, c))
<1> DEFINE a == EvaluateRules(Rules, c)
           n == Len(Rules)
<1>1. n \in Nat /\ DOMAIN Rules = 1..n /\ \A i \in DOMAIN Rules : IsRule(Rules[i])
    <2>1. Rules \in Seq(Range(Rules))
        BY DiagnosticsAssumption
    <2> QED
        BY <2>1, DiagnosticsAssumption
<1>2. a = [i \in 1..n |-> EvaluateAlertRule(Rules[i], c)]
    BY <1>1 DEF EvaluateRules
<1>3. \A i \in 1..n : a[i].severity \in {"info", "warning", "critical"} /\ a[i].evaluated_at \in Nat
    <2>1. ASSUME NEW i \in 1..n PROVE a[i].severity \in {"info", "warning", "critical"} /\ a[i].evaluated_at \in Nat
        <3>1. IsRule(Rules[i]) /\ Rules[i].severity \in {"info", "warning", "critical"}
            BY <1>1 DEF IsRule
        <3>2. a[i] = EvaluateAlertRule(Rules[i], c)
            BY <1>2
        <3> QED
            BY <3>1, <3>2, VerdictSigned
    <2> QED
        BY <2>1
<1> HIDE DEF a, n
<1>4. Listed(a) /\ DOMAIN a = 1..n
    <2>1. a = [i \in 1..n |-> a[i]]
        BY <1>2
    <2> QED
        BY <1>1, <2>1, ListedBuilt
<1> QED
    BY <1>3, <1>4 DEF IsAlerts, Range, a

\* The firing alerts are alerts.
LEMMA FiringTyped ==
    ASSUME NEW a, IsAlerts(a)
    PROVE  IsAlerts(FiringAlerts(a)) /\ Range(FiringAlerts(a)) \subseteq Range(a)
<1> DEFINE P == {i \in DOMAIN a : Firing(a[i])}
<1>1. Listed(a) /\ P \in SUBSET DOMAIN a /\ FiringAlerts(a) = Chosen(a, P)
    BY DEF IsAlerts, FiringAlerts
<1> HIDE DEF P
<1>2. Listed(FiringAlerts(a)) /\ \A x : x \in Range(FiringAlerts(a)) <=> \E i \in P : x = a[i]
    BY <1>1, ListedChosen
<1>3. Range(FiringAlerts(a)) \subseteq Range(a)
    BY <1>1, <1>2 DEF Range
<1> QED
    BY <1>2, <1>3 DEF IsAlerts

\* Two lists of findings make one.
LEMMA FindingsConcat ==
    ASSUME NEW f, IsFindings(f), NEW g, IsFindings(g)
    PROVE  IsFindings(f \o g) /\ Range(f \o g) = Range(f) \cup Range(g)
<1>1. Listed(f \o g) /\ Range(f \o g) = Range(f) \cup Range(g)
    BY ListedConcat DEF IsFindings
<1>2. ASSUME NEW x \in Range(f \o g) PROVE x.severity \in DOMAIN SeverityRank /\ x.time \in Nat
    BY <1>1, Zenon DEF IsFindings
<1> QED
    BY <1>1, <1>2, Zenon DEF IsFindings

\* Two lists of events make one.
LEMMA EventsConcat ==
    ASSUME NEW f, IsEvents(f), NEW g, IsEvents(g)
    PROVE  IsEvents(f \o g) /\ Range(f \o g) = Range(f) \cup Range(g)
<1>1. Listed(f \o g) /\ Range(f \o g) = Range(f) \cup Range(g)
    BY ListedConcat DEF IsEvents
<1>2. ASSUME NEW x \in Range(f \o g) PROVE x.level \in DOMAIN LevelRank /\ x.time \in Nat
    BY <1>1, Zenon DEF IsEvents
<1> QED
    BY <1>1, <1>2, Zenon DEF IsEvents

\* Each alert that fires becomes a finding (add_alert_evaluation).
LEMMA AlertFindings ==
    ASSUME NEW a, IsAlerts(a)
    PROVE  IsFindings(FindingsFromAlerts(a))
<1> DEFINE firing == FiringAlerts(a)
           n == Len(firing)
           f == FindingsFromAlerts(a)
<1>1. IsAlerts(firing)
    BY FiringTyped
<1>2. DOMAIN firing = 1..n /\ n \in Nat
    BY <1>1, ListedDomain DEF IsAlerts
<1>3. f = [i \in 1..n |-> Finding("alert", SeverityFromAlert(firing[i].severity), firing[i].evaluated_at, firing[i].rule)]
    BY <1>2 DEF FindingsFromAlerts
<1> HIDE DEF f, n, firing
<1>4. Listed(f) /\ DOMAIN f = 1..n
    <2>1. f = [i \in 1..n |-> f[i]]
        BY <1>3
    <2> QED
        BY <1>2, <2>1, ListedBuilt
<1>5. ASSUME NEW i \in 1..n PROVE f[i].severity \in DOMAIN SeverityRank /\ f[i].time \in Nat
    <2>1. firing[i] \in Range(firing)
        BY <1>2 DEF Range
    <2>2. firing[i].severity \in {"info", "warning", "critical"} /\ firing[i].evaluated_at \in Nat
        BY <1>1, <2>1 DEF IsAlerts
    <2>3. SeverityFromAlert(firing[i].severity) \in {"low", "medium", "high"}
        BY <2>2 DEF SeverityFromAlert
    <2>4. f[i].severity = SeverityFromAlert(firing[i].severity) /\ f[i].time = firing[i].evaluated_at
        BY <1>3 DEF Finding
    <2>5. DOMAIN SeverityRank = {"low", "medium", "high", "critical"}
        BY DEF SeverityRank
    <2> QED
        BY <2>2, <2>3, <2>4, <2>5
<1> QED
    BY <1>4, <1>5 DEF IsFindings, Range, f

\* A budget that is exhausted is a critical finding.
LEMMA SloFindings ==
    ASSUME NEW st, st.evaluated_at \in Nat
    PROVE  /\ IsFindings(FindingsFromSlos(<<st>>))
           /\ st.status = "exhausted" => \E x \in Range(FindingsFromSlos(<<st>>)) : x.severity = "critical"
<1> DEFINE s == <<st>>
           P == {i \in DOMAIN s : s[i].status \in {"warning", "exhausted"}}
           burning == Chosen(s, P)
           n == Len(burning)
           f == FindingsFromSlos(s)
<1>1. DOMAIN s = {1} /\ s[1] = st /\ Listed(s) /\ P \in SUBSET DOMAIN s
    BY DEF Listed, Range
<1>2. f = [i \in DOMAIN burning |->
            Finding("slo_burn", SeverityFromSlo(burning[i].status), burning[i].evaluated_at, "slo")]
    BY DEF FindingsFromSlos
<1>3. Listed(burning) /\ \A x : x \in Range(burning) <=> \E i \in P : x = s[i]
    <2> HIDE DEF s, P
    <2> QED
        BY <1>1, ListedChosen
<1>4. st.status = "exhausted" => 1 \in P
    BY <1>1
<1> HIDE DEF P, burning, f, s
<1>5. DOMAIN burning = 1..n /\ n \in Nat
    BY <1>3, ListedDomain
<1>6. Listed(f) /\ DOMAIN f = 1..n
    <2>1. f = [i \in 1..n |-> f[i]]
        BY <1>2, <1>5
    <2> HIDE DEF n
    <2> QED
        BY <1>5, <2>1, ListedBuilt
<1>7. ASSUME NEW i \in 1..n
      PROVE  burning[i] = st /\ f[i].severity = SeverityFromSlo(st.status) /\ f[i].time \in Nat
    <2>1. burning[i] \in Range(burning)
        BY <1>5 DEF Range
    <2>2. burning[i] = st
        BY <1>1, <1>3, <2>1
    <2> QED
        BY <1>2, <1>5, <2>2 DEF Finding
<1>8. SeverityFromSlo(st.status) \in DOMAIN SeverityRank
    BY DEF SeverityFromSlo, SeverityRank
<1>9. ASSUME st.status = "exhausted" PROVE \E x \in Range(f) : x.severity = "critical"
    <2>1. s[1] \in Range(burning)
        BY <1>3, <1>4, <1>9
    <2>2. PICK i \in 1..n : burning[i] = s[1]
        BY <1>5, <2>1 DEF Range
    <2>3. f[i].severity = "critical" /\ f[i] \in Range(f)
        BY <1>6, <1>7, <1>9 DEF SeverityFromSlo, Range
    <2> QED
        BY <2>3
<1>10. IsFindings(f)
    BY <1>6, <1>7, <1>8 DEF IsFindings, Range
<1> QED
    BY <1>9, <1>10 DEF f, s

\* Each metric that changed too much becomes a finding (add_metric_deltas).
LEMMA DeltaFindings ==
    ASSUME NEW deltas, IsFiniteSet(deltas), NEW percent
    PROVE  IsFindings(FindingsFromDeltas(deltas, percent))
<1> DEFINE Reaches(d, p) == 100 * Abs(d.relative[1]) >= p * d.relative[2]
           T == {d \in deltas : d.both /\ Reaches(d, percent)}
           large == SetToSeq(T)
           n == Len(large)
           f == FindingsFromDeltas(deltas, percent)
<1>1. f = [i \in DOMAIN large |->
            Finding("metric_anomaly", IF Reaches(large[i], 2 * percent) THEN "high" ELSE "medium", 0,
                    large[i].identity.name)]
    BY DEF FindingsFromDeltas
<1>2. IsFiniteSet(T)
    <2>1. T \subseteq deltas
        OBVIOUS
    <2> HIDE DEF T
    <2> QED
        BY <2>1, FS_Subset
<1> HIDE DEF T
<1>3. Listed(large)
    BY <1>2, ListedSet
<1> HIDE DEF large, f
<1>4. DOMAIN large = 1..n /\ n \in Nat
    BY <1>3, ListedDomain
<1>5. Listed(f) /\ DOMAIN f = 1..n
    <2>1. f = [i \in 1..n |-> f[i]]
        BY <1>1, <1>4
    <2> HIDE DEF n
    <2> QED
        BY <1>4, <2>1, ListedBuilt
<1>6. ASSUME NEW i \in 1..n PROVE f[i].severity \in {"high", "medium"} /\ f[i].time \in Nat
    <2> HIDE DEF Reaches
    <2> QED
        BY <1>1, <1>4 DEF Finding
<1>7. {"high", "medium"} \subseteq DOMAIN SeverityRank
    BY DEF SeverityRank
<1> QED
    BY <1>5, <1>6, <1>7 DEF IsFindings, Range, f

\* Two snapshots differ in finitely many metrics.
LEMMA DeltasFinite ==
    ASSUME NEW p, p.samples \in Seq(Sample), NEW c, c.samples \in Seq(Sample)
    PROVE  IsFiniteSet(CompareMetricSnapshots(p, c))
<1> DEFINE s == p.samples \o c.samples
           K == {CanonicalMetricKey(x.identity) : x \in Range(s)}
           f == [x \in Range(s) |-> CanonicalMetricKey(x.identity)]
           g == [key \in K |-> MetricDeltaOf(p, c, key)]
           D == {MetricDeltaOf(p, c, key) : key \in K}
<1>1. IsFiniteSet(Range(s))
    <2>1. s \in Seq(Sample)
        OBVIOUS
    <2> HIDE DEF s
    <2>2. Listed(s)
        BY <2>1 DEF Listed, Range
    <2> QED
        BY <2>2, ListedImage
<1>2. IsFiniteSet(K)
    <2>1. f \in Surjection(Range(s), K)
        BY DEF Surjection
    <2> HIDE DEF f, K, s
    <2> QED
        BY <1>1, <2>1, FS_Surjection
<1>3. IsFiniteSet(D)
    <2>1. g \in Surjection(K, D)
        BY DEF Surjection
    <2> HIDE DEF g, K, D
    <2> QED
        BY <1>2, <2>1, FS_Surjection
<1> QED
    BY <1>3 DEF CompareMetricSnapshots

-----------------------------------------------------------------------------
(* What is kept of a report once it is opened. *)
IsReport(r, time) ==
    /\ {"status", "resolved_at", "updated_at"} \subseteq DOMAIN r
    /\ r.opened_at \in 0..time
    /\ \/ r.status = "investigating" /\ r.resolved_at = <<>> /\ r.updated_at = r.opened_at
       \/ r.status = "resolved" /\ \E t \in r.opened_at..time : r.resolved_at = <<t>>
    /\ IsAlerts(r.alerts)
    /\ IsFindings(r.findings) /\ r.findings # <<>>
    /\ (\E i \in DOMAIN r.slo_statuses : r.slo_statuses[i].status = "exhausted")
        => \E f \in Range(r.findings) : f.severity = "critical"
    /\ Listed(r.actions) /\ \E i \in DOMAIN r.actions : ~r.actions[i].completed
    /\ r.timeline = <<>>

ReportKept == report # EmptyReport => IsReport(report, now)

\* A report under investigation that has no open action is to be assigned.
LEMMA AssignRecommended ==
    ASSUME NEW r, r.actions = <<>>, r.status = "investigating"
    PROVE  LET actions == RecommendActions(r)
           IN  Listed(actions) /\ \E i \in DOMAIN actions : ~actions[i].completed
<1> DEFINE summary == Summarize(r)
           needed == <<[action |-> "freeze", when |-> summary.exhausted_slo_count > 0],
                       [action |-> "inspect", when |-> summary.firing_alert_count > 0],
                       [action |-> "assign", when |-> summary.open_action_count = 0 /\ r.status # "resolved"],
                       [action |-> "confirm_impact", when |-> r.impacts = 0]>>
           P == {i \in DOMAIN needed : needed[i].when}
           chosen == Chosen(needed, P)
           actions == RecommendActions(r)
<1>1. actions = [i \in DOMAIN chosen |-> [action |-> chosen[i].action, completed |-> FALSE]]
    BY DEF RecommendActions
<1>2. summary.open_action_count = 0
    <2>1. summary.open_action_count = Cardinality({i \in DOMAIN r.actions : ~r.actions[i].completed})
        BY DEF Summarize
    <2>2. {i \in DOMAIN r.actions : ~r.actions[i].completed} = {}
        OBVIOUS
    <2> HIDE DEF summary
    <2> QED
        BY <2>1, <2>2, FS_EmptySet
<1> HIDE DEF summary, actions
<1>3. 3 \in P /\ P \in SUBSET DOMAIN needed
    <2>1. needed[3].when <=> summary.open_action_count = 0 /\ r.status # "resolved"
        OBVIOUS
    <2>2. DOMAIN needed = 1..4
        OBVIOUS
    <2> HIDE DEF needed
    <2> QED
        BY <1>2, <2>1, <2>2
<1>4. Listed(needed)
    <2>1. DOMAIN needed = 1..4
        OBVIOUS
    <2>2. needed = [i \in 1..4 |-> needed[i]]
        OBVIOUS
    <2> HIDE DEF needed
    <2> QED
        BY <2>2, ListedBuilt
<1> HIDE DEF needed, P
<1>5. Listed(chosen) /\ \A x : x \in Range(chosen) <=> \E i \in P : x = needed[i]
    BY <1>3, <1>4, ListedChosen
<1> HIDE DEF chosen
<1>6. DOMAIN chosen = 1..Len(chosen) /\ Len(chosen) \in Nat
    BY <1>5, ListedDomain
<1>7. needed[3] \in Range(chosen)
    BY <1>3, <1>5
<1>8. PICK k \in DOMAIN chosen : chosen[k] = needed[3]
    BY <1>7 DEF Range
<1>9. ~actions[k].completed /\ k \in DOMAIN actions
    BY <1>1, <1>8
<1>10. Listed(actions)
    <2> DEFINE n == Len(chosen)
    <2>1. actions = [i \in 1..n |-> actions[i]] /\ n \in Nat
        BY <1>1, <1>6
    <2> HIDE DEF n
    <2> QED
        BY <2>1, ListedBuilt
<1> QED
    BY <1>9, <1>10 DEF actions

\* A report that is opened is made of alerts, findings and actions of these kinds.
LEMMA ReportOpened ==
    ASSUME SamplesTyped, OpenReport
    PROVE  IsReport(report', now)
<1> DEFINE alerts == EvaluateRules(Rules, Context)
           status == EvaluateSlo(Objective, BudgetEvents, now)
           deltas == CompareMetricSnapshots(previous, current)
           found == FindingsFromAlerts(alerts) \o FindingsFromSlos(<<status>>)
           findings == found \o FindingsFromDeltas(deltas, 50)
           rollups == RollupSeries(GroupMetricSeries(history \o current.samples))
           draft == [EmptyReport EXCEPT !.opened_at = now, !.updated_at = now, !.findings = findings,
                        !.alerts = alerts, !.slo_statuses = <<status>>, !.rollups = rollups]
<1>1. findings # <<>> /\ report' = [draft EXCEPT !.actions = RecommendActions(draft)]
    BY DEF OpenReport
<1>2. now \in Nat /\ Context.now = now
    BY DEF SamplesTyped, Context
<1>3. IsAlerts(alerts)
    BY <1>2, AlertsTyped
<1>4. status.evaluated_at = now
    BY DEF EvaluateSlo, EvaluateSloSlice
<1>5. IsFiniteSet(deltas)
    BY DeltasFinite DEF SamplesTyped, IsSnapshot
<1> HIDE DEF alerts, status, deltas, rollups
<1>6. IsFindings(FindingsFromAlerts(alerts))
    BY <1>3, AlertFindings
<1>7. /\ IsFindings(FindingsFromSlos(<<status>>))
      /\ status.status = "exhausted" => \E x \in Range(FindingsFromSlos(<<status>>)) : x.severity = "critical"
    BY <1>2, <1>4, SloFindings
<1>8. IsFindings(found) /\ Range(FindingsFromSlos(<<status>>)) \subseteq Range(found)
    BY <1>6, <1>7, FindingsConcat
<1>9. IsFindings(FindingsFromDeltas(deltas, 50))
    BY <1>5, DeltaFindings
<1> HIDE DEF found
<1>10. IsFindings(findings) /\ Range(found) \subseteq Range(findings)
    BY <1>8, <1>9, FindingsConcat
<1>11. status.status = "exhausted" => \E x \in Range(findings) : x.severity = "critical"
    BY <1>7, <1>8, <1>10
<1> HIDE DEF findings
<1>12. /\ draft.opened_at = now /\ draft.updated_at = now /\ draft.findings = findings
       /\ draft.alerts = alerts /\ draft.slo_statuses = <<status>>
       /\ draft.status = "investigating" /\ draft.resolved_at = <<>> /\ draft.actions = <<>>
       /\ draft.timeline = <<>>
    BY DEF EmptyReport
<1> DEFINE actions == RecommendActions(draft)
<1>13. Listed(actions) /\ \E i \in DOMAIN actions : ~actions[i].completed
    <2> HIDE DEF draft
    <2> QED
        BY <1>12, AssignRecommended
<1>14. /\ report'.opened_at = now /\ report'.updated_at = now /\ report'.findings = findings
       /\ report'.alerts = alerts /\ report'.slo_statuses = <<status>>
       /\ report'.status = "investigating" /\ report'.resolved_at = <<>> /\ report'.actions = actions
       /\ report'.timeline = <<>>
    <2> HIDE DEF actions
    <2>1. report' = [draft EXCEPT !.actions = actions]
        BY <1>1 DEF actions
    <2> QED
        BY <2>1 DEF EmptyReport
<1>17. {"status", "resolved_at", "updated_at"} \subseteq DOMAIN report'
    BY <1>1 DEF EmptyReport
<1> HIDE DEF draft, actions
<1>15. (\E i \in DOMAIN report'.slo_statuses : report'.slo_statuses[i].status = "exhausted")
        => \E f \in Range(report'.findings) : f.severity = "critical"
    BY <1>11, <1>14
<1>16. now \in 0..now
    BY <1>2
<1> QED
    BY <1>1, <1>3, <1>10, <1>13, <1>14, <1>15, <1>16, <1>17 DEF IsReport

\* It remains so.
LEMMA ReportAlways == Spec => []ReportKept
<1>1. Init => ReportKept
    BY DEF Init, ReportKept
<1>2. SamplesTyped /\ ReportKept /\ [Next]_vars => ReportKept'
    <2> SUFFICES ASSUME SamplesTyped, ReportKept, [Next]_vars PROVE ReportKept'
        OBVIOUS
    <2>1. now \in Nat
        BY DEF SamplesTyped
    <2>2. CASE OpenReport
        <3>1. IsReport(report', now) /\ now' = now
            BY <2>2, ReportOpened DEF OpenReport
        <3> QED
            BY <3>1 DEF ReportKept
    <2>3. CASE Resolve
        <3>1. /\ report' = [report EXCEPT !.status = "resolved", !.resolved_at = <<now>>, !.updated_at = now]
              /\ now' = now /\ IsReport(report, now)
            BY <2>3 DEF Resolve, ReportKept
        <3>2. /\ report'.opened_at = report.opened_at /\ report'.alerts = report.alerts
              /\ report'.findings = report.findings /\ report'.slo_statuses = report.slo_statuses
              /\ report'.actions = report.actions /\ report'.timeline = report.timeline
              /\ DOMAIN report' = DOMAIN report
            BY <3>1
        <3>3. now \in report.opened_at..now
            BY <2>1, <3>1 DEF IsReport
        <3>4. report # EmptyReport
            BY <2>3 DEF Resolve
        <3>5. report'.status = "resolved" /\ report'.resolved_at = <<now>>
            BY <3>1 DEF IsReport
        <3>6. IsReport(report', now)
            BY <3>1, <3>2, <3>3, <3>5 DEF IsReport
        <3> QED
            BY <3>1, <3>6 DEF ReportKept
    <2>4. CASE Tick
        <3>1. report' = report /\ now' = now + 1
            BY <2>4 DEF Tick
        <3>2. ASSUME IsReport(report, now) PROVE IsReport(report, now + 1)
            <4>1. report.opened_at \in 0..(now + 1) /\ report.opened_at..now \subseteq report.opened_at..(now + 1)
                BY <2>1, <3>2 DEF IsReport
            <4> QED
                BY <3>2, <4>1 DEF IsReport
        <3> QED
            BY <3>1, <3>2 DEF ReportKept
    <2>5. CASE UNCHANGED <<report, now>>
        BY <2>5 DEF ReportKept
    <2>6. OpenReport \/ Resolve \/ Tick \/ UNCHANGED <<report, now>>
        BY DEF Next, vars, metricVars, AddSample, Scrape, ObserveLatency, MergeUp, AddSloEvent
    <2> QED
        BY <2>2, <2>3, <2>4, <2>5, <2>6
<1> QED
    BY <1>1, <1>2, SamplesAlways, PTL DEF Spec

\* A sorted timeline is in order, the severe events of an instant first, and holds every event.
LEMMA TimelineSorted ==
    ASSUME NEW e, IsEvents(e)
    PROVE  LET t == TimelineSort(e)
           IN  /\ IsEvents(t) /\ Range(t) = Range(e)
               /\ \A i \in 2..Len(t) :
                    \/ t[i - 1].time < t[i].time
                    \/ t[i - 1].time = t[i].time /\ LevelRank[t[i - 1].level] >= LevelRank[t[i].level]
<1> DEFINE first == Times(e)
           second == [i \in DOMAIN e |-> -LevelRank[e[i].level]]
           n == Len(e)
           t == Sorted(e, first, second)
<1>1. DOMAIN e = 1..n /\ n \in Nat /\ Listed(e)
    BY ListedDomain DEF IsEvents
<1>2. \A i \in 1..n : /\ first[i] = e[i].time /\ second[i] = -LevelRank[e[i].level]
                      /\ e[i].time \in Nat /\ LevelRank[e[i].level] \in Int
    <2>1. ASSUME NEW i \in 1..n
          PROVE  /\ first[i] = e[i].time /\ second[i] = -LevelRank[e[i].level]
                 /\ e[i].time \in Nat /\ LevelRank[e[i].level] \in Int
        <3>1. e[i] \in Range(e)
            BY <1>1 DEF Range
        <3>2. e[i].level \in DOMAIN LevelRank /\ e[i].time \in Nat
            BY <3>1 DEF IsEvents
        <3>3. LevelRank[e[i].level] \in Int
            BY <3>2 DEF LevelRank
        <3>4. first[i] = e[i].time /\ second[i] = -LevelRank[e[i].level]
            BY <1>1 DEF Times
        <3> QED
            BY <3>2, <3>3, <3>4
    <2> QED
        BY <2>1
<1>3. TimelineSort(e) = t
    BY DEF TimelineSort
<1>4. \A i \in DOMAIN e : first[i] \in Int /\ second[i] \in Int
    BY <1>1, <1>2
<1> HIDE DEF first, second
<1>5. /\ Listed(t) /\ Len(t) = n
      /\ \E at \in [1..n -> 1..n] :
            /\ \A k \in 1..n : t[k] = e[at[k]]
            /\ \A i \in 1..n : \E k \in 1..n : at[k] = i
            /\ \A k, l \in 1..n : k <= l => \/ first[at[k]] < first[at[l]]
                                            \/ first[at[k]] = first[at[l]] /\ second[at[k]] <= second[at[l]]
    BY <1>1, <1>4, ListedSorted
<1> HIDE DEF n, t
<1>6. PICK at \in [1..n -> 1..n] :
            /\ \A k \in 1..n : t[k] = e[at[k]]
            /\ \A i \in 1..n : \E k \in 1..n : at[k] = i
            /\ \A k, l \in 1..n : k <= l => \/ first[at[k]] < first[at[l]]
                                            \/ first[at[k]] = first[at[l]] /\ second[at[k]] <= second[at[l]]
    BY <1>5
<1>7. DOMAIN t = 1..n
    BY <1>5, ListedDomain
<1>8. Range(t) = Range(e)
    <2>1. ASSUME NEW k \in 1..n PROVE t[k] \in Range(e)
        <3>1. at[k] \in DOMAIN e /\ t[k] = e[at[k]]
            BY <1>1, <1>6
        <3> QED
            BY <3>1 DEF Range
    <2>2. ASSUME NEW i \in 1..n PROVE e[i] \in Range(t)
        <3>1. PICK k \in 1..n : at[k] = i
            BY <1>6
        <3>2. t[k] = e[i] /\ k \in DOMAIN t
            BY <1>6, <1>7, <3>1
        <3> QED
            BY <3>2 DEF Range
    <2> QED
        BY <1>1, <1>7, <2>1, <2>2 DEF Range
<1>9. IsEvents(t)
    BY <1>5, <1>8 DEF IsEvents
<1>10. ASSUME NEW i \in 2..Len(t)
       PROVE  \/ t[i - 1].time < t[i].time
              \/ t[i - 1].time = t[i].time /\ LevelRank[t[i - 1].level] >= LevelRank[t[i].level]
    <2>1. i - 1 \in 1..n /\ i \in 1..n /\ i - 1 <= i
        BY <1>1, <1>5
    <2> DEFINE a == at[i - 1]
               b == at[i]
    <2>2. \/ first[a] < first[b]
          \/ first[a] = first[b] /\ second[a] <= second[b]
        BY <1>6, <2>1
    <2>3. a \in 1..n /\ b \in 1..n /\ t[i - 1] = e[a] /\ t[i] = e[b]
        BY <1>6, <2>1
    <2> HIDE DEF a, b
    <2>4. /\ first[a] = e[a].time /\ second[a] = -LevelRank[e[a].level] /\ LevelRank[e[a].level] \in Int
          /\ first[b] = e[b].time /\ second[b] = -LevelRank[e[b].level] /\ LevelRank[e[b].level] \in Int
        BY <1>2, <2>3
    <2> DEFINE x == LevelRank[e[a].level]
               y == LevelRank[e[b].level]
    <2>5. x \in Int /\ y \in Int /\ (-x <= -y => x >= y)
        <3>1. x \in Int /\ y \in Int
            BY <2>4
        <3> HIDE DEF x, y
        <3> QED
            BY <3>1
    <2>6. \/ e[a].time < e[b].time
          \/ e[a].time = e[b].time /\ -x <= -y
        BY <2>2, <2>4
    <2> QED
        BY <2>3, <2>5, <2>6
<1> QED
    BY <1>3, <1>8, <1>9, <1>10

\* What a report's timeline is made of.
LEMMA TimelineBuilt ==
    ASSUME NEW time \in Nat, NEW r, IsReport(r, time)
    PROVE  \E e : /\ IsEvents(e) /\ BuildTimeline(r) = TimelineSort(e)
                  /\ \A a \in Range(FiringAlerts(r.alerts)) :
                        TimelineEvent(a.evaluated_at, TimelineLevelFor(SeverityFromAlert(a.severity)), a.rule)
                            \in Range(e)
<1> DEFINE firing == FiringAlerts(r.alerts)
           opened == <<TimelineEvent(r.opened_at, "info", "incident")>>
           resolved == IF r.resolved_at = <<>> THEN <<>>
                       ELSE <<TimelineEvent(r.resolved_at[1], "info", "incident")>>
           FoundEvent(f) == TimelineEvent(f.time, TimelineLevelFor(f.severity), f.source)
           AlertEvent(a) == TimelineEvent(a.evaluated_at, TimelineLevelFor(SeverityFromAlert(a.severity)), a.rule)
           found == [i \in DOMAIN r.findings |-> FoundEvent(r.findings[i])]
           alerted == [i \in DOMAIN firing |-> AlertEvent(firing[i])]
<1>1. \A s : TimelineLevelFor(s) \in DOMAIN LevelRank
    BY DEF TimelineLevelFor, LevelRank
<1>2. IsEvents(<<>>)
    BY DEF IsEvents, Listed, Range
<1>3. \A t \in Nat : IsEvents(<<TimelineEvent(t, "info", "incident")>>)
    <2>1. ASSUME NEW t \in Nat PROVE IsEvents(<<TimelineEvent(t, "info", "incident")>>)
        <3> DEFINE x == TimelineEvent(t, "info", "incident")
        <3>1. x.level \in DOMAIN LevelRank /\ x.time \in Nat
            BY DEF TimelineEvent, LevelRank
        <3> HIDE DEF x
        <3>2. Range(<<x>>) = {x} /\ <<x>> \in Seq({x})
            BY DEF Range
        <3> QED
            BY <3>1, <3>2 DEF IsEvents, Listed, x
    <2> QED
        BY <2>1
<1>4. IsEvents(opened)
    <2>1. r.opened_at \in Nat
        BY DEF IsReport
    <2> QED
        BY <1>3, <2>1
<1>5. IsEvents(resolved)
    <2>1. CASE r.resolved_at = <<>>
        BY <1>2, <2>1
    <2>2. CASE r.resolved_at # <<>>
        <3>1. PICK t \in r.opened_at..time : r.resolved_at = <<t>>
            BY <2>2 DEF IsReport
        <3>2. r.resolved_at[1] \in Nat
            BY <3>1 DEF IsReport
        <3> QED
            BY <1>3, <2>2, <3>2
    <2> QED
        BY <2>1, <2>2
<1>6. IsEvents(found)
    <2> DEFINE n == Len(r.findings)
    <2>1. IsFindings(r.findings)
        BY DEF IsReport
    <2>2. DOMAIN r.findings = 1..n /\ n \in Nat
        BY <2>1, ListedDomain DEF IsFindings
    <2>3. \A i \in 1..n : found[i] = FoundEvent(r.findings[i])
        BY <2>2
    <2>4. Listed(found) /\ DOMAIN found = 1..n
        <3>1. found = [i \in 1..n |-> found[i]]
            BY <2>2
        <3> HIDE DEF found, n
        <3> QED
            BY <2>2, <3>1, ListedBuilt
    <2> HIDE DEF found, n
    <2>5. ASSUME NEW i \in 1..n PROVE found[i].level \in DOMAIN LevelRank /\ found[i].time \in Nat
        <3>1. r.findings[i] \in Range(r.findings)
            BY <2>2 DEF Range
        <3>2. r.findings[i].time \in Nat
            BY <2>1, <3>1 DEF IsFindings
        <3>3. found[i].level = TimelineLevelFor(r.findings[i].severity) /\ found[i].time = r.findings[i].time
            <4>1. found[i] = FoundEvent(r.findings[i])
                BY <2>3
            <4>2. \A f : FoundEvent(f).level = TimelineLevelFor(f.severity) /\ FoundEvent(f).time = f.time
                BY DEF TimelineEvent
            <4> HIDE DEF FoundEvent
            <4> QED
                BY <4>1, <4>2, Zenon
        <3> QED
            BY <1>1, <3>2, <3>3, Zenon
    <2> QED
        BY <2>4, <2>5 DEF IsEvents, Range
<1>7. IsEvents(alerted) /\ \A a \in Range(firing) : AlertEvent(a) \in Range(alerted)
    <2> DEFINE n == Len(firing)
    <2>1. IsAlerts(firing)
        BY FiringTyped DEF IsReport
    <2>2. DOMAIN firing = 1..n /\ n \in Nat
        BY <2>1, ListedDomain DEF IsAlerts
    <2>3. \A i \in 1..n : alerted[i] = AlertEvent(firing[i])
        BY <2>2
    <2>4. Listed(alerted) /\ DOMAIN alerted = 1..n
        <3>1. alerted = [i \in 1..n |-> alerted[i]]
            BY <2>2
        <3> HIDE DEF alerted, n
        <3> QED
            BY <2>2, <3>1, ListedBuilt
    <2> HIDE DEF alerted, firing, n
    <2>5. ASSUME NEW i \in 1..n PROVE alerted[i].level \in DOMAIN LevelRank /\ alerted[i].time \in Nat
        <3>1. firing[i] \in Range(firing)
            BY <2>2 DEF Range
        <3>2. firing[i].evaluated_at \in Nat
            BY <2>1, <3>1 DEF IsAlerts
        <3>3. /\ alerted[i].level = TimelineLevelFor(SeverityFromAlert(firing[i].severity))
              /\ alerted[i].time = firing[i].evaluated_at
            <4>1. alerted[i] = AlertEvent(firing[i])
                BY <2>3
            <4>2. \A a : /\ AlertEvent(a).level = TimelineLevelFor(SeverityFromAlert(a.severity))
                         /\ AlertEvent(a).time = a.evaluated_at
                BY DEF TimelineEvent
            <4> HIDE DEF AlertEvent
            <4> QED
                BY <4>1, <4>2, Zenon
        <3> QED
            BY <1>1, <3>2, <3>3, Zenon
    <2>6. ASSUME NEW a \in Range(firing) PROVE AlertEvent(a) \in Range(alerted)
        <3>1. PICK i \in 1..n : firing[i] = a
            BY <2>2 DEF Range
        <3>2. alerted[i] = AlertEvent(a)
            BY <2>3, <3>1
        <3> HIDE DEF AlertEvent
        <3> QED
            BY <2>4, <3>2 DEF Range
    <2> QED
        BY <2>4, <2>5, <2>6 DEF IsEvents, Range
<1> DEFINE s2 == r.timeline \o opened
           s3 == s2 \o resolved
           s4 == s3 \o found
           s5 == s4 \o alerted
<1>8. BuildTimeline(r) = TimelineSort(s5)
    BY DEF BuildTimeline
<1> HIDE DEF opened, resolved, found, alerted, firing, AlertEvent, FoundEvent
<1>9. IsEvents(s2)
    <2>1. IsEvents(r.timeline)
        BY <1>2 DEF IsReport
    <2> QED
        BY <1>4, <2>1, EventsConcat
<1> HIDE DEF s2
<1>10. IsEvents(s3)
    BY <1>5, <1>9, EventsConcat
<1> HIDE DEF s3
<1>11. IsEvents(s4)
    BY <1>6, <1>10, EventsConcat
<1> HIDE DEF s4
<1>12. IsEvents(s5) /\ Range(alerted) \subseteq Range(s5)
    BY <1>7, <1>11, EventsConcat
<1> HIDE DEF s5
<1>13. \A a \in Range(firing) : AlertEvent(a) \in Range(s5)
    BY <1>7, <1>12
<1> QED
    BY <1>8, <1>12, <1>13 DEF AlertEvent, firing

\* The events of a timeline at a level or above are those of its own.
LEMMA EventsAbove ==
    ASSUME NEW t, IsEvents(t), NEW level, NEW x \in Range(t), LevelRank[x.level] >= LevelRank[level]
    PROVE  x \in Range(AtOrAbove(t, level))
<1> DEFINE P == {i \in DOMAIN t : LevelRank[t[i].level] >= LevelRank[level]}
<1>1. AtOrAbove(t, level) = Chosen(t, P) /\ P \in SUBSET DOMAIN t
    BY DEF AtOrAbove
<1>2. PICK i \in DOMAIN t : t[i] = x
    BY DEF Range
<1>3. i \in P
    BY <1>2
<1> HIDE DEF P
<1>4. \A y : y \in Range(Chosen(t, P)) <=> \E k \in P : y = t[k]
    BY <1>1, ListedChosen DEF IsEvents
<1> QED
    BY <1>1, <1>2, <1>3, <1>4

\* The findings sorted start with one that none is more severe than.
LEMMA WorstFirst ==
    ASSUME NEW f, IsFindings(f), f # <<>>
    PROVE  LET t == Sorted(f, [i \in DOMAIN f |-> -SeverityRank[f[i].severity]], Times(f))
           IN  /\ Listed(t) /\ t # <<>> /\ t[1] \in Range(f)
               /\ \A x \in Range(f) : SeverityRank[x.severity] <= SeverityRank[t[1].severity]
<1> DEFINE first == [i \in DOMAIN f |-> -SeverityRank[f[i].severity]]
           second == Times(f)
           n == Len(f)
           t == Sorted(f, first, second)
<1>1. DOMAIN f = 1..n /\ n \in Nat /\ Listed(f)
    BY ListedDomain DEF IsFindings
<1>2. ASSUME NEW i \in 1..n
      PROVE  /\ f[i] \in Range(f) /\ f[i].time \in Nat /\ SeverityRank[f[i].severity] \in Int
             /\ first[i] = -SeverityRank[f[i].severity] /\ second[i] = f[i].time
    <2>1. f[i] \in Range(f)
        BY <1>1 DEF Range
    <2>2. f[i].severity \in DOMAIN SeverityRank /\ f[i].time \in Nat
        BY <2>1 DEF IsFindings
    <2>3. SeverityRank[f[i].severity] \in Int
        BY <2>2 DEF SeverityRank
    <2>4. first[i] = -SeverityRank[f[i].severity] /\ second[i] = f[i].time
        BY <1>1 DEF Times
    <2> QED
        BY <2>1, <2>2, <2>3, <2>4
<1>3. \A i \in DOMAIN f : first[i] \in Int /\ second[i] \in Int
    <2>1. ASSUME NEW i \in DOMAIN f PROVE first[i] \in Int /\ second[i] \in Int
        <3> DEFINE rank == SeverityRank[f[i].severity]
        <3>1. rank \in Int /\ first[i] = -rank /\ second[i] = f[i].time /\ f[i].time \in Nat
            BY <1>1, <1>2
        <3> HIDE DEF rank, first, second
        <3> QED
            BY <3>1
    <2> QED
        BY <2>1
<1>4. n # 0
    BY <1>1 DEF Listed
<1> HIDE DEF first, second
<1>5. /\ Listed(t) /\ Len(t) = n
      /\ \E at \in [1..n -> 1..n] :
            /\ \A k \in 1..n : t[k] = f[at[k]]
            /\ \A i \in 1..n : \E k \in 1..n : at[k] = i
            /\ \A k, l \in 1..n : k <= l => \/ first[at[k]] < first[at[l]]
                                            \/ first[at[k]] = first[at[l]] /\ second[at[k]] <= second[at[l]]
    BY <1>1, <1>3, ListedSorted
<1> HIDE DEF n, t
<1>6. PICK at \in [1..n -> 1..n] :
            /\ \A k \in 1..n : t[k] = f[at[k]]
            /\ \A i \in 1..n : \E k \in 1..n : at[k] = i
            /\ \A k, l \in 1..n : k <= l => \/ first[at[k]] < first[at[l]]
                                            \/ first[at[k]] = first[at[l]] /\ second[at[k]] <= second[at[l]]
    BY <1>5
<1>7. 1 \in 1..n
    BY <1>1, <1>4
<1> DEFINE a == at[1]
<1>8. a \in 1..n /\ t[1] = f[a]
    BY <1>6, <1>7
<1> HIDE DEF a
<1>9. ASSUME NEW i \in 1..n PROVE SeverityRank[f[i].severity] <= SeverityRank[t[1].severity]
    <2>1. PICK k \in 1..n : at[k] = i
        BY <1>6
    <2>2. first[a] < first[i] \/ first[a] = first[i]
        <3>1. 1 <= k
            OBVIOUS
        <3> QED
            BY <1>6, <1>7, <2>1, <3>1 DEF a
    <2> DEFINE x == SeverityRank[f[a].severity]
               y == SeverityRank[f[i].severity]
    <2>3. x \in Int /\ y \in Int /\ first[a] = -x /\ first[i] = -y
        BY <1>2, <1>8
    <2> HIDE DEF x, y
    <2>4. y <= x
        BY <2>2, <2>3
    <2> QED
        BY <1>8, <2>4 DEF x, y
<1>10. t[1] \in Range(f)
    BY <1>2, <1>8
<1>11. \A x \in Range(f) : SeverityRank[x.severity] <= SeverityRank[t[1].severity]
    BY <1>1, <1>9 DEF Range
<1>12. t # <<>>
    BY <1>4, <1>5
<1> QED
    BY <1>5, <1>10, <1>11, <1>12 DEF t, first, second

\* The finding on top is one of the report's, and none is more severe.
LEMMA TopIsWorst ==
    ASSUME NEW r, IsFindings(r.findings), r.findings # <<>>
    PROVE  LET top == TopFindings(r, 1)[1]
           IN  /\ top \in Range(r.findings)
               /\ \A f \in Range(r.findings) : SeverityRank[f.severity] <= SeverityRank[top.severity]
<1> DEFINE f == r.findings
           t == Sorted(f, [i \in DOMAIN f |-> -SeverityRank[f[i].severity]], Times(f))
<1>1. TopFindings(r, 1) = IF Len(t) > 1 THEN SubSeq(t, 1, 1) ELSE t
    BY DEF TopFindings
<1>2. /\ Listed(t) /\ t # <<>> /\ t[1] \in Range(f)
      /\ \A x \in Range(f) : SeverityRank[x.severity] <= SeverityRank[t[1].severity]
    BY WorstFirst
<1> HIDE DEF t
<1>3. TopFindings(r, 1)[1] = t[1]
    <2>1. t \in Seq(Range(t))
        BY <1>2 DEF Listed
    <2>2. CASE Len(t) > 1
        BY <1>1, <2>1, <2>2
    <2>3. CASE ~(Len(t) > 1)
        BY <1>1, <2>3
    <2> QED
        BY <2>2, <2>3
<1> QED
    BY <1>2, <1>3

\* An incident's report shows what it was opened for (build_incident_timeline,
\* top_incident_findings, recommend_incident_actions).
THEOREM ReportsFaithful == Spec => []ReportFaithful
<1> SUFFICES ASSUME SamplesTyped, ReportKept, report # EmptyReport
             PROVE  ReportFaithful
    BY SamplesAlways, ReportAlways, PTL DEF ReportFaithful
<1> DEFINE timeline == BuildTimeline(report)
           top == TopFindings(report, 1)[1]
           summary == Summarize(report)
<1>1. IsReport(report, now) /\ now \in Nat
    BY DEF ReportKept, SamplesTyped
<1>2. PICK e : /\ IsEvents(e) /\ timeline = TimelineSort(e)
               /\ \A a \in Range(FiringAlerts(report.alerts)) :
                    TimelineEvent(a.evaluated_at, TimelineLevelFor(SeverityFromAlert(a.severity)), a.rule)
                        \in Range(e)
    BY <1>1, TimelineBuilt
<1>3. /\ IsEvents(timeline) /\ Range(timeline) = Range(e)
      /\ \A i \in 2..Len(timeline) :
            \/ timeline[i - 1].time < timeline[i].time
            \/ /\ timeline[i - 1].time = timeline[i].time
               /\ LevelRank[timeline[i - 1].level] >= LevelRank[timeline[i].level]
    BY <1>2, TimelineSorted
<1> HIDE DEF timeline
<1>4. ASSUME NEW a \in Range(FiringAlerts(report.alerts))
      PROVE  \E x \in Range(AtOrAbove(timeline, IF a.severity = "info" THEN "info" ELSE "warning")) :
                x.source = a.rule /\ x.time = a.evaluated_at
    <2> DEFINE level == TimelineLevelFor(SeverityFromAlert(a.severity))
               x == TimelineEvent(a.evaluated_at, level, a.rule)
               least == IF a.severity = "info" THEN "info" ELSE "warning"
    <2>1. x \in Range(timeline)
        BY <1>2, <1>3
    <2>2. x.source = a.rule /\ x.time = a.evaluated_at /\ x.level = level
        BY DEF TimelineEvent
    <2>3. a.severity \in {"info", "warning", "critical"}
        BY <1>1, FiringTyped DEF IsReport, IsAlerts
    <2>4. LevelRank[level] >= LevelRank[least]
        <3>1. \/ level = "info" /\ least = "info"
              \/ level = "warning" /\ least = "warning"
              \/ level = "error" /\ least = "warning"
            BY <2>3 DEF TimelineLevelFor, SeverityFromAlert
        <3> HIDE DEF level, least
        <3> QED
            BY <3>1 DEF LevelRank
    <2> HIDE DEF x, level, least
    <2>5. x \in Range(AtOrAbove(timeline, least))
        BY <1>3, <2>1, <2>2, <2>4, EventsAbove
    <2> QED
        BY <2>2, <2>5 DEF least
<1>5. /\ top \in Range(report.findings)
      /\ \A f \in Range(report.findings) : SeverityRank[f.severity] <= SeverityRank[top.severity]
    BY <1>1, TopIsWorst DEF IsReport
<1> HIDE DEF top
<1>6. ASSUME summary.exhausted_slo_count > 0 PROVE top.severity = "critical"
    <2> DEFINE Q == {i \in DOMAIN report.slo_statuses : report.slo_statuses[i].status = "exhausted"}
    <2>1. summary.exhausted_slo_count = Cardinality(Q)
        BY DEF Summarize
    <2> HIDE DEF summary
    <2>2. Q # {}
        <3> HIDE DEF Q
        <3>1. SUFFICES ASSUME Q = {} PROVE FALSE
            OBVIOUS
        <3>2. Cardinality(Q) = 0
            BY <3>1, FS_EmptySet
        <3> QED
            BY <1>6, <2>1, <3>2
    <2>3. PICK f \in Range(report.findings) : f.severity = "critical"
        BY <1>1, <2>2 DEF IsReport
    <2>4. SeverityRank["critical"] <= SeverityRank[top.severity]
        BY <1>5, <2>3
    <2>5. top.severity \in DOMAIN SeverityRank
        BY <1>1, <1>5 DEF IsReport, IsFindings
    <2> QED
        BY <2>4, <2>5 DEF SeverityRank
<1>7. summary.duration = IF report.status = "resolved" THEN report.resolved_at[1] - report.opened_at ELSE 0
    <2> DEFINE end == IF report.resolved_at # <<>> THEN report.resolved_at[1] ELSE report.updated_at
    <2>1. summary.duration = Max({0, end - report.opened_at})
        BY DEF Summarize
    <2>2. \A x \in Nat : Max({0, x}) = x
        <3>1. ASSUME NEW x \in Nat PROVE Max({0, x}) = x
            <4>1. x \in {0, x} /\ \A y \in {0, x} : y <= x
                OBVIOUS
            <4>2. \A z \in {0, x} : (\A y \in {0, x} : y <= z) => z = x
                OBVIOUS
            <4> QED
                BY <4>1, <4>2 DEF Max
        <3> QED
            BY <3>1
    <2>3. /\ report.opened_at \in Nat
          /\ \/ report.status = "investigating" /\ report.resolved_at = <<>> /\ report.updated_at = report.opened_at
             \/ report.status = "resolved" /\ \E t \in report.opened_at..now : report.resolved_at = <<t>>
        BY <1>1 DEF IsReport
    <2>4. CASE report.status = "investigating"
        BY <2>1, <2>2, <2>3, <2>4
    <2>5. CASE report.status = "resolved"
        <3>1. PICK t \in report.opened_at..now : report.resolved_at = <<t>>
            BY <2>3, <2>5
        <3>2. end = t /\ t - report.opened_at \in Nat
            BY <1>1, <2>3, <3>1
        <3> HIDE DEF summary, end
        <3> QED
            BY <2>1, <2>2, <2>5, <3>1, <3>2
    <2> QED
        BY <2>3, <2>4, <2>5
<1>8. summary.open_action_count > 0
    <2> DEFINE Q == {i \in DOMAIN report.actions : ~report.actions[i].completed}
    <2>1. summary.open_action_count = Cardinality(Q)
        BY DEF Summarize
    <2>2. Q # {} /\ Q \subseteq DOMAIN report.actions
        BY <1>1 DEF IsReport
    <2>3. IsFiniteSet(DOMAIN report.actions)
        BY <1>1, ListedDomain DEF IsReport
    <2> HIDE DEF Q, summary
    <2>4. IsFiniteSet(Q)
        BY <2>2, <2>3, FS_Subset
    <2>5. Cardinality(Q) \in Nat /\ Cardinality(Q) # 0
        BY <2>2, <2>4, FS_CardinalityType, FS_EmptySet
    <2> QED
        BY <2>1, <2>5
<1> HIDE DEF summary
<1> QED
    BY <1>3, <1>4, <1>5, <1>6, <1>7, <1>8 DEF ReportFaithful, timeline, top, summary

-----------------------------------------------------------------------------
(* The events of the error budget. *)
IsHistogram(h) ==
    /\ "observations" \in DOMAIN h /\ Listed(h.observations)
    /\ \A x \in Range(h.observations) : x.time \in Nat

IsBudget(events) ==
    Listed(events) /\ \A x \in Range(events) : x.time \in Nat /\ x.kind \in {"good", "bad", "ignored"} /\ x.weight \in Nat

\* An appended element is one of the sequence's, and the last.
LEMMA ListedAppend ==
    ASSUME NEW s, Listed(s), NEW x
    PROVE  Listed(Append(s, x)) /\ Range(Append(s, x)) = Range(s) \cup {x}
<1>1. Listed(<<x>>) /\ Range(<<x>>) = {x}
    BY DEF Listed, Range
<1>2. Append(s, x) = s \o <<x>>
    <2> DEFINE S == Range(s) \cup {x}
    <2>1. s \in [1..Len(s) -> Range(s)] /\ Len(s) \in Nat
        BY DEF Listed
    <2>2. s \in [1..Len(s) -> S]
        BY <2>1
    <2>3. s \in Seq(S) /\ x \in S
        BY <2>1, <2>2
    <2> HIDE DEF S
    <2> QED
        BY <2>3, AppendIsConcat
<1> QED
    BY <1>1, <1>2, ListedConcat

\* A histogram that is given an observation is one.
LEMMA ObserveTyped ==
    ASSUME NEW h, IsHistogram(h), NEW o, o.time \in Nat
    PROVE  IsHistogram(Observe(h, o))
<1> DEFINE i == Min(BucketFor(h.buckets, o.value))
           added == Append(h.observations, o)
           over == [h EXCEPT !.observations = added, !.overflow = @ + 1]
           fits == [h EXCEPT !.observations = added, !.buckets[i].count = @ + 1]
<1>1. Observe(h, o) \in {over, fits}
    BY DEF Observe
<1>2. "observations" \in DOMAIN h
    BY DEF IsHistogram
<1> HIDE DEF i, added
<1>3. over.observations = added /\ "observations" \in DOMAIN over
    BY <1>2
<1>4. fits.observations = added /\ "observations" \in DOMAIN fits
    BY <1>2
<1> HIDE DEF over, fits
<1>5. Listed(added) /\ Range(added) = Range(h.observations) \cup {o}
    BY ListedAppend DEF IsHistogram, added
<1>6. \A x \in Range(added) : x.time \in Nat
    BY <1>5 DEF IsHistogram
<1>7. Observe(h, o).observations = added /\ "observations" \in DOMAIN Observe(h, o)
    BY <1>1, <1>3, <1>4
<1> QED
    BY <1>5, <1>6, <1>7 DEF IsHistogram

\* g is the function by which the merging of observations s into h is defined.
MergedAt(g, h, s, p) == IF p = {} THEN h ELSE Observe(g[p \ {Max(p)}], s[Max(p)])

IsMerge(g, h, s) == g = [p \in SUBSET DOMAIN s |-> MergedAt(g, h, s, p)]

\* The fold over the other histogram's observations is defined: a least number of them for which
\* it were not would contradict its own step.
LEMMA MergeExists ==
    ASSUME NEW h, NEW s, Listed(s)
    PROVE  \E g : IsMerge(g, h, s)
<1> DEFINE D == DOMAIN s
           Sub(n) == {p \in SUBSET D : Cardinality(p) <= n}
           OnSubsets(g) == g = [p \in SUBSET D |-> g[p]]
           Good(g, n) == \A p \in Sub(n) : g[p] = MergedAt(g, h, s, p)
           Bad == {n \in Nat : ~ \E g : OnSubsets(g) /\ Good(g, n)}
<1>0. /\ IsFiniteSet(D) /\ D \subseteq Nat
      /\ \A p \in SUBSET D : IsFiniteSet(p) /\ Cardinality(p) \in Nat /\ Cardinality(p) <= Cardinality(D)
      /\ \A p \in SUBSET D : p # {} => Max(p) \in p
    <2>1. D = 1..Len(s) /\ Len(s) \in Nat /\ IsFiniteSet(D)
        BY ListedDomain
    <2>2. \A p \in SUBSET D : IsFiniteSet(p) /\ Cardinality(p) \in Nat /\ Cardinality(p) <= Cardinality(D)
        BY <2>1, FS_Subset, FS_CardinalityType
    <2>3. ASSUME NEW p \in SUBSET D, p # {} PROVE Max(p) \in p
        <3>1. \E m \in p : \A k \in p : k <= m
            <4> DEFINE n == Len(s)
            <4>1. n \in Nat /\ p \subseteq 1..n
                BY <2>1
            <4> HIDE DEF n
            <4> QED
                BY <2>3, <4>1, GreatestNumber
        <3> QED
            BY <3>1 DEF Max
    <2> QED
        BY <2>1, <2>2, <2>3
<1>1. Bad = {}
    <2> SUFFICES ASSUME Bad # {} PROVE FALSE
        OBVIOUS
    <2>1. PICK n \in Bad : \A k \in Bad : n <= k
        BY LeastNumber
    <2>2. CASE n = 0
        <3> DEFINE g == [p \in SUBSET D |-> h]
        <3>1. \A p \in Sub(0) : p = {}
            BY <1>0, FS_EmptySet
        <3>2. Good(g, 0)
            BY <3>1 DEF MergedAt
        <3>3. OnSubsets(g)
            OBVIOUS
        <3> QED
            BY <2>1, <2>2, <3>2, <3>3
    <2>3. CASE n # 0
        <3>1. n - 1 \in Nat /\ n - 1 \notin Bad /\ n \in Nat
            <4>1. n \in Nat
                OBVIOUS
            <4> HIDE DEF Bad
            <4> QED
                BY <2>1, <2>3, <4>1
        <3>2. PICK g : OnSubsets(g) /\ Good(g, n - 1)
            BY <3>1
        <3> DEFINE f == [p \in SUBSET D |-> MergedAt(g, h, s, p)]
        <3>3. \A p \in Sub(n - 1) : f[p] = g[p]
            BY <3>2
        <3>4. ASSUME NEW p \in Sub(n) PROVE f[p] = MergedAt(f, h, s, p)
            <4>1. CASE p = {}
                BY <4>1 DEF MergedAt
            <4>2. CASE p # {}
                <5> DEFINE q == p \ {Max(p)}
                <5>1. Max(p) \in p /\ IsFiniteSet(p) /\ Cardinality(p) \in Nat /\ Cardinality(p) <= n
                    BY <1>0, <4>2
                <5>2. Cardinality(q) \in Nat /\ Cardinality(q) = Cardinality(p) - 1
                    BY <5>1, Smaller
                <5>3. q \in Sub(n - 1)
                    BY <3>1, <5>1, <5>2
                <5>4. f[q] = g[q]
                    BY <3>3, <5>3
                <5> HIDE DEF f
                <5>5. MergedAt(f, h, s, p) = MergedAt(g, h, s, p)
                    BY <5>4 DEF MergedAt
                <5> QED
                    BY <5>5 DEF f
            <4> QED
                BY <4>1, <4>2
        <3>5. OnSubsets(f) /\ Good(f, n)
            BY <3>4
        <3> QED
            BY <2>1, <3>5
    <2> QED
        BY <2>2, <2>3
<1>2. PICK g : OnSubsets(g) /\ Good(g, Cardinality(D))
    BY <1>0, <1>1, FS_CardinalityType
<1>3. \A p \in SUBSET D : g[p] = MergedAt(g, h, s, p)
    BY <1>0, <1>2
<1>4. IsMerge(g, h, s)
    BY <1>2, <1>3 DEF IsMerge
<1> QED
    BY <1>4

\* Merging keeps a histogram one.
LEMMA MergeTyped ==
    ASSUME NEW h, IsHistogram(h), NEW other, IsHistogram(other)
    PROVE  IsHistogram(MergeHistogram(h, other))
<1> DEFINE s == other.observations
           D == DOMAIN s
           iter == CHOOSE g : g = [p \in SUBSET D |-> IF p = {} THEN h
                                        ELSE Observe(g[p \ {Max(p)}], s[Max(p)])]
<1>1. MergeHistogram(h, other) = iter[D]
    BY DEF MergeHistogram, FoldLeft, MapThenFoldSet
<1>2. IsMerge(iter, h, s)
    <2>1. \E g : IsMerge(g, h, s)
        BY MergeExists DEF IsHistogram
    <2> QED
        BY <2>1 DEF IsMerge, MergedAt
<1> HIDE DEF iter
<1>3. \A p \in SUBSET D : iter[p] = MergedAt(iter, h, s, p)
    BY <1>2 DEF IsMerge
<1> DEFINE Good == {p \in SUBSET D : IsHistogram(iter[p])}
           Bad == {p \in SUBSET D : p \notin Good}
<1>4. D = 1..Len(s) /\ Len(s) \in Nat /\ IsFiniteSet(D)
    BY ListedDomain DEF IsHistogram
<1>5. Bad = {}
    <2> SUFFICES ASSUME Bad # {} PROVE FALSE
        OBVIOUS
    <2>1. \A p \in Bad : IsFiniteSet(p)
        BY <1>4, FS_Subset
    <2>2. PICK p \in Bad : \A q \in Bad : Cardinality(p) <= Cardinality(q)
        <3> HIDE DEF Bad
        <3> QED
            BY <2>1, SmallestSet
    <2>3. p \in SUBSET D /\ ~IsHistogram(iter[p])
        OBVIOUS
    <2>4. p # {}
        BY <1>3, <2>3 DEF MergedAt
    <2> DEFINE m == Max(p)
               q == p \ {m}
    <2>5. m \in p
        <3>1. \E k \in p : \A l \in p : l <= k
            <4> DEFINE n == Len(s)
            <4>1. n \in Nat /\ p \subseteq 1..n
                BY <1>4, <2>3
            <4> HIDE DEF n
            <4> QED
                BY <2>4, <4>1, GreatestNumber
        <3> QED
            BY <3>1 DEF Max
    <2>6. Cardinality(q) \in Nat /\ Cardinality(p) \in Nat /\ Cardinality(q) = Cardinality(p) - 1
        <3> HIDE DEF m
        <3> QED
            BY <2>1, <2>5, Smaller
    <2>7. q \notin Bad
        <3> HIDE DEF Bad, q
        <3> QED
            BY <2>2, <2>6
    <2>8. IsHistogram(iter[q])
        BY <2>3, <2>7
    <2>9. iter[p] = Observe(iter[q], s[m])
        BY <1>3, <2>3, <2>4 DEF MergedAt
    <2>10. s[m].time \in Nat
        <3>1. s[m] \in Range(s)
            BY <2>3, <2>5 DEF Range
        <3> QED
            BY <3>1 DEF IsHistogram
    <2> HIDE DEF q, m
    <2>11. IsHistogram(iter[p])
        BY <2>8, <2>9, <2>10, ObserveTyped
    <2> QED
        BY <2>3, <2>11
<1>6. IsHistogram(iter[D])
    BY <1>5
<1> QED
    BY <1>1, <1>6

BudgetTyped == IsHistogram(edge) /\ IsHistogram(hub) /\ IsBudget(slo)

\* A histogram is one when it is made and when it is cleared.
LEMMA EmptyHistogram ==
    /\ \A bounds : IsHistogram(MakeHistogram(bounds))
    /\ \A h : IsHistogram(ClearHistogram(h))
<1>1. Listed(<<>>) /\ Range(<<>>) = {}
    BY DEF Listed, Range
<1>2. ASSUME NEW bounds PROVE IsHistogram(MakeHistogram(bounds))
    <2>1. MakeHistogram(bounds).observations = <<>> /\ "observations" \in DOMAIN MakeHistogram(bounds)
        BY DEF MakeHistogram
    <2> QED
        BY <1>1, <2>1 DEF IsHistogram
<1>3. ASSUME NEW h PROVE IsHistogram(ClearHistogram(h))
    <2>1. ClearHistogram(h).observations = <<>> /\ "observations" \in DOMAIN ClearHistogram(h)
        BY DEF ClearHistogram
    <2> QED
        BY <1>1, <2>1 DEF IsHistogram
<1> QED
    BY <1>2, <1>3

\* The histograms and the events that the budget is judged by keep their types.
LEMMA BudgetAlways == Spec => []BudgetTyped
<1>1. Init => BudgetTyped
    <2> SUFFICES ASSUME Init PROVE BudgetTyped
        OBVIOUS
    <2>1. IsBudget(<<>>)
        BY DEF IsBudget, Listed, Range
    <2> QED
        BY <2>1, EmptyHistogram DEF Init, BudgetTyped
<1>2. SamplesTyped /\ BudgetTyped /\ [Next]_vars => BudgetTyped'
    <2> SUFFICES ASSUME SamplesTyped, BudgetTyped, [Next]_vars PROVE BudgetTyped'
        OBVIOUS
    <2>1. now \in Nat /\ IsHistogram(edge) /\ IsHistogram(hub) /\ IsBudget(slo)
        BY DEF SamplesTyped, BudgetTyped
    <2>2. ASSUME NEW v \in Latency, ObserveLatency(v) PROVE BudgetTyped'
        <3> DEFINE o == [value |-> v, time |-> now]
        <3>1. edge' = Observe(edge, o) /\ hub' = hub /\ slo' = slo
            BY <2>2 DEF ObserveLatency
        <3>2. IsHistogram(Observe(edge, o))
            <4>1. o.time \in Nat
                BY <2>1
            <4> HIDE DEF o
            <4> QED
                BY <2>1, <4>1, ObserveTyped
        <3> HIDE DEF o
        <3> QED
            BY <2>1, <3>1, <3>2 DEF BudgetTyped
    <2>3. CASE MergeUp
        <3>1. hub' = MergeHistogram(hub, edge) /\ edge' = ClearHistogram(edge) /\ slo' = slo
            BY <2>3 DEF MergeUp
        <3> QED
            BY <2>1, <3>1, MergeTyped, EmptyHistogram DEF BudgetTyped
    <2>4. ASSUME NEW e \in SloInput, AddSloEvent(e.kind, e.weight) PROVE BudgetTyped'
        <3> DEFINE x == SloEvent(now, e.kind, e.weight)
        <3>1. slo' = Append(slo, x) /\ edge' = edge /\ hub' = hub
            BY <2>4 DEF AddSloEvent
        <3>2. x.time \in Nat /\ x.kind \in {"good", "bad", "ignored"} /\ x.weight \in Nat
            <4>1. e.kind \in {"good", "bad", "ignored"} /\ e.weight \in Nat
                BY DiagnosticsAssumption
            <4> QED
                BY <2>1, <4>1 DEF SloEvent
        <3> HIDE DEF x
        <3>3. Listed(slo') /\ Range(slo') = Range(slo) \cup {x}
            BY <2>1, <3>1, ListedAppend DEF IsBudget
        <3>4. IsBudget(slo')
            BY <2>1, <3>2, <3>3 DEF IsBudget
        <3> QED
            BY <2>1, <3>1, <3>4 DEF BudgetTyped
    <2>5. CASE UNCHANGED <<edge, hub, slo>>
        BY <2>5 DEF BudgetTyped
    <2>6. \/ \E v \in Latency : ObserveLatency(v)
          \/ MergeUp
          \/ \E e \in SloInput : AddSloEvent(e.kind, e.weight)
          \/ UNCHANGED <<edge, hub, slo>>
        BY DEF Next, vars, metricVars, AddSample, Scrape, OpenReport, Resolve, Tick
    <2> QED
        BY <2>2, <2>3, <2>4, <2>5, <2>6
<1> QED
    BY <1>1, <1>2, SamplesAlways, PTL DEF Spec

\* The events made of a histogram's observations (SloWindow::from_histogram).
LEMMA LatencyEvents ==
    ASSUME NEW h, IsHistogram(h), NEW threshold
    PROVE  IsBudget(SloFromHistogram(h, threshold))
<1> DEFINE s == h.observations
           n == Len(s)
           Verdict(o) == IF LatencyBad(o.value, threshold) THEN "bad" ELSE "good"
           e == SloFromHistogram(h, threshold)
<1>1. DOMAIN s = 1..n /\ n \in Nat
    BY ListedDomain DEF IsHistogram
<1>2. e = [i \in 1..n |-> SloEvent(s[i].time, Verdict(s[i]), 1)]
    BY <1>1 DEF SloFromHistogram
<1>3. \A i \in 1..n : s[i].time \in Nat
    BY <1>1 DEF IsHistogram, Range
<1>4. \A i \in 1..n : Verdict(s[i]) \in {"good", "bad"}
    OBVIOUS
<1> HIDE DEF e, n, s, Verdict
<1>5. Listed(e) /\ DOMAIN e = 1..n
    <2>1. e = [i \in 1..n |-> e[i]]
        BY <1>2
    <2> QED
        BY <1>1, <2>1, ListedBuilt
<1>6. ASSUME NEW i \in 1..n PROVE e[i].time \in Nat /\ e[i].kind \in {"good", "bad"} /\ e[i].weight = 1
    <2>1. e[i] = SloEvent(s[i].time, Verdict(s[i]), 1)
        BY <1>2
    <2>2. Verdict(s[i]) # "ignored"
        BY <1>4
    <2>3. e[i].time = s[i].time /\ e[i].kind = Verdict(s[i]) /\ e[i].weight = 1
        BY <2>1, <2>2 DEF SloEvent
    <2> QED
        BY <1>3, <1>4, <2>3
<1> QED
    BY <1>5, <1>6 DEF IsBudget, Range, e

\* The events of two windows together.
LEMMA BudgetMerged ==
    ASSUME NEW a, IsBudget(a), NEW b, IsBudget(b)
    PROVE  IsBudget(MergeSloEvents(a, b))
<1> DEFINE rank == [bad |-> 1, good |-> 2, ignored |-> 3]
           all == a \o b
           first == Times(all)
           second == [i \in DOMAIN all |-> rank[all[i].kind]]
           n == Len(all)
           t == Sorted(all, first, second)
<1>1. MergeSloEvents(a, b) = t
    BY DEF MergeSloEvents
<1>2. IsBudget(all)
    <2>1. Listed(all) /\ Range(all) = Range(a) \cup Range(b)
        BY ListedConcat DEF IsBudget
    <2> QED
        BY <2>1, Zenon DEF IsBudget
<1> HIDE DEF all
<1>3. DOMAIN all = 1..n /\ n \in Nat /\ Listed(all)
    BY <1>2, ListedDomain DEF IsBudget
<1>4. \A i \in DOMAIN all : first[i] \in Int /\ second[i] \in Int
    <2>1. ASSUME NEW i \in DOMAIN all PROVE first[i] \in Int /\ second[i] \in Int
        <3>1. all[i] \in Range(all)
            BY DEF Range
        <3>2. all[i].time \in Nat /\ all[i].kind \in {"good", "bad", "ignored"}
            BY <1>2, <3>1 DEF IsBudget
        <3> QED
            BY <3>2 DEF Times
    <2> QED
        BY <2>1
<1> HIDE DEF first, second
<1>5. t \in Seq(Range(all)) /\ Enumerates(t, all, DOMAIN all, By(first, second, DOMAIN all))
    BY <1>3, <1>4, SortedEnumerates DEF Listed
<1> HIDE DEF t
<1>6. Listed(t) /\ Range(t) \subseteq Range(all)
    <2>1. t \in [1..Len(t) -> Range(all)] /\ Len(t) \in Nat
        BY <1>5
    <2>2. t \in [1..Len(t) -> Range(t)]
        BY <2>1 DEF Range
    <2> QED
        BY <2>1, <2>2 DEF Listed, Range
<1> QED
    BY <1>1, <1>2, <1>6 DEF IsBudget

\* The events the budget is judged by.
LEMMA EventsTyped ==
    ASSUME BudgetTyped
    PROVE  IsBudget(BudgetEvents)
BY LatencyEvents, BudgetMerged DEF BudgetTyped, BudgetEvents

-----------------------------------------------------------------------------
(* A range of time and its slices. *)

\* What is left of a distance by the width of a slice.
\* The remainder of a division is determined by its equation.
LEMMA Remainder ==
    ASSUME NEW d \in Nat, d > 0, NEW q \in Nat, NEW r \in Nat, r < d
    PROVE  (d * q + r) % d = r
<1> DEFINE p == d * q
           u == (p + r) \div d
           v == (p + r) % d
<1>1. p \in Nat
    OBVIOUS
<1>2. u \in Nat /\ v \in Nat /\ v < d /\ p + r = d * u + v
    <2> HIDE DEF p
    <2> QED
        BY <1>1
<1>3. p = d * q
    OBVIOUS
<1> HIDE DEF p, u, v
<1>4. d * u - d * q = d * (u - q) /\ d * (u - q) \in Int
    BY <1>2
<1>5. d * (u - q) = r - v
    BY <1>2, <1>3, <1>4
<1>6. CASE u - q >= 1
    <2>1. d * (u - q) >= d
        <3> DEFINE k == u - q - 1
        <3>1. k \in Nat /\ u - q = k + 1
            BY <1>2, <1>6
        <3> HIDE DEF k
        <3>2. d * (k + 1) = d * k + d /\ d * k \in Nat
            BY <3>1
        <3> QED
            BY <3>1, <3>2
    <2> QED
        BY <1>2, <1>5, <2>1
<1>7. CASE u - q <= -1
    <2>1. d * (u - q) <= -d
        <3> DEFINE k == q - u - 1
        <3>1. k \in Nat /\ u - q = -(k + 1)
            BY <1>2, <1>7
        <3> HIDE DEF k
        <3>2. d * (-(k + 1)) = -(d * k) - d /\ d * k \in Nat
            BY <3>1
        <3> QED
            BY <3>1, <3>2
    <2> QED
        BY <1>2, <1>5, <2>1
<1>8. CASE u = q
    BY <1>2, <1>3, <1>8
<1> QED
    BY <1>2, <1>6, <1>7, <1>8 DEF v, p

\* Every number has a quotient and a remainder.
LEMMA Divided ==
    ASSUME NEW d \in Nat, d > 0, NEW x \in Nat
    PROVE  \E q \in Nat, r \in Nat : x = d * q + r /\ r < d /\ x % d = r
<1> DEFINE q == x \div d
           r == x % d
<1>1. q \in Nat /\ r \in Nat /\ r < d /\ x = d * q + r
    OBVIOUS
<1> HIDE DEF q
<1> QED
    BY <1>1

\* The lesser of two numbers.
LEMMA LesserOf ==
    ASSUME NEW a \in Int, NEW b \in Int
    PROVE  Min({a, b}) = IF a <= b THEN a ELSE b
<1> DEFINE m == IF a <= b THEN a ELSE b
<1>1. m \in {a, b} /\ \A y \in {a, b} : m <= y
    OBVIOUS
<1>2. \A z \in {a, b} : (\A y \in {a, b} : z <= y) => z = m
    OBVIOUS
<1> QED
    BY <1>1, <1>2 DEF Min

\* The start of the slice an instant is in.
Home(time, start, width) == time - ((time - start) % (width + 1))

SliceEnd(c, width, end) == Min({c + width, end})

\* Every instant of the range is in the slice that starts at its home, and in no other.
LEMMA SliceHome ==
    ASSUME NEW start \in Nat, NEW end \in Nat, NEW width \in Nat, NEW time \in start..end
    PROVE  /\ Home(time, start, width) \in SliceStarts(start, end, width)
           /\ \A c \in SliceStarts(start, end, width) :
                time \in c..SliceEnd(c, width, end) <=> c = Home(time, start, width)
<1> DEFINE d == width + 1
           x == time - start
           h == Home(time, start, width)
<1>1. d \in Nat /\ d > 0 /\ x \in Nat
    OBVIOUS
<1>2. PICK q \in Nat, r \in Nat : x = d * q + r /\ r < d /\ x % d = r
    <2> HIDE DEF d, x
    <2> QED
        BY <1>1, Divided
<1>3. h = time - r
    BY <1>2 DEF Home
<1> DEFINE p == d * q
<1>4. p \in Nat /\ p % d = 0
    <2> HIDE DEF d
    <2>1. p \in Nat /\ p = d * q + 0
        BY <1>1
    <2>2. (d * q + 0) % d = 0
        BY <1>1, Remainder
    <2> QED
        BY <2>1, <2>2
<1>5. x = p + r /\ x = time - start
    BY <1>2
<1> HIDE DEF p, x, h
<1>6. h - start = p /\ h \in start..end /\ h <= time
    BY <1>3, <1>4, <1>5
<1>7. h \in SliceStarts(start, end, width)
    BY <1>4, <1>6 DEF SliceStarts
<1>8. ASSUME NEW c \in SliceStarts(start, end, width)
      PROVE  time \in c..SliceEnd(c, width, end) <=> c = h
    <2>1. c \in start..end /\ (c - start) % d = 0
        BY DEF SliceStarts
    <2>2. SliceEnd(c, width, end) = IF c + width <= end THEN c + width ELSE end
        BY <2>1, LesserOf DEF SliceEnd
    <2>3. time \in c..SliceEnd(c, width, end) <=> c <= time /\ time - c < d
        BY <2>1, <2>2
    <2>4. CASE c = h
        BY <1>2, <1>3, <1>6, <2>3, <2>4
    <2>5. ASSUME c <= time, time - c < d PROVE c = h
        <3> DEFINE y == c - start
                   s == time - c
        <3>1. y \in Nat /\ s \in Nat /\ s < d /\ x = y + s
            <4>1. c \in Int /\ start <= c /\ time \in Int /\ x = time - start
                BY <1>5, <2>1
            <4>2. y \in Nat /\ s \in Nat /\ s < d
                BY <2>5, <4>1
            <4> QED
                BY <4>1, <4>2
        <3>2. y % d = 0
            BY <2>1
        <3> HIDE DEF y, d
        <3>3. PICK k \in Nat, z \in Nat : y = d * k + z /\ z < d /\ y % d = z
            BY <1>1, <3>1, Divided
        <3>4. y = d * k
            <4> DEFINE e == d * k
            <4>1. e \in Nat /\ y = e + z /\ z = 0
                BY <1>1, <3>2, <3>3
            <4> HIDE DEF e
            <4>2. y = e
                BY <4>1
            <4> QED
                BY <4>2 DEF e
        <3> HIDE DEF s
        <3>5. (d * k + s) % d = s
            BY <1>1, <3>1, Remainder
        <3>6. x % d = s
            BY <3>1, <3>4, <3>5
        <3>7. r = s
            BY <1>2, <3>6
        <3> QED
            BY <1>3, <2>1, <3>7 DEF s
    <2> QED
        BY <2>3, <2>4, <2>5
<1> QED
    BY <1>7, <1>8 DEF h

\* What is summed over the slices is what is summed over the range.
LEMMA SlicesSum ==
    ASSUME NEW e, IsBudget(e), NEW start \in Nat, NEW end \in Nat, NEW width \in Nat, NEW kinds,
           NEW w, \A i \in DOMAIN e : w[i] \in Nat
    PROVE  LET Starts == SliceStarts(start, end, width)
           IN  /\ IsFiniteSet(Starts)
               /\ SumFunctionOnSet([c \in Starts |-> SumFunctionOnSet(w, Counted(e, c, SliceEnd(c, width, end), kinds))],
                                   Starts)
                    = SumFunctionOnSet(w, Counted(e, start, end, kinds))
<1> DEFINE Starts == SliceStarts(start, end, width)
           P == Counted(e, start, end, kinds)
           home == [i \in P |-> Home(e[i].time, start, width)]
           Within(c) == Counted(e, c, SliceEnd(c, width, end), kinds)
<1>1. IsFiniteSet(Starts) /\ Starts \subseteq start..end
    <2>1. Starts \subseteq start..end
        BY DEF SliceStarts
    <2>2. IsFiniteSet(start..end)
        BY FS_Interval
    <2> QED
        BY <2>1, <2>2, FS_Subset
<1>2. IsFiniteSet(P) /\ P \subseteq DOMAIN e
    <2>1. P \subseteq DOMAIN e
        BY DEF Counted
    <2>2. IsFiniteSet(DOMAIN e)
        BY ListedDomain DEF IsBudget
    <2> QED
        BY <2>1, <2>2, FS_Subset
<1>3. \A i \in P : e[i].time \in start..end
    BY DEF Counted
<1>4. home \in [P -> Starts]
    BY <1>3, SliceHome
<1>5. ASSUME NEW c \in Starts PROVE Within(c) = {i \in P : home[i] = c}
    <2>1. c \in start..end /\ SliceEnd(c, width, end) = IF c + width <= end THEN c + width ELSE end
        BY <1>1, LesserOf DEF SliceEnd
    <2>2. ASSUME NEW i \in Within(c) PROVE i \in P /\ home[i] = c
        <3>1. i \in DOMAIN e /\ e[i].time \in c..SliceEnd(c, width, end) /\ e[i].kind \in kinds
            BY DEF Counted
        <3>2. e[i].time \in start..end
            BY <2>1, <3>1
        <3>3. i \in P
            BY <3>1, <3>2 DEF Counted
        <3>4. c = Home(e[i].time, start, width)
            BY <3>1, <3>2, SliceHome
        <3> QED
            BY <3>3, <3>4
    <2>3. ASSUME NEW i \in P, home[i] = c PROVE i \in Within(c)
        <3>1. i \in DOMAIN e /\ e[i].time \in start..end /\ e[i].kind \in kinds
            BY DEF Counted
        <3>2. c = Home(e[i].time, start, width)
            BY <2>3
        <3>3. e[i].time \in c..SliceEnd(c, width, end)
            BY <3>1, <3>2, SliceHome
        <3> QED
            BY <3>1, <3>3 DEF Counted
    <2> QED
        BY <2>2, <2>3
<1> HIDE DEF P, home, Starts, Within
<1> DEFINE f == [c \in Starts |-> SumFunctionOnSet(w, Within(c))]
           g == [c \in Starts |-> SumFunctionOnSet(w, {i \in P : home[i] = c})]
<1>6. \A c \in Starts : f[c] = g[c]
    BY <1>5
<1>7. SumFunctionOnSet(g, Starts) = SumFunctionOnSet(w, P)
    BY <1>1, <1>2, <1>4, SumParts
<1> HIDE DEF f, g
<1>8. SumFunctionOnSet(f, Starts) = SumFunctionOnSet(g, Starts)
    BY <1>1, <1>6, SumSame
<1> QED
    BY <1>1, <1>7, <1>8 DEF f, Within, Starts, P

SliceNumbers == {"good", "bad", "ignored", "total_weight", "bad_weight"}

\* Each number of a slice is a sum over the events it counts.
LEMMA FieldIsSum ==
    ASSUME NEW e, IsBudget(e), NEW f \in SliceNumbers
    PROVE  \E w, kinds : /\ \A i \in DOMAIN e : w[i] \in Nat
                         /\ \A a, b : Slice(e, a, b)[f] = SumFunctionOnSet(w, Counted(e, a, b, kinds))
<1> DEFINE ones == [i \in DOMAIN e |-> 1]
           weights == [i \in DOMAIN e |-> e[i].weight]
<1>1. \A i \in DOMAIN e : ones[i] \in Nat /\ weights[i] \in Nat
    BY DEF IsBudget, Range
<1>2. ASSUME NEW a, NEW b, NEW kinds
      PROVE  SumFunctionOnSet(ones, Counted(e, a, b, kinds)) = Cardinality(Counted(e, a, b, kinds))
    <2> DEFINE C == Counted(e, a, b, kinds)
    <2>1. C \subseteq DOMAIN e /\ IsFiniteSet(DOMAIN e)
        BY ListedDomain DEF Counted, IsBudget
    <2>2. \A i \in C : ones[i] = 1
        BY <2>1
    <2> HIDE DEF C, ones
    <2>3. IsFiniteSet(C)
        BY <2>1, FS_Subset
    <2>4. SumFunctionOnSet(ones, C) = Cardinality(C)
        BY <2>2, <2>3, SumOfOnes
    <2> QED
        BY <2>4 DEF C
<1>3. ASSUME NEW a, NEW b
      PROVE  /\ Slice(e, a, b)["good"] = Cardinality(Counted(e, a, b, {"good"}))
             /\ Slice(e, a, b)["bad"] = Cardinality(Counted(e, a, b, {"bad"}))
             /\ Slice(e, a, b)["ignored"] = Cardinality(Counted(e, a, b, {"ignored"}))
             /\ Slice(e, a, b)["total_weight"] = SumFunctionOnSet(weights, Counted(e, a, b, {"good", "bad"}))
             /\ Slice(e, a, b)["bad_weight"] = SumFunctionOnSet(weights, Counted(e, a, b, {"bad"}))
    BY DEF Slice
<1> HIDE DEF ones, weights
<1>4. CASE f \in {"good", "bad", "ignored"}
    <2>1. \A a, b : Slice(e, a, b)[f] = SumFunctionOnSet(ones, Counted(e, a, b, {f}))
        <3>1. ASSUME NEW a, NEW b PROVE Slice(e, a, b)[f] = SumFunctionOnSet(ones, Counted(e, a, b, {f}))
            <4>1. Slice(e, a, b)[f] = Cardinality(Counted(e, a, b, {f}))
                BY <1>3, <1>4
            <4> QED
                BY <1>2, <4>1
        <3> QED
            BY <3>1
    <2> QED
        BY <1>1, <2>1
<1>5. CASE f = "total_weight"
    BY <1>1, <1>3, <1>5
<1>6. CASE f = "bad_weight"
    BY <1>1, <1>3, <1>6
<1> QED
    BY <1>4, <1>5, <1>6 DEF SliceNumbers

\* Each number of the range is the sum of those of its slices.
LEMMA SlicesAddUp ==
    ASSUME NEW e, IsBudget(e), NEW start \in Nat, NEW end \in Nat, start <= end,
           NEW width \in Nat, width > 0, NEW f \in SliceNumbers
    PROVE  LET slices == Partition(e, start, end, width)
           IN  SumFunctionOnSet([s \in slices |-> s[f]], slices) = Slice(e, start, end)[f]
<1> DEFINE slices == Partition(e, start, end, width)
           Starts == SliceStarts(start, end, width)
           Cell(c) == Slice(e, c, SliceEnd(c, width, end))
           b == [c \in Starts |-> Cell(c)]
           g == [s \in slices |-> s[f]]
<1>1. slices = {Cell(c) : c \in Starts}
    BY DEF Partition, SliceEnd
<1>2. \A c : Cell(c).start = c
    BY DEF Slice
<1> HIDE DEF slices, Starts, Cell
<1>3. b \in Bijection(Starts, slices)
    <2>1. b \in [Starts -> slices] /\ \A s \in slices : \E c \in Starts : b[c] = s
        BY <1>1
    <2>2. \A c, d \in Starts : b[c] = b[d] => c = d
        BY <1>2
    <2> QED
        BY <2>1, <2>2 DEF Bijection, Injection, Surjection, IsInjective
<1>4. PICK w, kinds : /\ \A i \in DOMAIN e : w[i] \in Nat
                      /\ \A x, y : Slice(e, x, y)[f] = SumFunctionOnSet(w, Counted(e, x, y, kinds))
    BY FieldIsSum
<1> DEFINE h == [c \in Starts |-> SumFunctionOnSet(w, Counted(e, c, SliceEnd(c, width, end), kinds))]
<1>5. IsFiniteSet(Starts) /\ SumFunctionOnSet(h, Starts) = SumFunctionOnSet(w, Counted(e, start, end, kinds))
    BY <1>4, SlicesSum DEF Starts
<1>6. \A c \in Starts : h[c] = g[b[c]] /\ h[c] \in Nat
    <2>1. ASSUME NEW c \in Starts PROVE h[c] = g[b[c]] /\ h[c] \in Nat
        <3> DEFINE C == Counted(e, c, SliceEnd(c, width, end), kinds)
        <3>1. C \subseteq DOMAIN e /\ IsFiniteSet(DOMAIN e)
            BY ListedDomain DEF Counted, IsBudget
        <3>2. h[c] = SumFunctionOnSet(w, C)
            OBVIOUS
        <3>3. b[c] \in slices /\ b[c] = Cell(c) /\ Cell(c)[f] = SumFunctionOnSet(w, C)
            BY <1>1, <1>4 DEF Cell
        <3> HIDE DEF C, h, b
        <3>4. IsFiniteSet(C) /\ \A i \in C : w[i] \in Nat
            BY <1>4, <3>1, FS_Subset
        <3>5. h[c] \in Nat
            BY <3>2, <3>4, SumTyped
        <3>6. g[b[c]] = h[c]
            BY <3>2, <3>3
        <3> QED
            BY <3>5, <3>6
    <2> QED
        BY <2>1
<1> HIDE DEF h, g, b
<1>7. SumFunctionOnSet(h, Starts) = SumFunctionOnSet(g, slices)
    BY <1>3, <1>5, <1>6, SumRenamed
<1>8. SumFunctionOnSet(g, slices) = Slice(e, start, end)[f]
    BY <1>4, <1>5, <1>7
<1> QED
    BY <1>8 DEF g, slices

\* A slice's bad events are among those it weighs.
LEMMA BadWithin ==
    ASSUME NEW e, IsBudget(e), NEW a, NEW b
    PROVE  LET s == Slice(e, a, b)
           IN  s.bad_weight \in Nat /\ s.total_weight \in Nat /\ s.bad_weight <= s.total_weight
<1> DEFINE weights == [i \in DOMAIN e |-> e[i].weight]
           All == Counted(e, a, b, {"good", "bad"})
           Some == Counted(e, a, b, {"bad"})
           s == Slice(e, a, b)
<1>1. s.total_weight = SumFunctionOnSet(weights, All) /\ s.bad_weight = SumFunctionOnSet(weights, Some)
    BY DEF Slice
<1>2. All \subseteq DOMAIN e /\ Some \subseteq All /\ IsFiniteSet(DOMAIN e)
    BY ListedDomain DEF Counted, IsBudget
<1>3. \A i \in DOMAIN e : weights[i] \in Nat
    BY DEF IsBudget, Range
<1> HIDE DEF All, Some, weights, s
<1>4. IsFiniteSet(All) /\ IsFiniteSet(Some)
    BY <1>2, FS_Subset
<1>5. SumFunctionOnSet(weights, All) \in Nat /\ SumFunctionOnSet(weights, Some) \in Nat
    BY <1>2, <1>3, <1>4, SumTyped
<1>6. SumFunctionOnSet(weights, Some) <= SumFunctionOnSet(weights, All)
    BY <1>2, <1>3, <1>4, SumWithin
<1> QED
    BY <1>1, <1>5, <1>6 DEF s

\* When a budget is exhausted, without fractions.
Spent(allowed, bad, total) ==
    total # 0 /\ IF allowed = 0 THEN bad # 0 ELSE bad * 1000 >= total * allowed

\* The status of a slice says whether its budget is spent.
LEMMA ExhaustedSlice ==
    ASSUME NEW objective, objective.target \in Nat, NEW s, s.bad_weight \in Nat, s.total_weight \in Nat, NEW time
    PROVE  EvaluateSloSlice(objective, s, time).status = "exhausted"
            <=> Spent(AllowedError(objective.target), s.bad_weight, s.total_weight)
<1> DEFINE allowed == AllowedError(objective.target)
           used == BudgetUsed(objective.target, s)
           bad == s.bad_weight
           total == s.total_weight
<1>1. EvaluateSloSlice(objective, s, time).status = IF total = 0 THEN "unknown" ELSE ClassifyBudget(used)
    BY DEF EvaluateSloSlice
<1>2. used = IF allowed = 0 THEN IF bad = 0 THEN <<0, 1>> ELSE <<1, 1>>
             ELSE <<bad * 1000, total * allowed>>
    BY DEF BudgetUsed
<1>3. allowed \in Nat
    BY DEF AllowedError
<1> HIDE DEF allowed, used, bad, total
<1>4. ASSUME NEW x \in Nat, NEW y \in Nat PROVE ClassifyBudget(<<x, y>>) = "exhausted" <=> x >= y
    BY DEF ClassifyBudget
<1>5. bad \in Nat /\ total \in Nat
    BY DEF bad, total
<1>6. bad * 1000 \in Nat /\ total * allowed \in Nat
    BY <1>3, <1>5
<1>7. CASE allowed = 0
    BY <1>1, <1>2, <1>4, <1>5, <1>7 DEF Spent, allowed, bad, total
<1>8. CASE allowed # 0
    <2>1. used = <<bad * 1000, total * allowed>>
        BY <1>2, <1>8
    <2>2. ClassifyBudget(used) = "exhausted" <=> bad * 1000 >= total * allowed
        BY <1>4, <1>6, <2>1
    <2>3. EvaluateSloSlice(objective, s, time).status = "exhausted" <=> total # 0 /\ bad * 1000 >= total * allowed
        BY <1>1, <2>2
    <2> QED
        BY <1>8, <2>3 DEF Spent, allowed, bad, total
<1> QED
    BY <1>7, <1>8

\* A budget that is spent as a whole is spent in one of the parts.
LEMMA PartSpent ==
    ASSUME NEW S, IsFiniteSet(S), NEW bad, NEW total, NEW allowed \in Nat,
           \A s \in S : bad[s] \in Nat /\ total[s] \in Nat /\ bad[s] <= total[s],
           Spent(allowed, SumFunctionOnSet(bad, S), SumFunctionOnSet(total, S))
    PROVE  \E s \in S : Spent(allowed, bad[s], total[s])
<1> SUFFICES ASSUME \A s \in S : ~Spent(allowed, bad[s], total[s])
             PROVE  FALSE
    OBVIOUS
<1>1. SumFunctionOnSet(bad, S) \in Nat /\ SumFunctionOnSet(total, S) \in Nat
    BY SumTyped
<1>2. CASE allowed = 0
    <2>1. \A s \in S : bad[s] = 0
        BY <1>2 DEF Spent
    <2>2. SumFunctionOnSet(bad, S) = 0
        BY <2>1, SumZero
    <2> QED
        BY <1>2, <2>2 DEF Spent
<1>3. CASE allowed # 0
    <2>1. ASSUME NEW s \in S PROVE 1000 * bad[s] <= allowed * total[s]
        <3> DEFINE x == bad[s]
                   y == total[s]
        <3>1. x \in Nat /\ y \in Nat /\ x <= y /\ ~(y # 0 /\ x * 1000 >= y * allowed)
            BY <1>3 DEF Spent
        <3> HIDE DEF x, y
        <3>2. CASE y = 0
            <4>1. x = 0
                BY <3>1, <3>2
            <4> QED
                BY <3>2, <4>1 DEF x, y
        <3>3. CASE y # 0
            <4> DEFINE m == y * allowed
            <4>1. m \in Int /\ m = allowed * y
                BY <3>1
            <4>2. ~(x * 1000 >= m)
                BY <3>1, <3>3
            <4> HIDE DEF m
            <4>3. 1000 * x <= m
                BY <3>1, <4>1, <4>2
            <4> QED
                BY <4>1, <4>3 DEF x, y
        <3> QED
            BY <3>2, <3>3
    <2>2. PICK z \in S : total[z] # 0
        <3>1. SUFFICES ASSUME \A z \in S : total[z] = 0 PROVE FALSE
            OBVIOUS
        <3>2. SumFunctionOnSet(total, S) = 0
            BY <3>1, SumZero
        <3> QED
            BY <3>2 DEF Spent
    <2>3. 1000 * bad[z] < allowed * total[z]
        <3> DEFINE x == bad[z]
                   y == total[z]
                   m == y * allowed
        <3>1. x \in Nat /\ y \in Nat /\ y # 0 /\ ~(x * 1000 >= m)
            BY <1>3, <2>2 DEF Spent
        <3> HIDE DEF x, y
        <3>2. m \in Int /\ m = allowed * y
            BY <3>1
        <3> HIDE DEF m
        <3>3. 1000 * x < m
            BY <3>1, <3>2
        <3> QED
            BY <3>2, <3>3 DEF x, y
    <2>4. 1000 * SumFunctionOnSet(bad, S) < allowed * SumFunctionOnSet(total, S)
        BY <2>1, <2>2, <2>3, SumCompareStrictly
    <2> DEFINE x == SumFunctionOnSet(bad, S)
               y == SumFunctionOnSet(total, S)
    <2>5. x * 1000 >= y * allowed
        BY <1>3 DEF Spent
    <2>6. 1000 * x < allowed * y /\ x \in Nat /\ y \in Nat
        BY <1>1, <2>4
    <2> HIDE DEF x, y
    <2>7. allowed * y = y * allowed /\ y * allowed \in Int
        BY <2>6
    <2> DEFINE m == y * allowed
    <2>8. m \in Int /\ x * 1000 >= m /\ 1000 * x < m
        BY <2>5, <2>6, <2>7
    <2> HIDE DEF m
    <2> QED
        BY <2>6, <2>8
<1> QED
    BY <1>2, <1>3

\* The slices of a range count every event of it exactly once, and a range whose budget is
\* exhausted has a slice whose budget is (SloWindow::partition, evaluate).
THEOREM PartitionsExact == Spec => []PartitionExact
<1> SUFFICES ASSUME SamplesTyped, BudgetTyped PROVE PartitionExact
    BY SamplesAlways, BudgetAlways, PTL
<1> DEFINE e == BudgetEvents
           Exhausted(s) == EvaluateSloSlice(Objective, s, now).status = "exhausted"
           allowed == AllowedError(Objective.target)
<1>1. IsBudget(e) /\ now \in Nat /\ Objective.target \in Nat
    BY EventsTyped, DiagnosticsAssumption DEF SamplesTyped
<1>2. allowed \in Nat
    BY <1>1 DEF AllowedError
<1> HIDE DEF e, allowed
<1>3. ASSUME NEW start \in 0..now, NEW end \in start..now, NEW width \in 1..now
      PROVE  LET slices == Partition(e, start, end, width)
                 whole == Slice(e, start, end)
             IN  /\ \A f \in SliceNumbers : SumFunctionOnSet([s \in slices |-> s[f]], slices) = whole[f]
                 /\ Exhausted(whole) => \E s \in slices : Exhausted(s)
    <2> DEFINE slices == Partition(e, start, end, width)
               whole == Slice(e, start, end)
               bad == [s \in slices |-> s["bad_weight"]]
               total == [s \in slices |-> s["total_weight"]]
               Starts == SliceStarts(start, end, width)
    <2>1. start \in Nat /\ end \in Nat /\ start <= end /\ width \in Nat /\ width > 0
        BY <1>1
    <2>2. \A f \in SliceNumbers : SumFunctionOnSet([s \in slices |-> s[f]], slices) = whole[f]
        BY <1>1, <2>1, SlicesAddUp
    <2>3. /\ SumFunctionOnSet(bad, slices) = whole.bad_weight
          /\ SumFunctionOnSet(total, slices) = whole.total_weight
        BY <2>2 DEF SliceNumbers
    <2>4. slices = {Slice(e, c, SliceEnd(c, width, end)) : c \in Starts}
        BY <2>1 DEF Partition, SliceEnd
    <2>5. IsFiniteSet(slices)
        <3> DEFINE g == [c \in Starts |-> Slice(e, c, SliceEnd(c, width, end))]
        <3>1. g \in Surjection(Starts, slices)
            BY <2>4 DEF Surjection
        <3>2. Starts \subseteq start..end
            BY DEF SliceStarts
        <3> HIDE DEF g, slices, Starts
        <3>3. IsFiniteSet(start..end)
            BY <2>1, FS_Interval
        <3>4. IsFiniteSet(Starts)
            BY <3>2, <3>3, FS_Subset
        <3> QED
            BY <3>1, <3>4, FS_Surjection
    <2>6. \A s \in slices : s.bad_weight \in Nat /\ s.total_weight \in Nat /\ s.bad_weight <= s.total_weight
        BY <1>1, <2>4, BadWithin
    <2>7. whole.bad_weight \in Nat /\ whole.total_weight \in Nat
        BY <1>1, BadWithin
    <2>8. ASSUME Exhausted(whole) PROVE \E s \in slices : Exhausted(s)
        <3>1. Spent(allowed, whole.bad_weight, whole.total_weight)
            BY <1>1, <2>7, <2>8, ExhaustedSlice DEF allowed
        <3>2. \A s \in slices : bad[s] = s.bad_weight /\ total[s] = s.total_weight
            OBVIOUS
        <3> HIDE DEF bad, total, slices, whole
        <3>3. PICK s \in slices : Spent(allowed, bad[s], total[s])
            BY <1>2, <2>3, <2>5, <2>6, <3>1, <3>2, PartSpent
        <3>4. Exhausted(s)
            BY <1>1, <2>6, <3>2, <3>3, ExhaustedSlice DEF allowed
        <3> QED
            BY <3>4
    <2> QED
        BY <2>2, <2>8
<1> QED
    BY <1>3 DEF PartitionExact, SliceNumbers, e
=============================================================================
