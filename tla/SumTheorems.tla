---------------------------- MODULE SumTheorems ----------------------------
(***************************************************************************)
(* Facts about the library's SumFunctionOnSet and SumFunction, with which  *)
(* the specifications count: that the function they are defined by exists, *)
(* that a sum does not depend on the order in which the elements are       *)
(* taken, and how it changes with one element.  The provers have no        *)
(* induction; the facts are proved from a counterexample of least          *)
(* cardinality.  Then about finite sets laid out by the places of their    *)
(* elements in an order, and about sequences of which only the elements    *)
(* matter.                                                                 *)
(***************************************************************************)
EXTENDS Integers, Sequences, Functions, FiniteSetTheorems, NaturalsInduction, WellFoundedInduction, TLAPS

\* Every set of naturals that is not empty has a least element.
LEMMA LeastNumber ==
    ASSUME NEW T, T \subseteq Nat, T # {}
    PROVE  \E m \in T : \A k \in T : m <= k
<1> DEFINE R == OpToRel(<, Nat)
<1>1. IsWellFoundedOn(R, Nat)
    BY NatLessThanWellFounded
<1>2. \A x, y \in Nat : <<x, y>> \in R <=> x < y
    BY DEF OpToRel
<1> HIDE DEF R
<1>3. PICK m \in T : \A k \in T : ~(<<k, m>> \in R)
    BY <1>1, WFMin
<1>4. ASSUME NEW k \in T PROVE m <= k
    <2>1. k \in Nat /\ m \in Nat
        OBVIOUS
    <2>2. ~(k < m)
        BY <1>2, <1>3, <2>1, Zenon
    <2> QED
        BY <2>1, <2>2
<1> QED
    BY <1>4

\* Every set of naturals below a bound that is not empty has a greatest element.
LEMMA GreatestNumber ==
    ASSUME NEW n \in Nat, NEW B, B \subseteq 1..n, B # {}
    PROVE  \E m \in B : \A k \in B : k <= m
<1> DEFINE C == {n - k : k \in B}
<1>0. \A k \in B : k \in Int /\ n - k \in Nat
    OBVIOUS
<1>1. C \subseteq Nat /\ C # {}
    BY <1>0
<1>2. PICK c \in C : \A k \in C : c <= k
    <2> HIDE DEF C
    <2> QED
        BY <1>1, LeastNumber
<1>3. PICK m \in B : c = n - m
    OBVIOUS
<1>4. ASSUME NEW k \in B PROVE k <= m
    <2>1. c <= n - k
        BY <1>2
    <2>2. m \in Int /\ k \in Int
        BY <1>0
    <2> QED
        BY <1>3, <2>1, <2>2
<1> QED
    BY <1>4

\* In a set of finite sets that is not empty, one is smallest.
LEMMA SmallestSet ==
    ASSUME NEW B, B # {}, \A T \in B : IsFiniteSet(T)
    PROVE  \E T \in B : \A U \in B : Cardinality(T) <= Cardinality(U)
<1> DEFINE N == {Cardinality(T) : T \in B}
<1>1. N \subseteq Nat /\ N # {}
    BY FS_CardinalityType
<1> HIDE DEF N
<1>2. PICK n \in N : \A k \in N : n <= k
    BY <1>1, LeastNumber
<1> QED
    BY <1>2 DEF N

\* Taking an element away makes a finite set smaller.
LEMMA Smaller ==
    ASSUME NEW T, IsFiniteSet(T), NEW x \in T
    PROVE  /\ IsFiniteSet(T \ {x}) /\ Cardinality(T \ {x}) \in Nat /\ Cardinality(T) \in Nat
           /\ Cardinality(T \ {x}) = Cardinality(T) - 1
BY FS_RemoveElement, FS_CardinalityType

-----------------------------------------------------------------------------
(* Sums.                                                                   *)

Pick(s) == CHOOSE x \in s : TRUE

Folded(g, f, s) == IF s = {} THEN 0 ELSE f[Pick(s)] + g[s \ {Pick(s)}]

\* g is the function by which SumFunctionOnSet(f, S) is defined.
IsFold(g, f, S) == g = [s \in SUBSET S |-> Folded(g, f, s)]

\* A set that is not empty has a picked element.
LEMMA PickIn == ASSUME NEW s, s # {} PROVE Pick(s) \in s
BY DEF Pick

\* The sum is a value of such a function, if there is one.
LEMMA SumIsFold ==
    ASSUME NEW f, NEW S, \E g : IsFold(g, f, S)
    PROVE  \E g : IsFold(g, f, S) /\ SumFunctionOnSet(f, S) = g[S]
<1> DEFINE g == CHOOSE h : h = [s \in SUBSET S |-> IF s = {} THEN 0
                                  ELSE f[CHOOSE x \in s : TRUE] + h[s \ {CHOOSE x \in s : TRUE}]]
<1>1. SumFunctionOnSet(f, S) = g[S]
    BY DEF SumFunctionOnSet, FoldFunctionOnSet, MapThenFoldSet
<1>2. IsFold(g, f, S)
    BY DEF IsFold, Folded, Pick
<1> QED
    BY <1>1, <1>2

\* The function exists, on the subsets of at most n elements for each n.
LEMMA FoldExists ==
    ASSUME NEW f, NEW S, IsFiniteSet(S)
    PROVE  \E g : IsFold(g, f, S)
<1> DEFINE Sub(n) == {s \in SUBSET S : Cardinality(s) <= n}
           Good(g, n) == \A s \in Sub(n) : g[s] = Folded(g, f, s)
           Bad == {n \in Nat : ~ \E g : DOMAIN g = SUBSET S /\ g = [s \in SUBSET S |-> g[s]] /\ Good(g, n)}
<1>0. \A s \in SUBSET S : IsFiniteSet(s) /\ Cardinality(s) \in Nat /\ Cardinality(s) <= Cardinality(S)
    BY FS_Subset, FS_CardinalityType
<1>1. Bad = {}
    <2> SUFFICES ASSUME Bad # {} PROVE FALSE
        OBVIOUS
    <2>1. PICK n \in Bad : \A k \in Bad : n <= k
        BY LeastNumber
    <2>2. CASE n = 0
        <3> DEFINE g == [s \in SUBSET S |-> 0]
        <3>1. \A s \in Sub(0) : s = {}
            BY <1>0, FS_EmptySet
        <3>2. Good(g, 0)
            BY <3>1 DEF Folded
        <3>3. DOMAIN g = SUBSET S /\ g = [s \in SUBSET S |-> g[s]]
            OBVIOUS
        <3> QED
            BY <2>1, <2>2, <3>2, <3>3
    <2>3. CASE n # 0
        <3>1. n - 1 \in Nat /\ n - 1 \notin Bad /\ n \in Nat
            <4>1. n \in Nat
                OBVIOUS
            <4> HIDE DEF Bad
            <4> QED
                BY <2>1, <2>3, <4>1
        <3>2. PICK g : DOMAIN g = SUBSET S /\ g = [s \in SUBSET S |-> g[s]] /\ Good(g, n - 1)
            BY <3>1
        <3> DEFINE h == [s \in SUBSET S |-> Folded(g, f, s)]
        <3>3. \A s \in Sub(n - 1) : h[s] = g[s]
            BY <3>2
        <3>4. ASSUME NEW s \in Sub(n) PROVE h[s] = Folded(h, f, s)
            <4>1. CASE s = {}
                BY <4>1 DEF Folded
            <4>2. CASE s # {}
                <5> DEFINE t == s \ {Pick(s)}
                <5>1. Pick(s) \in s /\ IsFiniteSet(s) /\ Cardinality(s) \in Nat /\ Cardinality(s) <= n
                    BY <1>0, <4>2, PickIn
                <5>2. Cardinality(t) \in Nat /\ Cardinality(t) = Cardinality(s) - 1
                    BY <5>1, Smaller
                <5>3. t \in Sub(n - 1)
                    BY <3>1, <5>1, <5>2
                <5>4. h[t] = g[t]
                    BY <3>3, <5>3
                <5> HIDE DEF h
                <5>5. Folded(h, f, s) = Folded(g, f, s)
                    BY <5>4 DEF Folded
                <5> QED
                    BY <5>5 DEF h
            <4> QED
                BY <4>1, <4>2
        <3>5. DOMAIN h = SUBSET S /\ h = [s \in SUBSET S |-> h[s]] /\ Good(h, n)
            BY <3>4
        <3> QED
            BY <2>1, <3>5
    <2> QED
        BY <2>2, <2>3
<1>2. PICK g : DOMAIN g = SUBSET S /\ g = [s \in SUBSET S |-> g[s]] /\ Good(g, Cardinality(S))
    BY <1>1, FS_CardinalityType
<1>3. \A s \in SUBSET S : g[s] = Folded(g, f, s)
    BY <1>0, <1>2
<1>4. IsFold(g, f, S)
    BY <1>2, <1>3 DEF IsFold
<1> QED
    BY <1>4
\* Two such functions for sets one of which includes the other agree.
LEMMA FoldsAgree ==
    ASSUME NEW f, NEW S, IsFiniteSet(S), NEW T \in SUBSET S, NEW g, NEW h,
           IsFold(g, f, S), IsFold(h, f, T)
    PROVE  \A s \in SUBSET T : g[s] = h[s]
<1> DEFINE Bad == {s \in SUBSET T : g[s] # h[s]}
<1> SUFFICES ASSUME Bad # {} PROVE FALSE
    OBVIOUS
<1>0. \A s \in SUBSET S : IsFiniteSet(s)
    BY FS_Subset
<1>1. PICK s \in Bad : \A t \in Bad : Cardinality(s) <= Cardinality(t)
    <2>1. \A s \in Bad : IsFiniteSet(s)
        BY <1>0
    <2> HIDE DEF Bad
    <2> QED
        BY <2>1, SmallestSet
<1>2. /\ s \in SUBSET T /\ s \in SUBSET S /\ g[s] # h[s]
      /\ g[s] = Folded(g, f, s) /\ h[s] = Folded(h, f, s)
    BY DEF IsFold
<1>3. CASE s = {}
    BY <1>2, <1>3 DEF Folded
<1>4. CASE s # {}
    <2> DEFINE t == s \ {Pick(s)}
    <2>1. Pick(s) \in s /\ IsFiniteSet(s)
        BY <1>0, <1>2, <1>4, PickIn
    <2>2. Cardinality(t) \in Nat /\ Cardinality(s) \in Nat /\ Cardinality(t) = Cardinality(s) - 1
        BY <2>1, Smaller
    <2>3. t \in SUBSET T
        BY <1>2
    <2>4. t \notin Bad
        <3> HIDE DEF Bad
        <3> QED
            BY <1>1, <2>2
    <2>5. g[t] = h[t]
        BY <2>3, <2>4
    <2> QED
        BY <1>2, <2>5 DEF Folded
<1> QED
    BY <1>3, <1>4

\* The empty sum.
LEMMA SumEmpty == ASSUME NEW f PROVE SumFunctionOnSet(f, {}) = 0
<1>1. IsFiniteSet({})
    BY FS_EmptySet
<1>2. PICK g : IsFold(g, f, {}) /\ SumFunctionOnSet(f, {}) = g[{}]
    BY <1>1, FoldExists, SumIsFold
<1> QED
    BY <1>2 DEF IsFold, Folded

\* A sum is the picked summand and the sum of the rest.
LEMMA SumPicked ==
    ASSUME NEW f, NEW S, IsFiniteSet(S), S # {}
    PROVE  SumFunctionOnSet(f, S) = f[Pick(S)] + SumFunctionOnSet(f, S \ {Pick(S)})
<1> DEFINE T == S \ {Pick(S)}
<1>1. Pick(S) \in S /\ IsFiniteSet(T) /\ T \in SUBSET S
    BY PickIn, FS_RemoveElement
<1>2. PICK g : IsFold(g, f, S) /\ SumFunctionOnSet(f, S) = g[S]
    BY FoldExists, SumIsFold
<1> HIDE DEF T
<1>3. PICK h : IsFold(h, f, T) /\ SumFunctionOnSet(f, T) = h[T]
    BY <1>1, FoldExists, SumIsFold
<1>4. g[T] = h[T]
    <2>1. \A s \in SUBSET T : g[s] = h[s]
        BY <1>1, <1>2, <1>3, FoldsAgree
    <2> QED
        BY <2>1
<1>5. g[S] = f[Pick(S)] + g[T]
    BY <1>2 DEF IsFold, Folded, T
<1> QED
    BY <1>2, <1>3, <1>4, <1>5 DEF T

\* A sum of naturals is a natural.
LEMMA SumTyped ==
    ASSUME NEW f, NEW S, IsFiniteSet(S), \A x \in S : f[x] \in Nat
    PROVE  SumFunctionOnSet(f, S) \in Nat
<1> DEFINE Bad == {T \in SUBSET S : SumFunctionOnSet(f, T) \notin Nat}
<1> SUFFICES ASSUME Bad # {} PROVE FALSE
    OBVIOUS
<1>0. \A T \in SUBSET S : IsFiniteSet(T)
    BY FS_Subset
<1>1. PICK T \in Bad : \A U \in Bad : Cardinality(T) <= Cardinality(U)
    <2>1. \A T \in Bad : IsFiniteSet(T)
        BY <1>0
    <2> HIDE DEF Bad
    <2> QED
        BY <2>1, SmallestSet
<1>2. T \in SUBSET S /\ SumFunctionOnSet(f, T) \notin Nat /\ IsFiniteSet(T)
    BY <1>0
<1>3. T # {}
    BY <1>2, SumEmpty
<1> DEFINE x == Pick(T)
           U == T \ {x}
<1>4. x \in T /\ f[x] \in Nat
    BY <1>2, <1>3, PickIn
<1>5. Cardinality(U) \in Nat /\ Cardinality(T) \in Nat /\ Cardinality(U) = Cardinality(T) - 1
    BY <1>2, <1>4, Smaller
<1>6. U \in SUBSET S /\ U \notin Bad
    <2>1. U \in SUBSET S
        BY <1>2
    <2> HIDE DEF Bad
    <2> QED
        BY <1>1, <1>5, <2>1
<1>7. SumFunctionOnSet(f, U) \in Nat
    BY <1>6
<1>8. SumFunctionOnSet(f, T) = f[x] + SumFunctionOnSet(f, U)
    BY <1>2, <1>3, SumPicked
<1> QED
    BY <1>2, <1>4, <1>7, <1>8

\* Any element can be taken out first.
LEMMA SumRemove ==
    ASSUME NEW f, NEW S, IsFiniteSet(S), \A x \in S : f[x] \in Nat, NEW z \in S
    PROVE  SumFunctionOnSet(f, S) = f[z] + SumFunctionOnSet(f, S \ {z})
<1> DEFINE Off(T, y) == SumFunctionOnSet(f, T) # f[y] + SumFunctionOnSet(f, T \ {y})
           Bad == {T \in SUBSET S : \E y \in T : Off(T, y)}
<1> SUFFICES ASSUME Bad # {} PROVE FALSE
    OBVIOUS
<1>0. \A T \in SUBSET S : IsFiniteSet(T) /\ SumFunctionOnSet(f, T) \in Nat
    BY FS_Subset, SumTyped
<1>1. PICK T \in Bad : \A U \in Bad : Cardinality(T) <= Cardinality(U)
    <2>1. \A T \in Bad : IsFiniteSet(T)
        BY <1>0
    <2> HIDE DEF Bad
    <2> QED
        BY <2>1, SmallestSet
<1>2. T \in SUBSET S /\ IsFiniteSet(T)
    BY <1>0
<1>3. PICK y \in T : Off(T, y)
    OBVIOUS
<1> DEFINE x == Pick(T)
<1>4. x \in T /\ SumFunctionOnSet(f, T) = f[x] + SumFunctionOnSet(f, T \ {x})
    BY <1>2, <1>3, PickIn, SumPicked
<1> HIDE DEF x
<1>5. x # y
    BY <1>3, <1>4
<1>6. \A w \in T : T \ {w} \in SUBSET S /\ T \ {w} \notin Bad
    <2> SUFFICES ASSUME NEW w \in T PROVE T \ {w} \in SUBSET S /\ T \ {w} \notin Bad
        OBVIOUS
    <2>1. Cardinality(T \ {w}) \in Nat /\ Cardinality(T) \in Nat /\ Cardinality(T \ {w}) = Cardinality(T) - 1
        BY <1>2, Smaller
    <2> HIDE DEF Bad
    <2> QED
        BY <1>1, <1>2, <2>1
<1>7. SumFunctionOnSet(f, T \ {x}) = f[y] + SumFunctionOnSet(f, (T \ {x}) \ {y})
    BY <1>4, <1>5, <1>6
<1>8. SumFunctionOnSet(f, T \ {y}) = f[x] + SumFunctionOnSet(f, (T \ {y}) \ {x})
    BY <1>4, <1>5, <1>6
<1>9. (T \ {x}) \ {y} = (T \ {y}) \ {x} /\ (T \ {x}) \ {y} \in SUBSET S
    BY <1>2
<1> DEFINE a == f[x]
           b == f[y]
           c == SumFunctionOnSet(f, (T \ {x}) \ {y})
<1>10. a \in Nat /\ b \in Nat /\ c \in Nat
    BY <1>0, <1>2, <1>4, <1>9
<1>11. /\ SumFunctionOnSet(f, T) = a + (b + c)
       /\ f[y] + SumFunctionOnSet(f, T \ {y}) = b + (a + c)
    BY <1>4, <1>7, <1>8, <1>9
<1> HIDE DEF a, b, c
<1>12. a + (b + c) = b + (a + c)
    BY <1>10
<1> QED
    BY <1>3, <1>11, <1>12

\* A sum depends on the summands only.
LEMMA SumSame ==
    ASSUME NEW f, NEW g, NEW S, IsFiniteSet(S), \A x \in S : f[x] = g[x]
    PROVE  SumFunctionOnSet(f, S) = SumFunctionOnSet(g, S)
<1> DEFINE Bad == {T \in SUBSET S : SumFunctionOnSet(f, T) # SumFunctionOnSet(g, T)}
<1> SUFFICES ASSUME Bad # {} PROVE FALSE
    OBVIOUS
<1>0. \A T \in SUBSET S : IsFiniteSet(T)
    BY FS_Subset
<1>1. PICK T \in Bad : \A U \in Bad : Cardinality(T) <= Cardinality(U)
    <2>1. \A T \in Bad : IsFiniteSet(T)
        BY <1>0
    <2> HIDE DEF Bad
    <2> QED
        BY <2>1, SmallestSet
<1>2. T \in SUBSET S /\ IsFiniteSet(T) /\ SumFunctionOnSet(f, T) # SumFunctionOnSet(g, T)
    BY <1>0
<1>3. T # {}
    BY <1>2, SumEmpty
<1> DEFINE x == Pick(T)
           U == T \ {x}
<1>4. x \in T
    BY <1>3, PickIn
<1>5. Cardinality(U) \in Nat /\ Cardinality(T) \in Nat /\ Cardinality(U) = Cardinality(T) - 1
    BY <1>2, <1>4, Smaller
<1>6. U \in SUBSET S /\ U \notin Bad
    <2>1. U \in SUBSET S
        BY <1>2
    <2> HIDE DEF Bad
    <2> QED
        BY <1>1, <1>5, <2>1
<1>7. SumFunctionOnSet(f, U) = SumFunctionOnSet(g, U)
    BY <1>6
<1>8. /\ SumFunctionOnSet(f, T) = f[x] + SumFunctionOnSet(f, U)
      /\ SumFunctionOnSet(g, T) = g[x] + SumFunctionOnSet(g, U)
    BY <1>2, <1>3, SumPicked
<1>9. f[x] = g[x]
    BY <1>2, <1>4
<1> QED
    BY <1>2, <1>7, <1>8, <1>9

\* One summand more.
LEMMA SumAdd ==
    ASSUME NEW f, NEW S, IsFiniteSet(S), NEW z, z \notin S, \A x \in S \cup {z} : f[x] \in Nat
    PROVE  SumFunctionOnSet(f, S \cup {z}) = f[z] + SumFunctionOnSet(f, S)
<1> DEFINE T == S \cup {z}
<1>1. IsFiniteSet(T) /\ z \in T /\ T \ {z} = S /\ \A x \in T : f[x] \in Nat
    BY FS_AddElement
<1> HIDE DEF T
<1>2. SumFunctionOnSet(f, T) = f[z] + SumFunctionOnSet(f, T \ {z})
    BY <1>1, SumRemove
<1> QED
    BY <1>1, <1>2 DEF T

\* A sum does not depend on what its summands are called.
LEMMA SumRenamed ==
    ASSUME NEW f, NEW g, NEW S, NEW T, IsFiniteSet(S), NEW b \in Bijection(S, T),
           \A x \in S : f[x] = g[b[x]], \A x \in S : f[x] \in Nat
    PROVE  SumFunctionOnSet(f, S) = SumFunctionOnSet(g, T)
<1> DEFINE Image(U) == {b[x] : x \in U}
           Bad == {U \in SUBSET S : SumFunctionOnSet(f, U) # SumFunctionOnSet(g, Image(U))}
<1>0. \A U \in SUBSET S : IsFiniteSet(U)
    BY FS_Subset
<1>1. \A x, y \in S : b[x] = b[y] => x = y
    BY DEF Bijection, Injection, IsInjective
<1>2. Image(S) = T
    BY DEF Bijection, Surjection
<1>3. Bad = {}
    <2> SUFFICES ASSUME Bad # {} PROVE FALSE
        OBVIOUS
    <2>1. PICK U \in Bad : \A V \in Bad : Cardinality(U) <= Cardinality(V)
        <3>1. \A V \in Bad : IsFiniteSet(V)
            BY <1>0
        <3> HIDE DEF Bad
        <3> QED
            BY <3>1, SmallestSet
    <2>2. U \in SUBSET S /\ IsFiniteSet(U) /\ SumFunctionOnSet(f, U) # SumFunctionOnSet(g, Image(U))
        BY <1>0
    <2>3. U # {}
        <3> SUFFICES ASSUME U = {} PROVE FALSE
            OBVIOUS
        <3>1. Image(U) = {}
            OBVIOUS
        <3> QED
            BY <2>2, <3>1, SumEmpty
    <2>4. PICK x \in U : TRUE
        BY <2>3
    <2> DEFINE V == U \ {x}
    <2>5. Cardinality(V) \in Nat /\ Cardinality(U) \in Nat /\ Cardinality(V) = Cardinality(U) - 1 /\ IsFiniteSet(V)
        BY <2>2, Smaller
    <2>6. V \in SUBSET S /\ V \notin Bad
        <3> HIDE DEF Bad
        <3> QED
            BY <2>1, <2>2, <2>5
    <2>7. SumFunctionOnSet(f, V) = SumFunctionOnSet(g, Image(V))
        BY <2>6
    <2>8. SumFunctionOnSet(f, U) = f[x] + SumFunctionOnSet(f, V)
        BY <2>2, SumRemove
    <2>9. Image(U) = Image(V) \cup {b[x]} /\ b[x] \notin Image(V)
        BY <1>1, <2>2
    <2>10. IsFiniteSet(Image(V))
        <3> DEFINE c == [y \in V |-> b[y]]
        <3>1. c \in Surjection(V, Image(V))
            BY DEF Surjection
        <3> HIDE DEF c
        <3> QED
            BY <2>5, <3>1, FS_Surjection
    <2>11. \A y \in Image(V) \cup {b[x]} : g[y] \in Nat
        BY <2>2
    <2> DEFINE W == Image(V)
               w == b[x]
    <2> HIDE DEF W, w, Image
    <2>12. SumFunctionOnSet(g, W \cup {w}) = g[w] + SumFunctionOnSet(g, W)
        BY <2>9, <2>10, <2>11, SumAdd DEF W, w
    <2>13. g[w] = f[x]
        BY <2>2 DEF w
    <2> QED
        BY <2>2, <2>7, <2>8, <2>9, <2>12, <2>13 DEF W, w
<1>4. S \notin Bad
    BY <1>3
<1> QED
    BY <1>2, <1>4

\* A part is not more than the whole.
LEMMA SumWithin ==
    ASSUME NEW f, NEW S, IsFiniteSet(S), \A x \in S : f[x] \in Nat, NEW R \in SUBSET S
    PROVE  SumFunctionOnSet(f, R) <= SumFunctionOnSet(f, S)
<1> DEFINE Bad == {T \in SUBSET S : R \subseteq T /\ ~(SumFunctionOnSet(f, R) <= SumFunctionOnSet(f, T))}
<1> SUFFICES ASSUME Bad # {} PROVE FALSE
    OBVIOUS
<1>0. \A T \in SUBSET S : IsFiniteSet(T) /\ SumFunctionOnSet(f, T) \in Nat
    BY FS_Subset, SumTyped
<1>1. PICK T \in Bad : \A U \in Bad : Cardinality(T) <= Cardinality(U)
    <2>1. \A T \in Bad : IsFiniteSet(T)
        BY <1>0
    <2> HIDE DEF Bad
    <2> QED
        BY <2>1, SmallestSet
<1>2. /\ T \in SUBSET S /\ IsFiniteSet(T) /\ R \subseteq T
      /\ ~(SumFunctionOnSet(f, R) <= SumFunctionOnSet(f, T))
    BY <1>0
<1>3. PICK x \in T : x \notin R
    BY <1>0, <1>2
<1> DEFINE U == T \ {x}
<1>4. Cardinality(U) \in Nat /\ Cardinality(T) \in Nat /\ Cardinality(U) = Cardinality(T) - 1
    BY <1>2, Smaller
<1>5. U \notin Bad
    <2> HIDE DEF Bad
    <2> QED
        BY <1>1, <1>4
<1>6. U \in SUBSET S /\ R \subseteq U
    BY <1>2, <1>3
<1>7. SumFunctionOnSet(f, R) <= SumFunctionOnSet(f, U)
    BY <1>5, <1>6
<1>8. SumFunctionOnSet(f, T) = f[x] + SumFunctionOnSet(f, U) /\ f[x] \in Nat
    BY <1>2, SumRemove
<1> DEFINE a == SumFunctionOnSet(f, R)
           b == SumFunctionOnSet(f, U)
           c == SumFunctionOnSet(f, T)
<1>9. a \in Nat /\ b \in Nat /\ a <= b /\ c = f[x] + b /\ ~(a <= c)
    BY <1>0, <1>2, <1>6, <1>7, <1>8
<1> HIDE DEF a, b, c
<1> QED
    BY <1>8, <1>9

At(f, x) == IF x \in DOMAIN f THEN f[x] ELSE 0

Counts(f) == IsFiniteSet(DOMAIN f) /\ \A x \in DOMAIN f : f[x] \in Nat

\* Changing, adding or removing one summand.
LEMMA SumChange ==
    ASSUME NEW f, NEW g, NEW x, Counts(f), Counts(g), DOMAIN f \ {x} = DOMAIN g \ {x},
           \A y \in DOMAIN f \ {x} : f[y] = g[y]
    PROVE  \E r \in Nat : SumFunction(f) = At(f, x) + r /\ SumFunction(g) = At(g, x) + r
<1> DEFINE S == DOMAIN f \ {x}
           r == SumFunctionOnSet(f, S)
<1>1. IsFiniteSet(S) /\ \A y \in S : f[y] \in Nat
    BY FS_Subset DEF Counts
<1>2. r \in Nat
    BY <1>1, SumTyped
<1>3. r = SumFunctionOnSet(g, S)
    BY <1>1, SumSame
<1>4. ASSUME NEW h, Counts(h), DOMAIN h \ {x} = S
      PROVE  SumFunction(h) = At(h, x) + SumFunctionOnSet(h, S) /\ SumFunctionOnSet(h, S) \in Nat
    <2>1. SumFunctionOnSet(h, S) \in Nat
        BY <1>1, <1>4, SumTyped DEF Counts
    <2>2. CASE x \in DOMAIN h
        BY <1>4, <2>1, <2>2, SumRemove DEF Counts, At, SumFunction
    <2>3. CASE x \notin DOMAIN h
        <3>1. DOMAIN h = S
            BY <1>4, <2>3
        <3> QED
            BY <2>1, <2>3, <3>1 DEF At, SumFunction
    <2> QED
        BY <2>1, <2>2, <2>3
<1>5. SumFunction(f) = At(f, x) + r
    BY <1>4
<1>6. SumFunction(g) = At(g, x) + r
    BY <1>3, <1>4
<1> HIDE DEF r
<1> QED
    BY <1>2, <1>5, <1>6

\* What holds of the empty set, and of a set when it holds of the set without any one of
\* its elements, holds of a finite set.
LEMMA SetInduction ==
    ASSUME NEW S, IsFiniteSet(S), NEW Good, {} \in Good,
           \A T \in SUBSET S : \A z \in T : T \ {z} \in Good => T \in Good
    PROVE  S \in Good
<1> DEFINE Bad == {T \in SUBSET S : T \notin Good}
<1> SUFFICES ASSUME Bad # {} PROVE FALSE
    OBVIOUS
<1>1. \A T \in Bad : IsFiniteSet(T)
    BY FS_Subset
<1>2. PICK T \in Bad : \A U \in Bad : Cardinality(T) <= Cardinality(U)
    <2> HIDE DEF Bad
    <2> QED
        BY <1>1, SmallestSet
<1>3. T \in SUBSET S /\ T \notin Good /\ T # {}
    OBVIOUS
<1>4. PICK z \in T : TRUE
    BY <1>3
<1>5. Cardinality(T \ {z}) \in Nat /\ Cardinality(T) \in Nat /\ Cardinality(T \ {z}) = Cardinality(T) - 1
    BY <1>1, Smaller
<1>6. T \ {z} \notin Bad
    <2> HIDE DEF Bad
    <2> QED
        BY <1>2, <1>5
<1>7. T \ {z} \in Good
    BY <1>3, <1>6
<1> QED
    BY <1>3, <1>7

\* g folds the subsets of D: it takes their elements one by one, each time the one that Top names,
\* and G[i] is the step for element i.
FoldsBy(g, D, Top, base, G) ==
    \A p \in SUBSET D : g[p] = IF p = {} THEN base ELSE G[Top[p]][g[p \ {Top[p]}]]

\* Such a function exists when the steps stay within X.
LEMMA FoldDefined ==
    ASSUME NEW D, IsFiniteSet(D), NEW Top, \A p \in SUBSET D : p # {} => Top[p] \in p,
           NEW X, NEW base \in X, NEW G, \A i \in D : G[i] \in [X -> X]
    PROVE  \E g \in [SUBSET D -> X] : FoldsBy(g, D, Top, base, G)
<1> DEFINE Unfolded(g, p) == IF p = {} THEN base ELSE G[Top[p]][g[p \ {Top[p]}]]
           Sub(n) == {p \in SUBSET D : Cardinality(p) <= n}
           Good(g, n) == \A p \in Sub(n) : g[p] = Unfolded(g, p)
           Bad == {n \in Nat : ~ \E g \in [SUBSET D -> X] : Good(g, n)}
<1>1. \A p \in SUBSET D : IsFiniteSet(p) /\ Cardinality(p) \in Nat /\ Cardinality(p) <= Cardinality(D)
    BY FS_Subset, FS_CardinalityType
<1>2. ASSUME NEW g \in [SUBSET D -> X], NEW p \in SUBSET D PROVE Unfolded(g, p) \in X
    <2>1. CASE p = {}
        BY <2>1
    <2>2. CASE p # {}
        <3>1. Top[p] \in D /\ g[p \ {Top[p]}] \in X
            BY <2>2
        <3> QED
            BY <2>2, <3>1
    <2> QED
        BY <2>1, <2>2
<1>3. Bad = {}
    <2> SUFFICES ASSUME Bad # {} PROVE FALSE
        OBVIOUS
    <2>1. PICK n \in Bad : \A k \in Bad : n <= k
        BY LeastNumber
    <2>2. CASE n = 0
        <3> DEFINE g == [p \in SUBSET D |-> base]
        <3>1. \A p \in Sub(0) : p = {}
            BY <1>1, FS_EmptySet
        <3>2. g \in [SUBSET D -> X] /\ Good(g, 0)
            BY <3>1
        <3> QED
            BY <2>1, <2>2, <3>2
    <2>3. CASE n # 0
        <3>1. n - 1 \in Nat /\ n - 1 \notin Bad /\ n \in Nat
            <4>1. n \in Nat
                OBVIOUS
            <4> HIDE DEF Bad
            <4> QED
                BY <2>1, <2>3, <4>1
        <3>2. PICK g \in [SUBSET D -> X] : Good(g, n - 1)
            BY <3>1
        <3> DEFINE f == [p \in SUBSET D |-> Unfolded(g, p)]
        <3>3. f \in [SUBSET D -> X]
            <4> HIDE DEF Unfolded
            <4> QED
                BY <1>2
        <3>4. \A p \in Sub(n - 1) : f[p] = g[p]
            <4> HIDE DEF Unfolded
            <4> QED
                BY <3>2
        <3>5. ASSUME NEW p \in Sub(n) PROVE f[p] = Unfolded(f, p)
            <4>1. CASE p = {}
                BY <4>1
            <4>2. CASE p # {}
                <5> DEFINE q == p \ {Top[p]}
                <5>1. Top[p] \in p /\ IsFiniteSet(p) /\ Cardinality(p) \in Nat /\ Cardinality(p) <= n
                    BY <1>1, <4>2
                <5>2. Cardinality(q) \in Nat /\ Cardinality(q) = Cardinality(p) - 1
                    BY <5>1, Smaller
                <5>3. q \in Sub(n - 1)
                    BY <3>1, <5>1, <5>2
                <5>4. f[q] = g[q]
                    BY <3>4, <5>3
                <5>5. f[p] = Unfolded(g, p)
                    OBVIOUS
                <5> HIDE DEF f
                <5> QED
                    BY <5>4, <5>5
            <4> QED
                BY <4>1, <4>2
        <3> HIDE DEF f
        <3> QED
            BY <2>1, <3>3, <3>5
    <2> QED
        BY <2>2, <2>3
<1>4. PICK g \in [SUBSET D -> X] : Good(g, Cardinality(D))
    BY <1>3, FS_CardinalityType
<1> QED
    BY <1>1, <1>4 DEF FoldsBy

\* Nothing adds up to nothing.
LEMMA SumZero ==
    ASSUME NEW f, NEW S, IsFiniteSet(S), \A x \in S : f[x] = 0
    PROVE  SumFunctionOnSet(f, S) = 0
<1> DEFINE Good == {T \in SUBSET S : SumFunctionOnSet(f, T) = 0}
<1>1. {} \in Good
    BY SumEmpty
<1>2. ASSUME NEW T \in SUBSET S, NEW z \in T, T \ {z} \in Good PROVE T \in Good
    <2>1. IsFiniteSet(T) /\ \A x \in T : f[x] \in Nat
        BY FS_Subset
    <2>2. SumFunctionOnSet(f, T) = f[z] + SumFunctionOnSet(f, T \ {z})
        BY <2>1, SumRemove
    <2> QED
        BY <1>2, <2>2
<1> HIDE DEF Good
<1>3. S \in Good
    BY <1>1, <1>2, SetInduction
<1> QED
    BY <1>3 DEF Good

\* Adding ones counts.
LEMMA SumOfOnes ==
    ASSUME NEW f, NEW S, IsFiniteSet(S), \A x \in S : f[x] = 1
    PROVE  SumFunctionOnSet(f, S) = Cardinality(S)
<1> DEFINE Good == {T \in SUBSET S : SumFunctionOnSet(f, T) = Cardinality(T)}
<1>1. {} \in Good
    BY SumEmpty, FS_EmptySet
<1>2. ASSUME NEW T \in SUBSET S, NEW z \in T, T \ {z} \in Good PROVE T \in Good
    <2>1. IsFiniteSet(T) /\ \A x \in T : f[x] \in Nat
        BY FS_Subset
    <2>2. SumFunctionOnSet(f, T) = f[z] + SumFunctionOnSet(f, T \ {z})
        BY <2>1, SumRemove
    <2>3. Cardinality(T \ {z}) \in Nat /\ Cardinality(T) \in Nat /\ Cardinality(T \ {z}) = Cardinality(T) - 1
        BY <2>1, Smaller
    <2> QED
        BY <1>2, <2>2, <2>3
<1> HIDE DEF Good
<1>3. S \in Good
    BY <1>1, <1>2, SetInduction
<1> QED
    BY <1>3 DEF Good

\* The sums of the parts of a set add up to its sum.
LEMMA SumParts ==
    ASSUME NEW P, IsFiniteSet(P), NEW w, \A i \in P : w[i] \in Nat,
           NEW S, IsFiniteSet(S), NEW home \in [P -> S]
    PROVE  SumFunctionOnSet([s \in S |-> SumFunctionOnSet(w, {i \in P : home[i] = s})], S) = SumFunctionOnSet(w, P)
<1> DEFINE Part(Q) == [s \in S |-> SumFunctionOnSet(w, {i \in Q : home[i] = s})]
           Good == {Q \in SUBSET P : SumFunctionOnSet(Part(Q), S) = SumFunctionOnSet(w, Q)}
<1>1. {} \in Good
    <2>1. \A s \in S : Part({})[s] = 0
        <3>1. ASSUME NEW s \in S PROVE Part({})[s] = 0
            <4>1. {i \in {} : home[i] = s} = {}
                OBVIOUS
            <4> QED
                BY <4>1, SumEmpty
        <3> QED
            BY <3>1
    <2> HIDE DEF Part
    <2>2. SumFunctionOnSet(Part({}), S) = 0
        BY <2>1, SumZero
    <2> QED
        BY <2>2, SumEmpty
<1>2. ASSUME NEW Q \in SUBSET P, NEW z \in Q, Q \ {z} \in Good PROVE Q \in Good
    <2> DEFINE R == Q \ {z}
               g == Part(Q)
               h == Part(R)
               c == home[z]
    <2>1. IsFiniteSet(Q) /\ \A i \in Q : w[i] \in Nat
        BY FS_Subset
    <2>2. c \in S
        OBVIOUS
    <2>3. ASSUME NEW s \in S, s # c PROVE g[s] = h[s]
        <3>1. {i \in Q : home[i] = s} = {i \in R : home[i] = s}
            BY <2>3
        <3> QED
            BY <3>1
    <2>4. g[c] = w[z] + h[c]
        <3> DEFINE A == {i \in Q : home[i] = c}
                   B == {i \in R : home[i] = c}
        <3>1. A \ {z} = B /\ z \in A /\ A \subseteq Q
            OBVIOUS
        <3>2. g[c] = SumFunctionOnSet(w, A) /\ h[c] = SumFunctionOnSet(w, B)
            BY <2>2
        <3> HIDE DEF A, B, g, h
        <3>3. IsFiniteSet(A) /\ \A i \in A : w[i] \in Nat
            BY <2>1, <3>1, FS_Subset
        <3>4. SumFunctionOnSet(w, A) = w[z] + SumFunctionOnSet(w, A \ {z})
            BY <3>1, <3>3, SumRemove
        <3> QED
            BY <3>1, <3>2, <3>4
    <2>5. \A s \in S : g[s] \in Nat /\ h[s] \in Nat
        <3>1. ASSUME NEW s \in S, NEW T \in SUBSET P PROVE Part(T)[s] \in Nat
            <4> DEFINE A == {i \in T : home[i] = s}
            <4>1. A \subseteq P /\ Part(T)[s] = SumFunctionOnSet(w, A)
                OBVIOUS
            <4> HIDE DEF A, Part
            <4>2. IsFiniteSet(A) /\ \A i \in A : w[i] \in Nat
                BY <4>1, FS_Subset
            <4> QED
                BY <4>1, <4>2, SumTyped
        <3>2. R \in SUBSET P
            OBVIOUS
        <3> HIDE DEF R, Part
        <3> QED
            BY <3>1, <3>2
    <2>6. SumFunctionOnSet(h, S) = SumFunctionOnSet(w, R)
        BY <1>2
    <2> HIDE DEF g, h, c
    <2>7. /\ SumFunctionOnSet(g, S) = g[c] + SumFunctionOnSet(g, S \ {c})
          /\ SumFunctionOnSet(h, S) = h[c] + SumFunctionOnSet(h, S \ {c})
        BY <2>2, <2>5, SumRemove
    <2>8. SumFunctionOnSet(g, S \ {c}) = SumFunctionOnSet(h, S \ {c})
        <3>1. IsFiniteSet(S \ {c})
            BY FS_Subset
        <3>2. \A s \in S \ {c} : g[s] = h[s]
            BY <2>3
        <3> QED
            BY <3>1, <3>2, SumSame
    <2>9. SumFunctionOnSet(h, S \ {c}) \in Nat
        <3>1. IsFiniteSet(S \ {c})
            BY FS_Subset
        <3> QED
            BY <2>5, <3>1, SumTyped
    <2>10. SumFunctionOnSet(w, Q) = w[z] + SumFunctionOnSet(w, R)
        BY <2>1, SumRemove
    <2> HIDE DEF R
    <2>11. w[z] \in Nat /\ h[c] \in Nat
        BY <2>1, <2>2, <2>5
    <2>12. SumFunctionOnSet(g, S) = SumFunctionOnSet(w, Q)
        <3> DEFINE p == SumFunctionOnSet(h, S \ {c})
                   x == w[z]
                   y == h[c]
        <3>1. SumFunctionOnSet(g, S) = (x + y) + p
            BY <2>4, <2>7, <2>8
        <3>2. SumFunctionOnSet(w, Q) = x + (y + p)
            BY <2>6, <2>7, <2>10
        <3>3. x \in Nat /\ y \in Nat /\ p \in Nat
            BY <2>9, <2>11
        <3> HIDE DEF p, x, y
        <3> QED
            BY <3>1, <3>2, <3>3
    <2> QED
        BY <2>12 DEF g
<1> HIDE DEF Good
<1>3. P \in Good
    BY <1>1, <1>2, SetInduction
<1> HIDE DEF Part
<1>4. SumFunctionOnSet(Part(P), S) = SumFunctionOnSet(w, P)
    BY <1>3 DEF Good
<1> QED
    BY <1>4 DEF Part

\* Multiples compared term by term compare as sums.
LEMMA SumCompare ==
    ASSUME NEW f, NEW g, NEW S, IsFiniteSet(S), \A x \in S : f[x] \in Nat /\ g[x] \in Nat,
           NEW a \in Nat, NEW b \in Nat, \A x \in S : a * f[x] <= b * g[x]
    PROVE  a * SumFunctionOnSet(f, S) <= b * SumFunctionOnSet(g, S)
<1> DEFINE Good == {T \in SUBSET S : a * SumFunctionOnSet(f, T) <= b * SumFunctionOnSet(g, T)}
<1>1. {} \in Good
    BY SumEmpty
<1>2. ASSUME NEW T \in SUBSET S, NEW z \in T, T \ {z} \in Good PROVE T \in Good
    <2> DEFINE p == SumFunctionOnSet(f, T \ {z})
               q == SumFunctionOnSet(g, T \ {z})
    <2>1. IsFiniteSet(T) /\ IsFiniteSet(T \ {z})
        BY FS_Subset
    <2>2. SumFunctionOnSet(f, T) = f[z] + p /\ SumFunctionOnSet(g, T) = g[z] + q
        BY <2>1, SumRemove
    <2>3. p \in Nat /\ q \in Nat
        BY <2>1, SumTyped
    <2>4. a * p <= b * q
        BY <1>2
    <2> HIDE DEF p, q
    <2>5. a * (f[z] + p) <= b * (g[z] + q)
        <3> DEFINE x == f[z]
                   y == g[z]
        <3>1. x \in Nat /\ y \in Nat /\ a * x <= b * y
            OBVIOUS
        <3> HIDE DEF x, y
        <3>2. a * (x + p) = a * x + a * p /\ b * (y + q) = b * y + b * q
            BY <2>3, <3>1
        <3>3. a * x \in Int /\ a * p \in Int /\ b * y \in Int /\ b * q \in Int
            BY <2>3, <3>1
        <3>4. a * (x + p) <= b * (y + q)
            BY <2>4, <3>1, <3>2, <3>3
        <3> QED
            BY <3>4 DEF x, y
    <2> QED
        BY <2>2, <2>5
<1> HIDE DEF Good
<1>3. S \in Good
    BY <1>1, <1>2, SetInduction
<1> QED
    BY <1>3 DEF Good

\* And strictly, when one term does.
LEMMA SumCompareStrictly ==
    ASSUME NEW f, NEW g, NEW S, IsFiniteSet(S), \A x \in S : f[x] \in Nat /\ g[x] \in Nat,
           NEW a \in Nat, NEW b \in Nat, \A x \in S : a * f[x] <= b * g[x],
           NEW z \in S, a * f[z] < b * g[z]
    PROVE  a * SumFunctionOnSet(f, S) < b * SumFunctionOnSet(g, S)
<1> DEFINE p == SumFunctionOnSet(f, S \ {z})
           q == SumFunctionOnSet(g, S \ {z})
           x == f[z]
           y == g[z]
<1>1. IsFiniteSet(S \ {z})
    BY FS_Subset
<1>2. SumFunctionOnSet(f, S) = x + p /\ SumFunctionOnSet(g, S) = y + q
    BY SumRemove
<1>3. p \in Nat /\ q \in Nat
    BY <1>1, SumTyped
<1>4. a * p <= b * q
    BY <1>1, SumCompare
<1>5. x \in Nat /\ y \in Nat /\ a * x < b * y
    OBVIOUS
<1> HIDE DEF p, q, x, y
<1>6. a * (x + p) = a * x + a * p /\ b * (y + q) = b * y + b * q
    BY <1>3, <1>5
<1>7. a * x \in Int /\ a * p \in Int /\ b * y \in Int /\ b * q \in Int
    BY <1>3, <1>5
<1>8. a * (x + p) < b * (y + q)
    BY <1>4, <1>5, <1>6, <1>7
<1> QED
    BY <1>2, <1>8

-----------------------------------------------------------------------------
(* Orders and places.  Numbering the elements of a finite set by the number  *)
(* of those that come before them or are them gives each another place.      *)
Orders(R, P) ==
    /\ \A i, j \in P : <<i, j>> \in R \/ <<j, i>> \in R
    /\ \A i, j \in P : <<i, j>> \in R /\ <<j, i>> \in R => i = j
    /\ \A i, j, k \in P : <<i, j>> \in R /\ <<j, k>> \in R => <<i, k>> \in R

Ranks(R, P) == [i \in P |-> Cardinality({j \in P : <<j, i>> \in R})]

\* place numbers the elements of P from 1, in the order R.
Numbering(place, R, P) ==
    /\ place \in [P -> 1..Cardinality(P)]
    /\ \A i, j \in P : <<i, j>> \in R <=> place[i] <= place[j]
    /\ \A k \in 1..Cardinality(P) : \E i \in P : place[i] = k

\* The number of elements up to an element is its place, and no two share one.
LEMMA RanksNumber ==
    ASSUME NEW P, IsFiniteSet(P), NEW R, Orders(R, P)
    PROVE  Numbering(Ranks(R, P), R, P)
<1> DEFINE Down(i) == {j \in P : <<j, i>> \in R}
           place == Ranks(R, P)
<1>1. \A i \in P : IsFiniteSet(Down(i)) /\ Down(i) \subseteq P /\ i \in Down(i)
    BY FS_Subset DEF Orders
<1>2. \A i \in P : place[i] = Cardinality(Down(i))
    BY DEF Ranks
<1>3. Cardinality(P) \in Nat
    BY FS_CardinalityType
<1>4. ASSUME NEW i \in P PROVE place[i] \in 1..Cardinality(P)
    <2>1. Cardinality(Down(i)) \in Nat /\ Cardinality(Down(i)) <= Cardinality(P)
        BY <1>1, FS_Subset, FS_CardinalityType
    <2>2. Cardinality(Down(i)) # 0
        BY <1>1, FS_EmptySet
    <2> HIDE DEF Down, place
    <2> QED
        BY <1>2, <1>3, <2>1, <2>2
<1>5. ASSUME NEW i \in P, NEW j \in P, <<i, j>> \in R PROVE place[i] <= place[j]
    <2>1. Down(i) \subseteq Down(j)
        BY <1>5 DEF Orders
    <2> HIDE DEF Down, place
    <2> QED
        BY <1>1, <1>2, <2>1, FS_Subset
<1>6. ASSUME NEW i \in P, NEW j \in P, place[i] <= place[j] PROVE <<i, j>> \in R
    <2> SUFFICES ASSUME <<i, j>> \notin R PROVE FALSE
        OBVIOUS
    <2>1. Down(j) \subseteq Down(i) \ {i}
        BY DEF Orders
    <2> HIDE DEF Down, place
    <2>2. IsFiniteSet(Down(i)) /\ i \in Down(i)
        BY <1>1
    <2>3. /\ IsFiniteSet(Down(i) \ {i}) /\ Cardinality(Down(i) \ {i}) \in Nat /\ Cardinality(Down(i)) \in Nat
          /\ Cardinality(Down(i) \ {i}) = Cardinality(Down(i)) - 1
        BY <2>2, Smaller
    <2>4. Cardinality(Down(j)) <= Cardinality(Down(i) \ {i}) /\ Cardinality(Down(j)) \in Nat
        BY <1>1, <2>1, <2>3, FS_Subset, FS_CardinalityType
    <2> QED
        BY <1>2, <1>6, <2>3, <2>4
<1>7. place \in [P -> 1..Cardinality(P)]
    <2>1. place = [i \in P |-> place[i]]
        BY DEF Ranks
    <2> HIDE DEF place
    <2> QED
        BY <1>4, <2>1
<1> HIDE DEF Down, place
<1>8. place \in Injection(P, 1..Cardinality(P))
    <2> SUFFICES ASSUME NEW i \in P, NEW j \in P, place[i] = place[j] PROVE i = j
        BY <1>7 DEF Injection, IsInjective
    <2>1. place[i] \in Int /\ place[j] \in Int
        BY <1>4
    <2>2. place[i] <= place[j] /\ place[j] <= place[i]
        BY <2>1
    <2> QED
        BY <1>6, <2>2 DEF Orders
<1>9. IsFiniteSet(1..Cardinality(P)) /\ Cardinality(1..Cardinality(P)) = Cardinality(P)
    BY <1>3, FS_Interval
<1>10. place \in Surjection(P, 1..Cardinality(P))
    BY <1>8, <1>9, FS_Injection
<1>11. \A k \in 1..Cardinality(P) : \E i \in P : place[i] = k
    BY <1>10 DEF Surjection
<1> QED
    BY <1>5, <1>6, <1>7, <1>11 DEF Numbering, place

-----------------------------------------------------------------------------
(* Sequences of which only the elements matter. *)
Listed(s) == s \in Seq(Range(s))

\* A function on 1..n is a sequence.
LEMMA ListedBuilt ==
    ASSUME NEW n \in Nat, NEW f, f = [i \in 1..n |-> f[i]]
    PROVE  Listed(f) /\ DOMAIN f = 1..n /\ Len(f) = n
<1>1. DOMAIN f = 1..n
    OBVIOUS
<1>2. f \in [1..n -> Range(f)]
    BY <1>1 DEF Range
<1>3. f \in Seq(Range(f))
    BY <1>2
<1> QED
    BY <1>1, <1>3 DEF Listed

\* The positions of a sequence are finitely many numbers.
LEMMA ListedDomain ==
    ASSUME NEW s, Listed(s)
    PROVE  DOMAIN s = 1..Len(s) /\ Len(s) \in Nat /\ IsFiniteSet(DOMAIN s) /\ Cardinality(DOMAIN s) = Len(s)
<1>1. DOMAIN s = 1..Len(s) /\ Len(s) \in Nat
    BY DEF Listed
<1>2. IsFiniteSet(1..Len(s)) /\ Cardinality(1..Len(s)) = Len(s)
    <2> DEFINE n == Len(s)
    <2>1. n \in Nat
        BY <1>1
    <2> HIDE DEF n
    <2>2. IsFiniteSet(1..n) /\ Cardinality(1..n) = n
        BY <2>1, FS_CountingElements, FS_Interval
    <2> QED
        BY <2>2 DEF n
<1> QED
    BY <1>1, <1>2
=============================================================================
