------------------------------------ MODULE Facts ------------------------------------
(*****************************************************************************)
(* Lemmas the other proofs share: sums over finite sets (SumFunctionOnSet of *)
(* the Functions module) and subsequences (Kept).                            *)
(*                                                                           *)
(* Both are recursive, and are dealt with by a least counterexample: among   *)
(* the subsets of a finite set, or the sequences, that a claim fails for     *)
(* there is one from which nothing can be taken without making it true.      *)
(*****************************************************************************)
EXTENDS Subsequences, Functions, FiniteSetTheorems, WellFoundedInduction, TLAPS

LEMMA LeastExists ==
    ASSUME NEW S \in SUBSET Nat, S # {}
    PROVE  \E n \in S : \A m \in S : n <= m
<1>1. PICK n \in S : \A m \in S : ~(<<m, n>> \in OpToRel(<, Nat))
    BY NatLessThanWellFounded, WFMin
<1>2. \A m \in S : ~(m < n)
    BY <1>1 DEF OpToRel
<1> QED
    BY <1>2

LEMMA LeastSubset ==
    ASSUME NEW S, IsFiniteSet(S), NEW U \in SUBSET (SUBSET S), U # {}
    PROVE  \E s \in U : \A x \in s : s \ {x} \notin U
<1>1. IsWellFoundedOn(StrictSubsetOrdering(S), SUBSET S)
    BY FS_StrictSubsetOrderingWellFounded, FS_FiniteSubsetsOfFinite
<1>2. PICK s \in U : \A t \in U : ~(<<t, s>> \in StrictSubsetOrdering(S))
    BY <1>1, WFMin
<1>3. \A x \in s : s \ {x} \in SUBSET S /\ s \ {x} # s
    OBVIOUS
<1> QED
    BY <1>2, <1>3 DEF StrictSubsetOrdering

LEMMA FiniteImage ==
    ASSUME NEW f, NEW S, IsFiniteSet(S)
    PROVE  IsFiniteSet({f[x] : x \in S})
<1> DEFINE T == {f[x] : x \in S}
           g == [x \in S |-> f[x]]
<1>1. g \in Surjection(S, T)
    BY DEF Surjection
<1> HIDE DEF g, T
<1>2. IsFiniteSet(T)
    BY <1>1, FS_Surjection
<1> QED
    BY <1>2 DEF T

-----------------------------------------------------------------------------
(* Sorting.  A relation is a set of pairs; IsOrder allows ties. *)

IsOrder(R, S) ==
    /\ \A x, y \in S : <<x, y>> \in R \/ <<y, x>> \in R
    /\ \A x, y, z \in S : <<x, y>> \in R /\ <<y, z>> \in R => <<x, z>> \in R

(* Something in a finite set comes after everything in it. *)
LEMMA LastExists ==
    ASSUME NEW S, IsFiniteSet(S), S # {}, NEW R, IsOrder(R, S)
    PROVE  \E m \in S : \A x \in S : <<x, m>> \in R
<1> DEFINE HasLast(T) == \E m \in T : \A x \in T : <<x, m>> \in R
           U == {T \in SUBSET S : T # {} /\ ~HasLast(T)}
<1>1. SUFFICES ASSUME U # {} PROVE FALSE
    BY <1>1
<1>2. PICK T \in U : \A x \in T : T \ {x} \notin U
    BY <1>1, LeastSubset
<1>3. PICK y \in T : TRUE
    BY <1>2
<1>4. CASE T = {y}
    <2>1. <<y, y>> \in R
        BY <1>3 DEF IsOrder
    <2> QED
        BY <1>2, <1>4, <2>1
<1>5. CASE T # {y}
    <2>1. HasLast(T \ {y})
        <3>1. T \ {y} \in SUBSET S /\ T \ {y} \notin U
            BY <1>2
        <3>2. T \ {y} # {}
            BY <1>3, <1>5
        <3> QED
            BY <3>1, <3>2
    <2>2. PICK m \in T \ {y} : \A x \in T \ {y} : <<x, m>> \in R
        BY <2>1
    <2>3. m \in S /\ y \in S /\ T \subseteq S
        BY <2>2
    <2>4. CASE <<y, m>> \in R
        <3>1. \A x \in T : <<x, m>> \in R
            BY <2>2, <2>4
        <3> QED
            BY <2>2, <3>1
    <2>5. CASE <<m, y>> \in R
        <3>1. \A x \in T : <<x, y>> \in R
            <4>1. <<y, y>> \in R
                BY <2>3 DEF IsOrder
            <4>2. ASSUME NEW x \in T \ {y} PROVE <<x, y>> \in R
                <5>1. <<x, m>> \in R /\ x \in S
                    BY <2>2, <2>3
                <5> QED
                    BY <2>3, <2>5, <5>1 DEF IsOrder
            <4> QED
                BY <4>1, <4>2
        <3> QED
            BY <1>3, <3>1
    <2> QED
        BY <2>3, <2>4, <2>5 DEF IsOrder
<1> QED
    BY <1>4, <1>5

(* s lists all of S, each once, as R has it. *)
ListsInOrder(s, S, R) ==
    /\ s \in [1..Cardinality(S) -> S]
    /\ \A x \in S : \E n \in 1..Cardinality(S) : s[n] = x
    /\ \A m, n \in 1..Cardinality(S) : m < n => s[m] # s[n] /\ <<s[m], s[n]>> \in R

LEMMA SortedWithLast ==
    ASSUME NEW T, IsFiniteSet(T), NEW R, NEW m \in T, \A x \in T : <<x, m>> \in R,
           NEW s, ListsInOrder(s, T \ {m}, R)
    PROVE  \E t : ListsInOrder(t, T, R)
<1> PICK k : k = Cardinality(T)
    OBVIOUS
<1>1. k \in Nat \ {0} /\ Cardinality(T \ {m}) = k - 1
    BY FS_RemoveElement, FS_CardinalityType, FS_EmptySet
<1>2. /\ s \in [1..(k - 1) -> T \ {m}]
      /\ \A x \in T \ {m} : \E n \in 1..(k - 1) : s[n] = x
      /\ \A a, b \in 1..(k - 1) : a < b => s[a] # s[b] /\ <<s[a], s[b]>> \in R
    BY <1>1 DEF ListsInOrder
<1> DEFINE t == [n \in 1..k |-> IF n = k THEN m ELSE s[n]]
<1>3. ASSUME NEW n \in 1..k, n # k
      PROVE  n \in 1..(k - 1) /\ t[n] = s[n] /\ t[n] \in T \ {m}
    BY <1>1, <1>2, <1>3
<1>4. k \in 1..k /\ t[k] = m
    BY <1>1
<1>5. t \in [1..k -> T]
    BY <1>3, <1>4
<1>6. ASSUME NEW x \in T PROVE \E n \in 1..k : t[n] = x
    <2>1. CASE x = m
        BY <1>4, <2>1
    <2>2. CASE x # m
        <3>1. PICK n \in 1..(k - 1) : s[n] = x
            BY <1>2, <2>2
        <3>2. n \in 1..k /\ n # k
            BY <1>1
        <3> QED
            BY <1>3, <3>1, <3>2
    <2> QED
        BY <2>1, <2>2
<1>7. ASSUME NEW a \in 1..k, NEW b \in 1..k, a < b
      PROVE  t[a] # t[b] /\ <<t[a], t[b]>> \in R
    <2>1. a # k
        BY <1>1, <1>7
    <2>2. a \in 1..(k - 1) /\ t[a] = s[a] /\ t[a] \in T \ {m}
        BY <1>3, <2>1
    <2>3. CASE b = k
        BY <1>4, <2>2, <2>3
    <2>4. CASE b # k
        <3>1. b \in 1..(k - 1) /\ t[b] = s[b]
            BY <1>3, <2>4
        <3> QED
            BY <1>2, <1>7, <2>2, <3>1
    <2> QED
        BY <2>3, <2>4
<1> HIDE DEF t
<1>8. ListsInOrder(t, T, R)
    BY <1>5, <1>6, <1>7 DEF ListsInOrder
<1> QED
    BY <1>8

(* A finite set can be sorted. *)
LEMMA SortExists ==
    ASSUME NEW S, IsFiniteSet(S), NEW R, IsOrder(R, S)
    PROVE  \E s : ListsInOrder(s, S, R)
<1> DEFINE CanSort(T) == \E s : ListsInOrder(s, T, R)
           U == {T \in SUBSET S : ~CanSort(T)}
<1>1. SUFFICES ASSUME U # {} PROVE FALSE
    BY <1>1
<1>2. PICK T \in U : \A x \in T : T \ {x} \notin U
    BY <1>1, LeastSubset
<1>3. IsFiniteSet(T) /\ T \subseteq S
    BY <1>2, FS_Subset
<1>4. CASE T = {}
    <2>1. Cardinality(T) = 0
        BY <1>4, FS_EmptySet
    <2>2. 1..Cardinality(T) = {}
        BY <2>1
    <2> DEFINE none == [n \in {} |-> 0]
    <2>3. none \in [{} -> T]
        OBVIOUS
    <2> HIDE DEF none
    <2>4. ListsInOrder(none, T, R)
        BY <1>4, <2>2, <2>3 DEF ListsInOrder
    <2> QED
        BY <1>2, <2>4
<1>5. CASE T # {}
    <2>1. IsOrder(R, T)
        BY <1>3 DEF IsOrder
    <2>2. PICK m \in T : \A x \in T : <<x, m>> \in R
        BY <1>3, <1>5, <2>1, LastExists
    <2>3. CanSort(T \ {m})
        BY <1>2, <2>2
    <2>4. PICK s : ListsInOrder(s, T \ {m}, R)
        BY <2>3
    <2>5. CanSort(T)
        BY <1>3, <2>2, <2>4, SortedWithLast
    <2> QED
        BY <1>2, <2>5
<1> QED
    BY <1>4, <1>5

-----------------------------------------------------------------------------
(* Sums. *)

Some(s) == CHOOSE x \in s : TRUE

IsTally(it, f, S) ==
    it = [s \in SUBSET S |-> IF s = {} THEN 0 ELSE f[Some(s)] + it[s \ {Some(s)}]]

LEMMA SumIsTally ==
    ASSUME NEW f, NEW S, \E it : IsTally(it, f, S)
    PROVE  \E it : IsTally(it, f, S) /\ SumFunctionOnSet(f, S) = it[S]
<1> DEFINE it == CHOOSE it : IsTally(it, f, S)
<1>1. IsTally(it, f, S)
    OBVIOUS
<1>2. SumFunctionOnSet(f, S) = it[S]
    BY Zenon DEF IsTally, Some, SumFunctionOnSet, FoldFunctionOnSet, MapThenFoldSet
<1> QED
    BY <1>1, <1>2

(* A tally of the subsets with at most n members extends to those with one   *)
(* more, and so to all of them.                                              *)
LEMMA TallyExists ==
    ASSUME NEW f, NEW S, IsFiniteSet(S)
    PROVE  \E it : IsTally(it, f, S)
<1> DEFINE Small(n) == {s \in SUBSET S : Cardinality(s) <= n}
           IsSmall(g, n) == g = [s \in Small(n) |-> IF s = {} THEN 0
                                                    ELSE f[Some(s)] + g[s \ {Some(s)}]]
           Bad == {n \in Nat : ~\E g : IsSmall(g, n)}
<1>1. \A s \in SUBSET S : /\ IsFiniteSet(s) /\ Cardinality(s) \in Nat
                          /\ Cardinality(s) <= Cardinality(S)
                          /\ Cardinality(s) = 0 <=> s = {}
    BY FS_Subset, FS_CardinalityType, FS_EmptySet
<1>2. \A s \in SUBSET S : s # {} => /\ Some(s) \in s /\ s \ {Some(s)} \in SUBSET S
                                    /\ Cardinality(s \ {Some(s)}) = Cardinality(s) - 1
    <2> TAKE s \in SUBSET S
    <2> HAVE s # {}
    <2>1. Some(s) \in s
        BY DEF Some
    <2> QED
        BY <1>1, <2>1, FS_RemoveElement
<1>3. Bad = {}
    <2> SUFFICES ASSUME Bad # {} PROVE FALSE
        OBVIOUS
    <2>1. PICK n \in Bad : \A m \in Bad : n <= m
        <3>1. Bad \in SUBSET Nat
            OBVIOUS
        <3> HIDE DEF Bad
        <3> QED
            BY <3>1, LeastExists
    <2>2. n # 0
        <3>1. Small(0) = {{}}
            BY <1>1, FS_EmptySet
        <3>2. IsSmall([s \in Small(0) |-> 0], 0)
            BY <3>1
        <3> HIDE DEF IsSmall
        <3> QED
            BY <3>2
    <2>3. n \in Nat /\ n - 1 \in Nat /\ n - 1 \notin Bad
        <3>1. n \in Nat
            OBVIOUS
        <3> HIDE DEF Bad
        <3> QED
            BY <2>1, <2>2, <3>1
    <2>4. PICK g : IsSmall(g, n - 1)
        BY <2>3
    <2> DEFINE h == [s \in Small(n) |-> IF s = {} THEN 0 ELSE f[Some(s)] + g[s \ {Some(s)}]]
    <2>5. \A s \in Small(n - 1) : s \in Small(n) /\ h[s] = g[s]
        <3>1. \A s \in Small(n - 1) : s \in Small(n)
            BY <1>1, <2>3
        <3>2. \A s \in Small(n - 1) :
                  g[s] = IF s = {} THEN 0 ELSE f[Some(s)] + g[s \ {Some(s)}]
            <4> HIDE DEF Small
            <4> QED
                BY <2>4
        <3> HIDE DEF Small
        <3> QED
            BY <3>1, <3>2
    <2>6. \A s \in Small(n) : s # {} => s \ {Some(s)} \in Small(n - 1)
        BY <1>1, <1>2, <2>3
    <2> HIDE DEF Small
    <2>7. IsSmall(h, n)
        BY <2>5, <2>6
    <2> HIDE DEF IsSmall, h
    <2> QED
        BY <2>1, <2>7
<1>4. Small(Cardinality(S)) = SUBSET S /\ Cardinality(S) \in Nat
    BY <1>1, FS_CardinalityType
<1>5. PICK g : IsSmall(g, Cardinality(S))
    BY <1>3, <1>4
<1>6. IsTally(g, f, S)
    BY <1>4, <1>5 DEF IsTally
<1> QED
    BY <1>6

(* Tallies of two sets agree on what the sets share. *)
LEMMA TalliesAgree ==
    ASSUME NEW f, NEW S, IsFiniteSet(S), NEW T \in SUBSET S,
           NEW a, IsTally(a, f, S), NEW b, IsTally(b, f, T)
    PROVE  a[T] = b[T]
<1> DEFINE Bad == {s \in SUBSET T : a[s] # b[s]}
<1> SUFFICES Bad = {}
    OBVIOUS
<1> SUFFICES ASSUME Bad # {} PROVE FALSE
    OBVIOUS
<1>1. IsFiniteSet(T)
    BY FS_Subset
<1>2. PICK s \in Bad : \A x \in s : s \ {x} \notin Bad
    BY <1>1, LeastSubset
<1>3. s \in SUBSET T /\ s \in SUBSET S /\ a[s] # b[s]
    OBVIOUS
<1>4. CASE s = {}
    BY <1>3, <1>4 DEF IsTally
<1>5. CASE s # {}
    <2> DEFINE x == Some(s)
    <2>1. x \in s
        BY <1>5 DEF Some
    <2>2. a[s \ {x}] = b[s \ {x}]
        BY <1>2, <2>1
    <2>3. a[s] = f[x] + a[s \ {x}] /\ b[s] = f[x] + b[s \ {x}]
        BY <1>3, <1>5 DEF IsTally
    <2> QED
        BY <1>3, <2>2, <2>3
<1> QED
    BY <1>4, <1>5

LEMMA SumEmpty ==
    ASSUME NEW f
    PROVE  SumFunctionOnSet(f, {}) = 0
<1>1. IsFiniteSet({})
    BY FS_EmptySet
<1>2. PICK it : IsTally(it, f, {}) /\ SumFunctionOnSet(f, {}) = it[{}]
    BY <1>1, TallyExists, SumIsTally
<1> QED
    BY <1>2 DEF IsTally

(* The sum begins with some member of the set... *)
LEMMA SumSome ==
    ASSUME NEW f, NEW S, IsFiniteSet(S), S # {}
    PROVE  /\ Some(S) \in S
           /\ SumFunctionOnSet(f, S) = f[Some(S)] + SumFunctionOnSet(f, S \ {Some(S)})
<1> DEFINE T == S \ {Some(S)}
<1>1. IsFiniteSet(T) /\ T \in SUBSET S
    BY FS_RemoveElement
<1>2. PICK a : IsTally(a, f, S) /\ SumFunctionOnSet(f, S) = a[S]
    BY TallyExists, SumIsTally
<1>3. PICK b : IsTally(b, f, T) /\ SumFunctionOnSet(f, T) = b[T]
    BY <1>1, TallyExists, SumIsTally
<1>4. a[T] = b[T]
    BY <1>1, <1>2, <1>3, TalliesAgree
<1>5. a[S] = f[Some(S)] + a[T]
    BY <1>2 DEF IsTally
<1>6. Some(S) \in S
    BY DEF Some
<1> QED
    BY <1>2, <1>3, <1>4, <1>5, <1>6

LEMMA SumIsInt ==
    ASSUME NEW f, NEW S, IsFiniteSet(S), \A x \in S : f[x] \in Int
    PROVE  SumFunctionOnSet(f, S) \in Int
<1> DEFINE Bad == {s \in SUBSET S : SumFunctionOnSet(f, s) \notin Int}
<1> SUFFICES ASSUME Bad # {} PROVE FALSE
    OBVIOUS
<1>1. PICK s \in Bad : \A x \in s : s \ {x} \notin Bad
    BY LeastSubset
<1>2. s # {}
    BY SumEmpty
<1>3. IsFiniteSet(s)
    BY FS_Subset
<1>4. /\ Some(s) \in s
      /\ SumFunctionOnSet(f, s) = f[Some(s)] + SumFunctionOnSet(f, s \ {Some(s)})
    BY <1>2, <1>3, SumSome
<1>5. SumFunctionOnSet(f, s \ {Some(s)}) \in Int
    BY <1>1, <1>4
<1> QED
    BY <1>4, <1>5

(* ... and no matter with which.                                             *)
LEMMA SumRemove ==
    ASSUME NEW f, NEW S, IsFiniteSet(S), \A x \in S : f[x] \in Int, NEW y \in S
    PROVE  SumFunctionOnSet(f, S) = f[y] + SumFunctionOnSet(f, S \ {y})
<1> DEFINE Sum(s) == SumFunctionOnSet(f, s)
           Bad == {s \in SUBSET S : \E x \in s : Sum(s) # f[x] + Sum(s \ {x})}
<1> SUFFICES ASSUME Bad # {} PROVE FALSE
    OBVIOUS
<1>1. PICK s \in Bad : \A x \in s : s \ {x} \notin Bad
    BY LeastSubset
<1>2. \A t \in SUBSET S : IsFiniteSet(t) /\ Sum(t) \in Int
    BY FS_Subset, SumIsInt
<1>3. PICK x \in s : Sum(s) # f[x] + Sum(s \ {x})
    OBVIOUS
<1> DEFINE z == Some(s)
<1>4. z \in s /\ Sum(s) = f[z] + Sum(s \ {z})
    BY <1>2, SumSome
<1>5. x # z /\ x \in s \ {z} /\ z \in s \ {x}
    BY <1>3, <1>4
<1>6. Sum(s \ {z}) = f[x] + Sum((s \ {z}) \ {x})
    BY <1>1, <1>4, <1>5
<1>7. Sum(s \ {x}) = f[z] + Sum((s \ {x}) \ {z})
    BY <1>1, <1>5
<1> PICK rest : rest = Sum((s \ {x}) \ {z})
    OBVIOUS
<1>8. (s \ {z}) \ {x} = (s \ {x}) \ {z} /\ (s \ {x}) \ {z} \in SUBSET S
    OBVIOUS
<1>9. f[x] \in Int /\ f[z] \in Int /\ rest \in Int
    BY <1>2, <1>4, <1>8
<1> HIDE DEF Sum, z
<1>10. Sum(s) = f[z] + (f[x] + rest) /\ Sum(s \ {x}) = f[z] + rest
    BY <1>4, <1>6, <1>7, <1>8
<1>11. f[z] + (f[x] + rest) = f[x] + (f[z] + rest)
    BY <1>9
<1> QED
    BY <1>3, <1>10, <1>11

LEMMA SumAdd ==
    ASSUME NEW f, NEW S, IsFiniteSet(S), NEW y, y \notin S,
           \A x \in S \union {y} : f[x] \in Int
    PROVE  SumFunctionOnSet(f, S \union {y}) = f[y] + SumFunctionOnSet(f, S)
<1>1. IsFiniteSet(S \union {y})
    BY FS_AddElement
<1>2. (S \union {y}) \ {y} = S
    OBVIOUS
<1> QED
    BY <1>1, <1>2, SumRemove

(* A sum depends on the values at its set and on nothing else. *)
LEMMA SumSame ==
    ASSUME NEW f, NEW g, NEW S, IsFiniteSet(S), \A x \in S : f[x] = g[x]
    PROVE  SumFunctionOnSet(f, S) = SumFunctionOnSet(g, S)
<1> DEFINE Bad == {s \in SUBSET S : SumFunctionOnSet(f, s) # SumFunctionOnSet(g, s)}
<1> SUFFICES ASSUME Bad # {} PROVE FALSE
    OBVIOUS
<1>1. PICK s \in Bad : \A x \in s : s \ {x} \notin Bad
    BY LeastSubset
<1>2. s # {}
    BY SumEmpty
<1>3. IsFiniteSet(s)
    BY FS_Subset
<1>4. /\ Some(s) \in s
      /\ SumFunctionOnSet(f, s) = f[Some(s)] + SumFunctionOnSet(f, s \ {Some(s)})
      /\ SumFunctionOnSet(g, s) = g[Some(s)] + SumFunctionOnSet(g, s \ {Some(s)})
    BY <1>2, <1>3, SumSome
<1>5. SumFunctionOnSet(f, s \ {Some(s)}) = SumFunctionOnSet(g, s \ {Some(s)})
    BY <1>1, <1>4
<1> QED
    BY <1>4, <1>5

LEMMA SumSplit ==
    ASSUME NEW f, NEW S, IsFiniteSet(S), NEW T \in SUBSET S, \A x \in S : f[x] \in Int
    PROVE  SumFunctionOnSet(f, S) = SumFunctionOnSet(f, T) + SumFunctionOnSet(f, S \ T)
<1> DEFINE Sum(s) == SumFunctionOnSet(f, s)
           Bad == {s \in SUBSET S : T \in SUBSET s /\ Sum(s) # Sum(T) + Sum(s \ T)}
<1> SUFFICES ASSUME Bad # {} PROVE FALSE
    OBVIOUS
<1>1. PICK s \in Bad : \A x \in s : s \ {x} \notin Bad
    BY LeastSubset
<1>2. \A u \in SUBSET S : IsFiniteSet(u) /\ Sum(u) \in Int
    BY FS_Subset, SumIsInt
<1>3. PICK x : x \in s \ T
    <2> SUFFICES s # T
        OBVIOUS
    <2>1. T \ T = {}
        OBVIOUS
    <2>2. Sum(T \ T) = 0 /\ Sum(T) \in Int
        BY <1>2, <2>1, SumEmpty
    <2>3. Sum(T) = Sum(T) + Sum(T \ T)
        <3> HIDE DEF Sum
        <3> QED
            BY <2>2
    <2> QED
        BY <2>3
<1>4. Sum(s) = f[x] + Sum(s \ {x})
    BY <1>2, <1>3, SumRemove
<1>5. Sum(s \ T) = f[x] + Sum((s \ T) \ {x})
    <2>1. s \ T \in SUBSET S /\ IsFiniteSet(s \ T) /\ \A y \in s \ T : f[y] \in Int
        BY <1>2
    <2> HIDE DEF Bad
    <2> QED
        BY <1>3, <2>1, SumRemove
<1>6. (s \ T) \ {x} = (s \ {x}) \ T
    OBVIOUS
<1>7. Sum(s \ {x}) = Sum(T) + Sum((s \ {x}) \ T)
    BY <1>1, <1>3
<1>8. Sum((s \ {x}) \ T) \in Int /\ Sum(T) \in Int /\ f[x] \in Int
    BY <1>2, <1>3
<1> PICK rest : rest = Sum((s \ {x}) \ T)
    OBVIOUS
<1>9. Sum(s \ T) = f[x] + rest
    BY <1>5, <1>6
<1>10. Sum(s) # Sum(T) + Sum(s \ T)
    OBVIOUS
<1> HIDE DEF Sum, Bad
<1> QED
    BY <1>4, <1>7, <1>8, <1>9, <1>10

(* Of natural numbers, the sum over more is more. *)
LEMMA SumIsNat ==
    ASSUME NEW f, NEW S, IsFiniteSet(S), \A x \in S : f[x] \in Nat
    PROVE  SumFunctionOnSet(f, S) \in Nat
<1> DEFINE Bad == {s \in SUBSET S : SumFunctionOnSet(f, s) \notin Nat}
<1> SUFFICES ASSUME Bad # {} PROVE FALSE
    OBVIOUS
<1>1. PICK s \in Bad : \A x \in s : s \ {x} \notin Bad
    BY LeastSubset
<1>2. s # {}
    BY SumEmpty
<1>3. IsFiniteSet(s)
    BY FS_Subset
<1>4. /\ Some(s) \in s
      /\ SumFunctionOnSet(f, s) = f[Some(s)] + SumFunctionOnSet(f, s \ {Some(s)})
    BY <1>2, <1>3, SumSome
<1>5. SumFunctionOnSet(f, s \ {Some(s)}) \in Nat
    BY <1>1, <1>4
<1> QED
    BY <1>4, <1>5

LEMMA SumSubset ==
    ASSUME NEW f, NEW S, IsFiniteSet(S), NEW T \in SUBSET S, \A x \in S : f[x] \in Nat
    PROVE  SumFunctionOnSet(f, T) <= SumFunctionOnSet(f, S)
<1>1. IsFiniteSet(T) /\ IsFiniteSet(S \ T)
    BY FS_Subset
<1>2. SumFunctionOnSet(f, S) = SumFunctionOnSet(f, T) + SumFunctionOnSet(f, S \ T)
    BY SumSplit
<1>3. SumFunctionOnSet(f, T) \in Nat /\ SumFunctionOnSet(f, S \ T) \in Nat
    BY <1>1, SumIsNat
<1> QED
    BY <1>2, <1>3

(* Members that count nothing do not matter. *)
LEMMA SumZeros ==
    ASSUME NEW f, NEW S, IsFiniteSet(S), NEW T \in SUBSET S, \A x \in S : f[x] \in Int,
           \A x \in S \ T : f[x] = 0
    PROVE  SumFunctionOnSet(f, S) = SumFunctionOnSet(f, T)
<1> DEFINE Sum(s) == SumFunctionOnSet(f, s)
           Bad == {s \in SUBSET (S \ T) : Sum(s) # 0}
<1>1. IsFiniteSet(T) /\ IsFiniteSet(S \ T)
    BY FS_Subset
<1>2. Bad = {}
    <2> SUFFICES ASSUME Bad # {} PROVE FALSE
        OBVIOUS
    <2>1. PICK s \in Bad : \A x \in s : s \ {x} \notin Bad
        BY <1>1, LeastSubset
    <2>2. s # {}
        BY SumEmpty
    <2>3. IsFiniteSet(s)
        BY <1>1, FS_Subset
    <2>4. Some(s) \in s /\ Sum(s) = f[Some(s)] + Sum(s \ {Some(s)})
        BY <2>2, <2>3, SumSome
    <2>5. Sum(s \ {Some(s)}) = 0 /\ f[Some(s)] = 0
        BY <2>1, <2>4
    <2> QED
        BY <2>4, <2>5
<1>3. Sum(S \ T) = 0
    BY <1>2
<1>4. Sum(S) = Sum(T) + Sum(S \ T)
    BY SumSplit
<1>5. Sum(T) \in Int
    BY <1>1, SumIsInt
<1> HIDE DEF Sum
<1>6. Sum(S) = Sum(T)
    BY <1>3, <1>4, <1>5
<1> QED
    BY <1>6 DEF Sum

(* The sum of sums. *)
LEMMA SumPlus ==
    ASSUME NEW f, NEW g, NEW h, NEW S, IsFiniteSet(S),
           \A x \in S : f[x] \in Int /\ g[x] \in Int /\ h[x] = f[x] + g[x]
    PROVE  SumFunctionOnSet(h, S) = SumFunctionOnSet(f, S) + SumFunctionOnSet(g, S)
<1> DEFINE F(s) == SumFunctionOnSet(f, s)
           G(s) == SumFunctionOnSet(g, s)
           H(s) == SumFunctionOnSet(h, s)
           Bad == {s \in SUBSET S : H(s) # F(s) + G(s)}
<1> SUFFICES ASSUME Bad # {} PROVE FALSE
    OBVIOUS
<1>1. PICK s \in Bad : \A x \in s : s \ {x} \notin Bad
    BY LeastSubset
<1>2. s # {}
    <2>1. H({}) = F({}) + G({})
        BY SumEmpty
    <2> HIDE DEF F, G, H
    <2> QED
        BY <2>1
<1>3. IsFiniteSet(s)
    BY FS_Subset
<1> DEFINE x == Some(s)
<1>4. /\ x \in s
      /\ F(s) = f[x] + F(s \ {x}) /\ G(s) = g[x] + G(s \ {x}) /\ H(s) = h[x] + H(s \ {x})
    BY <1>2, <1>3, SumSome
<1>5. H(s \ {x}) = F(s \ {x}) + G(s \ {x})
    BY <1>1, <1>4
<1>6. F(s \ {x}) \in Int /\ G(s \ {x}) \in Int
    BY <1>3, FS_RemoveElement, SumIsInt
<1>7. H(s) # F(s) + G(s) /\ f[x] \in Int /\ g[x] \in Int /\ h[x] = f[x] + g[x]
    BY <1>4
<1> HIDE DEF F, G, H, x
<1> QED
    BY <1>4, <1>5, <1>6, <1>7

LEMMA SumConstant ==
    ASSUME NEW f, NEW S, IsFiniteSet(S), NEW c \in Int, \A x \in S : f[x] = c
    PROVE  SumFunctionOnSet(f, S) = c * Cardinality(S)
<1> DEFINE Sum(s) == SumFunctionOnSet(f, s)
           Bad == {s \in SUBSET S : Sum(s) # c * Cardinality(s)}
<1> SUFFICES ASSUME Bad # {} PROVE FALSE
    OBVIOUS
<1>1. PICK s \in Bad : \A x \in s : s \ {x} \notin Bad
    BY LeastSubset
<1>2. s # {}
    <2>1. Sum({}) = c * Cardinality({})
        BY SumEmpty, FS_EmptySet
    <2> HIDE DEF Sum
    <2> QED
        BY <2>1
<1>3. IsFiniteSet(s) /\ Cardinality(s) \in Nat
    BY FS_Subset, FS_CardinalityType
<1> DEFINE x == Some(s)
<1>4. x \in s /\ Sum(s) = f[x] + Sum(s \ {x})
    BY <1>2, <1>3, SumSome
<1>5. Sum(s \ {x}) = c * Cardinality(s \ {x})
    BY <1>1, <1>4
<1>6. Cardinality(s \ {x}) = Cardinality(s) - 1
    BY <1>3, <1>4, FS_RemoveElement
<1>7. Sum(s) # c * Cardinality(s) /\ f[x] = c
    BY <1>4
<1> HIDE DEF Sum, x
<1> QED
    BY <1>3, <1>4, <1>5, <1>6, <1>7

(* A sum may be taken key by key: g holds, for every key, the sum of what is *)
(* counted at it, part[key].                                                 *)
LEMMA SumByKey ==
    ASSUME NEW f, NEW S, IsFiniteSet(S), \A x \in S : f[x] \in Int,
           NEW key, NEW K, IsFiniteSet(K), \A x \in S : key[x] \in K,
           NEW part, \A k \in K : part[k] \in SUBSET S,
           \A k \in K : \A x \in S : x \in part[k] <=> key[x] = k,
           NEW g, \A k \in K : g[k] = SumFunctionOnSet(f, part[k])
    PROVE  SumFunctionOnSet(g, K) = SumFunctionOnSet(f, S)
<1> DEFINE At(ks) == {x \in S : key[x] \in ks}
           Bad == {ks \in SUBSET K : SumFunctionOnSet(g, ks) # SumFunctionOnSet(f, At(ks))}
<1>1. Bad = {}
    <2> SUFFICES ASSUME Bad # {} PROVE FALSE
        OBVIOUS
    <2>1. PICK ks \in Bad : \A k \in ks : ks \ {k} \notin Bad
        BY LeastSubset
    <2>2. ks # {}
        <3>1. At({}) = {}
            OBVIOUS
        <3>2. SumFunctionOnSet(g, {}) = 0 /\ SumFunctionOnSet(f, {}) = 0
            BY SumEmpty
        <3>3. {} \notin Bad
            BY ONLY <3>1, <3>2, Zenon
        <3> QED
            BY <3>3
    <2>3. IsFiniteSet(ks)
        BY FS_Subset
    <2> DEFINE k == Some(ks)
               here == part[k]
    <2>4. k \in ks /\ SumFunctionOnSet(g, ks) = g[k] + SumFunctionOnSet(g, ks \ {k})
        BY ONLY <2>2, <2>3, SumSome
    <2>5. SumFunctionOnSet(g, ks \ {k}) = SumFunctionOnSet(f, At(ks \ {k}))
        BY <2>1, <2>4
    <2>6. here \in SUBSET At(ks) /\ At(ks) \ here = At(ks \ {k})
        BY <2>4
    <2>7. IsFiniteSet(At(ks)) /\ \A x \in At(ks) : f[x] \in Int
        BY FS_Subset
    <2>9. g[k] = SumFunctionOnSet(f, here)
        BY <2>4
    <2>10. SumFunctionOnSet(g, ks) # SumFunctionOnSet(f, At(ks))
        OBVIOUS
    <2> HIDE DEF here, At, k
    <2>11. SumFunctionOnSet(f, At(ks))
             = SumFunctionOnSet(f, here) + SumFunctionOnSet(f, At(ks) \ here)
        BY <2>6, <2>7, SumSplit
    <2> QED
        BY <2>4, <2>5, <2>6, <2>9, <2>10, <2>11
<1>2. At(K) = S
    OBVIOUS
<1> QED
    BY <1>1, <1>2

-----------------------------------------------------------------------------
(* Subsequences. *)

LEMMA WiderSeq ==
    ASSUME NEW A, NEW B, A \subseteq B, NEW s \in Seq(A)
    PROVE  s \in Seq(B)
<1>1. Len(s) \in Nat /\ s \in [1..Len(s) -> B]
    OBVIOUS
<1> QED
    BY <1>1

LEMMA LeastSequence ==
    ASSUME NEW A, NEW U \in SUBSET Seq(A), U # {}
    PROVE  \E s \in U : \/ s = <<>>
                        \/ \E t \in Seq(A), x \in A : s = Append(t, x) /\ t \notin U
<1> DEFINE Lens == {Len(s) : s \in U}
<1>1. PICK s \in U : \A t \in U : Len(s) <= Len(t)
    <2>1. Lens \in SUBSET Nat /\ Lens # {}
        <3>1. \A t \in U : Len(t) \in Nat
            OBVIOUS
        <3> QED
            BY <3>1
    <2> HIDE DEF Lens
    <2>2. PICK n \in Lens : \A m \in Lens : n <= m
        BY <2>1, LeastExists
    <2> QED
        BY <2>2 DEF Lens
<1>2. CASE s = <<>>
    BY <1>2
<1>3. CASE s # <<>>
    <2> DEFINE t == [i \in 1..(Len(s) - 1) |-> s[i]]
               x == s[Len(s)]
    <2>1. s \in Seq(A) /\ Len(s) \in Nat /\ Len(s) # 0
        BY <1>3
    <2>2. t \in Seq(A) /\ x \in A /\ Len(t) = Len(s) - 1
        BY <2>1
    <2>3. s = Append(t, x)
        BY <2>1, <2>2
    <2>4. t \notin U
        BY <1>1, <2>1, <2>2
    <2> QED
        BY <2>2, <2>3, <2>4
<1> QED
    BY <1>2, <1>3

IsKept(u, n, s, S) ==
    u = [m \in 0..n |-> IF m = 0 THEN <<>>
                        ELSE IF m \in S THEN Append(u[m - 1], s[m]) ELSE u[m - 1]]

LEMMA KeptIsKept ==
    ASSUME NEW s, NEW S, \E u : IsKept(u, Len(s), s, S)
    PROVE  \E u : IsKept(u, Len(s), s, S) /\ Kept(s, S) = u[Len(s)]
<1> DEFINE u == CHOOSE u : IsKept(u, Len(s), s, S)
<1>1. IsKept(u, Len(s), s, S)
    OBVIOUS
<1>2. Kept(s, S) = u[Len(s)]
    BY Zenon DEF IsKept, Kept
<1> QED
    BY <1>1, <1>2

LEMMA KeptExists ==
    ASSUME NEW n \in Nat, NEW s, NEW S
    PROVE  \E u : IsKept(u, n, s, S)
<1> DEFINE Bad == {m \in Nat : ~\E u : IsKept(u, m, s, S)}
<1> SUFFICES ASSUME Bad # {} PROVE FALSE
    OBVIOUS
<1>1. PICK m \in Bad : \A k \in Bad : m <= k
    <2>1. Bad \in SUBSET Nat
        OBVIOUS
    <2> HIDE DEF Bad
    <2> QED
        BY <2>1, LeastExists
<1>2. m \in Nat /\ ~\E u : IsKept(u, m, s, S)
    OBVIOUS
<1>3. m # 0
    <2>1. IsKept([k \in 0..0 |-> <<>>], 0, s, S)
        BY DEF IsKept
    <2> QED
        BY <1>2, <2>1
<1>4. m - 1 \in Nat /\ m - 1 \notin Bad
    <2>1. m - 1 \in Nat /\ ~(m <= m - 1)
        BY <1>2, <1>3
    <2> HIDE DEF Bad
    <2> QED
        BY <1>1, <2>1
<1>5. PICK u : IsKept(u, m - 1, s, S)
    BY <1>4
<1> DEFINE v == [k \in 0..m |-> IF k = 0 THEN <<>>
                                ELSE IF k \in S THEN Append(u[k - 1], s[k]) ELSE u[k - 1]]
<1>6. \A k \in 0..(m - 1) : v[k] = u[k]
    <2> TAKE k \in 0..(m - 1)
    <2>1. k \in 0..m
        BY <1>2
    <2>2. u[k] = IF k = 0 THEN <<>>
                 ELSE IF k \in S THEN Append(u[k - 1], s[k]) ELSE u[k - 1]
        BY <1>5 DEF IsKept
    <2> QED
        BY <2>1, <2>2
<1>7. \A k \in 0..m : k # 0 => k - 1 \in 0..(m - 1)
    BY <1>2
<1>8. IsKept(v, m, s, S)
    BY <1>6, <1>7 DEF IsKept
<1> QED
    BY <1>2, <1>8

LEMMA KeptEmpty ==
    ASSUME NEW S
    PROVE  Kept(<<>>, S) = <<>>
<1>1. Len(<<>>) = 0
    OBVIOUS
<1>2. PICK u : IsKept(u, Len(<<>>), <<>>, S) /\ Kept(<<>>, S) = u[Len(<<>>)]
    BY <1>1, KeptExists, KeptIsKept
<1> QED
    BY <1>1, <1>2 DEF IsKept

(* Two sequences that agree so far, and of which the same positions are kept,*)
(* have the same kept so far.                                                *)
LEMMA KeptSoFar ==
    ASSUME NEW n \in Nat, NEW s, NEW t, NEW S, NEW T,
           \A i \in 1..n : s[i] = t[i] /\ (i \in S <=> i \in T),
           NEW k \in Nat, NEW l \in Nat, n <= k, n <= l,
           NEW u, IsKept(u, k, s, S), NEW v, IsKept(v, l, t, T)
    PROVE  u[n] = v[n]
<1> DEFINE Bad == {m \in 0..n : u[m] # v[m]}
<1> SUFFICES ASSUME Bad # {} PROVE FALSE
    OBVIOUS
<1>1. PICK m \in Bad : \A j \in Bad : m <= j
    <2>1. Bad \in SUBSET Nat
        OBVIOUS
    <2> HIDE DEF Bad
    <2> QED
        BY <2>1, LeastExists
<1>2. m \in 0..n /\ u[m] # v[m]
    OBVIOUS
<1>3. m \in 0..k /\ m \in 0..l
    BY <1>2
<1>4. m # 0
    BY <1>2, <1>3 DEF IsKept
<1>5. m \in 1..n /\ m - 1 \in 0..n /\ ~(m <= m - 1)
    BY <1>2, <1>4
<1>6. u[m - 1] = v[m - 1]
    BY <1>1, <1>5
<1>7. u[m] = IF m \in S THEN Append(u[m - 1], s[m]) ELSE u[m - 1]
    BY <1>3, <1>4 DEF IsKept
<1>8. v[m] = IF m \in T THEN Append(v[m - 1], t[m]) ELSE v[m - 1]
    BY <1>3, <1>4 DEF IsKept
<1> HIDE DEF Bad
<1> QED
    BY <1>2, <1>5, <1>6, <1>7, <1>8

LEMMA KeptSame ==
    ASSUME NEW A, NEW s \in Seq(A), NEW S, NEW T, \A i \in 1..Len(s) : i \in S <=> i \in T
    PROVE  Kept(s, S) = Kept(s, T)
<1>1. Len(s) \in Nat
    OBVIOUS
<1>2. PICK u : IsKept(u, Len(s), s, S) /\ Kept(s, S) = u[Len(s)]
    BY <1>1, KeptExists, KeptIsKept
<1>3. PICK v : IsKept(v, Len(s), s, T) /\ Kept(s, T) = v[Len(s)]
    BY <1>1, KeptExists, KeptIsKept
<1>4. u[Len(s)] = v[Len(s)]
    BY <1>1, <1>2, <1>3, KeptSoFar
<1> QED
    BY <1>2, <1>3, <1>4

LEMMA KeptAppend ==
    ASSUME NEW A, NEW s \in Seq(A), NEW x \in A, NEW S
    PROVE  Kept(Append(s, x), S) = IF Len(s) + 1 \in S THEN Append(Kept(s, S), x)
                                   ELSE Kept(s, S)
<1> DEFINE t == Append(s, x)
           n == Len(s)
<1>1. n \in Nat /\ Len(t) = n + 1 /\ t[n + 1] = x /\ \A i \in 1..n : t[i] = s[i]
    OBVIOUS
<1>2. PICK u : IsKept(u, n, s, S) /\ Kept(s, S) = u[n]
    BY <1>1, KeptExists, KeptIsKept
<1> HIDE DEF t, n
<1>3. PICK v : IsKept(v, n + 1, t, S) /\ Kept(t, S) = v[n + 1]
    <2>1. Len(t) \in Nat
        BY <1>1
    <2>2. PICK v : IsKept(v, Len(t), t, S) /\ Kept(t, S) = v[Len(t)]
        BY <2>1, KeptExists, KeptIsKept
    <2> QED
        BY <1>1, <2>2
<1>4. u[n] = v[n]
    BY <1>1, <1>2, <1>3, KeptSoFar
<1>5. v[n + 1] = IF n + 1 \in S THEN Append(v[n], x) ELSE v[n]
    <2>1. n + 1 \in 0..(n + 1) /\ n + 1 # 0 /\ (n + 1) - 1 = n
        BY <1>1
    <2>2. v[n + 1] = IF n + 1 \in S THEN Append(v[(n + 1) - 1], t[n + 1]) ELSE v[(n + 1) - 1]
        BY <1>3, <2>1 DEF IsKept
    <2> QED
        BY <1>1, <2>1, <2>2
<1> QED
    BY <1>2, <1>3, <1>4, <1>5 DEF t, n

LEMMA KeptIsSeq ==
    ASSUME NEW A, NEW s \in Seq(A), NEW S
    PROVE  Kept(s, S) \in Seq(A)
<1> DEFINE Bad == {t \in Seq(A) : Kept(t, S) \notin Seq(A)}
<1> SUFFICES ASSUME Bad # {} PROVE FALSE
    OBVIOUS
<1>1. PICK t \in Bad : \/ t = <<>>
                       \/ \E r \in Seq(A), x \in A : t = Append(r, x) /\ r \notin Bad
    BY LeastSequence
<1>2. CASE t = <<>>
    BY <1>2, KeptEmpty
<1>3. ASSUME NEW r \in Seq(A), NEW x \in A, t = Append(r, x), r \notin Bad
      PROVE  FALSE
    <2>1. Kept(r, S) \in Seq(A) /\ Kept(t, S) \notin Seq(A)
        BY <1>3
    <2>2. Kept(t, S) = Kept(r, S) \/ Kept(t, S) = Append(Kept(r, S), x)
        BY <1>3, KeptAppend
    <2>3. Append(Kept(r, S), x) \in Seq(A)
        BY <2>1
    <2> QED
        BY <2>1, <2>2, <2>3, Zenon
<1> QED
    BY <1>1, <1>2, <1>3

LEMMA KeptLength ==
    ASSUME NEW A, NEW s \in Seq(A), NEW S
    PROVE  Len(Kept(s, S)) = Cardinality({n \in 1..Len(s) : n \in S})
<1> DEFINE In(t) == {n \in 1..Len(t) : n \in S}
           Bad == {t \in Seq(A) : Len(Kept(t, S)) # Cardinality(In(t))}
<1> SUFFICES ASSUME Bad # {} PROVE FALSE
    OBVIOUS
<1>1. PICK t \in Bad : \/ t = <<>>
                       \/ \E r \in Seq(A), x \in A : t = Append(r, x) /\ r \notin Bad
    BY LeastSequence
<1>2. CASE t = <<>>
    <2>1. In(<<>>) = {}
        OBVIOUS
    <2> QED
        BY <1>2, <2>1, KeptEmpty, FS_EmptySet
<1>3. ASSUME NEW r \in Seq(A), NEW x \in A, t = Append(r, x), r \notin Bad
      PROVE  FALSE
    <2> DEFINE n == Len(r)
    <2>1. n \in Nat /\ Len(t) = n + 1
        BY <1>3
    <2>2. IsFiniteSet(In(r)) /\ Cardinality(In(r)) \in Nat
        <3>1. In(r) \in SUBSET (1..n) /\ IsFiniteSet(1..n)
            BY <2>1, FS_Interval
        <3> QED
            BY <3>1, FS_Subset, FS_CardinalityType
    <2>3. Len(Kept(r, S)) = Cardinality(In(r)) /\ Kept(r, S) \in Seq(A)
        BY <1>3, KeptIsSeq
    <2>4. CASE n + 1 \in S
        <3>1. Len(Kept(t, S)) = Cardinality(In(r)) + 1
            BY <1>3, <2>3, <2>4, KeptAppend
        <3>2. In(t) = In(r) \union {n + 1} /\ n + 1 \notin In(r)
            BY <2>1, <2>4
        <3>3. Cardinality(In(r) \union {n + 1}) = Cardinality(In(r)) + 1
            BY <2>2, <3>2, FS_AddElement
        <3> QED
            BY <3>1, <3>2, <3>3
    <2>5. CASE n + 1 \notin S
        <3>1. Len(Kept(t, S)) = Cardinality(In(r))
            BY <1>3, <2>3, <2>5, KeptAppend
        <3>2. In(t) = In(r)
            BY <2>1, <2>5
        <3> QED
            BY <3>1, <3>2
    <2> QED
        BY <2>4, <2>5
<1> QED
    BY <1>1, <1>2, <1>3

LEMMA KeptNothing ==
    ASSUME NEW A, NEW s \in Seq(A), NEW S, \A i \in 1..Len(s) : i \notin S
    PROVE  Kept(s, S) = <<>>
<1>1. {n \in 1..Len(s) : n \in S} = {}
    OBVIOUS
<1>2. Len(Kept(s, S)) = 0
    BY <1>1, KeptLength, FS_EmptySet
<1>3. Kept(s, S) \in Seq(A)
    BY KeptIsSeq
<1> QED
    BY <1>2, <1>3

(* The values at some positions and one more.                                *)
LEMMA ImageOfOneMore ==
    ASSUME NEW f, NEW g, NEW T, NEW k, NEW x, \A n \in T : f[n] = g[n], f[k] = x
    PROVE  {f[n] : n \in T \union {k}} = {g[n] : n \in T} \union {x}
OBVIOUS

(* What is kept is what stands at the positions kept.                        *)
LEMMA KeptMembers ==
    ASSUME NEW A, NEW s \in Seq(A), NEW S
    PROVE  {Kept(s, S)[i] : i \in 1..Len(Kept(s, S))} = {s[n] : n \in {m \in 1..Len(s) : m \in S}}
<1> DEFINE Members(q) == {q[i] : i \in 1..Len(q)}
           Those(t) == {m \in 1..Len(t) : m \in S}
           At(t) == {t[n] : n \in Those(t)}
           Bad == {t \in Seq(A) : Members(Kept(t, S)) # At(t)}
<1> SUFFICES ASSUME Bad # {} PROVE FALSE
    OBVIOUS
<1>1. PICK t \in Bad : \/ t = <<>>
                       \/ \E r \in Seq(A), x \in A : t = Append(r, x) /\ r \notin Bad
    BY LeastSequence
<1>2. CASE t = <<>>
    <2>1. At(<<>>) = {} /\ Members(<<>>) = {}
        OBVIOUS
    <2> QED
        BY <1>2, <2>1, KeptEmpty
<1>3. ASSUME NEW r \in Seq(A), NEW x \in A, t = Append(r, x), r \notin Bad
      PROVE  FALSE
    <2>1. Members(Kept(r, S)) = At(r) /\ Kept(r, S) \in Seq(A) /\ Len(r) \in Nat
        <3>1. Members(Kept(r, S)) = At(r)
            BY <1>3, Zenon
        <3>2. Kept(r, S) \in Seq(A) /\ Len(r) \in Nat
            BY KeptIsSeq
        <3> HIDE DEF Members, At
        <3> QED
            BY <3>1, <3>2
    <2>2. /\ Len(t) = Len(r) + 1 /\ t[Len(r) + 1] = x
          /\ \A n \in 1..Len(r) : n \in 1..Len(t) /\ t[n] = r[n]
          /\ \A n \in 1..Len(t) : n \in 1..Len(r) \/ n = Len(r) + 1
        BY <1>3
    <2>3. \A q \in Seq(A) : Members(Append(q, x)) = Members(q) \union {x}
        <3> TAKE q \in Seq(A)
        <3>1. /\ Len(q) \in Nat /\ Len(Append(q, x)) = Len(q) + 1
              /\ Append(q, x)[Len(q) + 1] = x
              /\ \A i \in 1..Len(q) : Append(q, x)[i] = q[i]
            OBVIOUS
        <3>2. \A i \in 1..(Len(q) + 1) : i \in 1..Len(q) \/ i = Len(q) + 1
            BY <3>1
        <3>3. \A i \in 1..Len(q) : i \in 1..(Len(q) + 1)
            BY <3>1
        <3>4. Len(q) + 1 \in 1..(Len(q) + 1)
            BY <3>1
        <3> QED
            BY <3>1, <3>2, <3>3, <3>4
    <2>4. CASE Len(r) + 1 \in S
        <3>1. Kept(t, S) = Append(Kept(r, S), x)
            BY <1>3, <2>4, KeptAppend
        <3>2. Those(t) = Those(r) \union {Len(r) + 1} /\ \A n \in Those(r) : t[n] = r[n]
            BY <2>1, <2>2, <2>4
        <3>3. t[Len(r) + 1] = x
            BY <2>2
        <3> HIDE DEF Those
        <3>4. {t[n] : n \in Those(r) \union {Len(r) + 1}} = {r[n] : n \in Those(r)} \union {x}
            BY ONLY <3>2, <3>3, ImageOfOneMore
        <3>5. At(t) = At(r) \union {x}
            BY ONLY <3>2, <3>4
        <3>6. Members(Kept(t, S)) = Members(Kept(r, S)) \union {x}
            BY <2>1, <2>3, <3>1
        <3> HIDE DEF At, Members
        <3>7. Members(Kept(t, S)) = At(t)
            BY <2>1, <3>5, <3>6
        <3> QED
            BY <3>7
    <2>5. CASE Len(r) + 1 \notin S
        <3>1. Kept(t, S) = Kept(r, S)
            BY <1>3, <2>5, KeptAppend
        <3>2. Those(t) = Those(r) /\ \A n \in Those(r) : t[n] = r[n]
            BY <2>1, <2>2, <2>5
        <3> HIDE DEF Those
        <3>3. At(t) = At(r)
            BY ONLY <3>2
        <3> HIDE DEF At, Members
        <3>4. Members(Kept(t, S)) = At(t)
            BY <2>1, <3>1, <3>3
        <3> QED
            BY <3>4
    <2> QED
        BY <2>4, <2>5
<1> QED
    BY <1>1, <1>2, <1>3

(* Of one sequence after another, the positions of the first give the first, *)
(* and those of the second the second.                                       *)
LEMMA KeptFirst ==
    ASSUME NEW A, NEW s \in Seq(A)
    PROVE  Kept(s, 1..Len(s)) = s
<1> DEFINE Bad == {t \in Seq(A) : Kept(t, 1..Len(t)) # t}
<1> SUFFICES ASSUME Bad # {} PROVE FALSE
    OBVIOUS
<1>1. PICK t \in Bad : \/ t = <<>>
                       \/ \E r \in Seq(A), x \in A : t = Append(r, x) /\ r \notin Bad
    BY LeastSequence
<1>2. t # <<>>
    BY KeptEmpty
<1>3. PICK r \in Seq(A), x \in A : t = Append(r, x) /\ r \notin Bad
    BY <1>1, <1>2
<1>4. Kept(r, 1..Len(r)) = r /\ Kept(t, 1..Len(t)) # t
    BY <1>3
<1>5. Len(t) = Len(r) + 1 /\ Len(r) \in Nat
    BY <1>3
<1>6. \A i \in 1..Len(r) : i \in 1..Len(r) <=> i \in 1..Len(t)
    BY <1>5
<1>7. Kept(r, 1..Len(t)) = r
    BY <1>4, <1>6, KeptSame
<1>8. Len(r) + 1 \in 1..Len(t)
    BY <1>5
<1>9. Kept(t, 1..Len(t)) = Append(Kept(r, 1..Len(t)), x)
    BY <1>3, <1>8, KeptAppend
<1> QED
    BY <1>3, <1>4, <1>7, <1>9

LEMMA KeptHalves ==
    ASSUME NEW A, NEW s \in Seq(A), NEW t \in Seq(A)
    PROVE  /\ Kept(s \o t, 1..Len(s)) = s
           /\ Kept(s \o t, (1..Len(s \o t)) \ (1..Len(s))) = t
<1> DEFINE first == 1..Len(s)
           Fails(u) == \/ Kept(s \o u, first) # s
                       \/ Kept(s \o u, (1..Len(s \o u)) \ first) # u
           Bad == {u \in Seq(A) : Fails(u)}
<1> SUFFICES ASSUME Bad # {} PROVE FALSE
    OBVIOUS
<1>1. PICK u \in Bad : \/ u = <<>>
                       \/ \E r \in Seq(A), x \in A : u = Append(r, x) /\ r \notin Bad
    BY LeastSequence
<1>2. u # <<>>
    <2>1. s \o <<>> = s
        OBVIOUS
    <2>2. Kept(s, first) = s
        BY KeptFirst
    <2>3. Kept(s, first \ first) = <<>>
        BY KeptNothing
    <2> QED
        BY <2>1, <2>2, <2>3
<1>3. PICK r \in Seq(A), x \in A : u = Append(r, x) /\ r \notin Bad
    BY <1>1, <1>2
<1>4. PICK q : q = s \o r
    OBVIOUS
<1>5. /\ q \in Seq(A) /\ s \o u = Append(q, x)
      /\ Len(q) = Len(s) + Len(r) /\ Len(s) \in Nat /\ Len(r) \in Nat
    BY <1>3, <1>4
<1>6. Kept(q, first) = s /\ Kept(q, (1..Len(q)) \ first) = r
    BY <1>3, <1>4
<1>7. Len(Append(q, x)) = Len(q) + 1
    BY <1>5
<1>8. Len(q) + 1 \notin first /\ Len(q) + 1 \in (1..(Len(q) + 1)) \ first
    BY <1>5
<1>9. Kept(Append(q, x), first) = s
    BY <1>5, <1>6, <1>8, KeptAppend
<1>10. Kept(q, (1..(Len(q) + 1)) \ first) = r
    <2>1. \A i \in 1..Len(q) : i \in (1..(Len(q) + 1)) \ first <=> i \in (1..Len(q)) \ first
        BY <1>5
    <2> QED
        BY <1>5, <1>6, <2>1, KeptSame
<1>11. Kept(Append(q, x), (1..(Len(q) + 1)) \ first) = Append(r, x)
    BY ONLY x \in A, <1>5, <1>8, <1>10, KeptAppend
<1>12. ~Fails(u)
    BY <1>3, <1>5, <1>7, <1>9, <1>11
<1> QED
    BY <1>12
=============================================================================
