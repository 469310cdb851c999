-------------------------------- MODULE Sums --------------------------------
(***************************************************************************)
(* Facts about SumFunctionOnSet, the sum of a function over a finite set,  *)
(* which the reports and the payments are defined with: what one more      *)
(* element adds, sums by group, sums of counts. The induction over finite  *)
(* sets they rest on is stated with a set in place of a predicate.         *)
(***************************************************************************)
EXTENDS Integers, FiniteSets, FiniteSetsExt, FiniteSetTheorems, WellFoundedInduction, TLAPS

\* A set that holds the empty set and, with a set, that set and one more element,
\* holds every finite set.
LEMMA FiniteInduction ==
    ASSUME NEW S, IsFiniteSet(S), NEW P,
           {} \in P,
           \A T \in SUBSET S, x \in S : T \in P /\ x \notin T => T \cup {x} \in P
    PROVE  S \in P
<1> SUFFICES ASSUME S \notin P PROVE FALSE
  OBVIOUS
<1> DEFINE Bad == {T \in SUBSET S : T \notin P}
           R == StrictSubsetOrdering(S)
<1>1. IsWellFoundedOn(R, FiniteSubsetsOf(S))
  BY FS_StrictSubsetOrderingWellFounded
<1>2. FiniteSubsetsOf(S) = SUBSET S
  BY FS_FiniteSubsetsOfFinite
<1>3. Bad \subseteq FiniteSubsetsOf(S) /\ Bad # {}
  BY <1>2
<1>4. PICK T \in Bad : \A U \in Bad : <<U, T>> \notin R
  <2> HIDE DEF Bad, R
  <2> QED BY <1>1, <1>3, WFMin
<1>5. T # {} /\ T \subseteq S
  OBVIOUS
<1>6. PICK x \in T : TRUE
  BY <1>5
<1>7. T \ {x} \in SUBSET S /\ T \ {x} # T
  BY <1>5, <1>6
<1>8. T \ {x} \in P
  BY <1>4, <1>7 DEF StrictSubsetOrdering
<1>9. (T \ {x}) \cup {x} \in P
  BY <1>5, <1>6, <1>7, <1>8
<1> QED
  <2>1. (T \ {x}) \cup {x} = T
    BY <1>6
  <2> QED BY <1>9, <2>1

\* What MapThenFoldSet takes next, and a function that adds up in that order.
Pick(s) == CHOOSE x \in s : TRUE
Iterates(it, g, D) == it = [s \in D |-> IF s = {} THEN 0 ELSE g[Pick(s)] + it[s \ {Pick(s)}]]

\* What is picked from a set that is not empty is one of its elements.
LEMMA PickIn == \A s : s # {} => Pick(s) \in s
  BY DEF Pick

\* A function on the subsets of a finite set that adds the elements up in the order
\* they are picked exists.
LEMMA SumExists ==
    ASSUME NEW S, IsFiniteSet(S), NEW g
    PROVE  \E it : Iterates(it, g, SUBSET S)
<1> DEFINE Level(n) == {s \in SUBSET S : Cardinality(s) <= n}
           P == {T \in SUBSET S : \E it : Iterates(it, g, Level(Cardinality(T)))}
<1>0. \A s \in SUBSET S : IsFiniteSet(s) /\ Cardinality(s) \in Nat
  BY FS_Subset, FS_CardinalityType
<1>1. {} \in P
  <2>1. Level(0) = {{}}
    BY <1>0, FS_EmptySet
  <2> DEFINE it == [s \in {{}} |-> 0]
  <2>2. it = [s \in {{}} |-> IF s = {} THEN 0 ELSE g[Pick(s)] + it[s \ {Pick(s)}]]
    OBVIOUS
  <2>3. Iterates(it, g, Level(Cardinality({})))
    BY <2>1, <2>2, FS_EmptySet DEF Iterates
  <2>4. {} \in SUBSET S
    OBVIOUS
  <2> HIDE DEF it, Level
  <2> QED BY <2>3, <2>4
<1>2. ASSUME NEW T \in SUBSET S, NEW x \in S, T \in P, x \notin T
      PROVE  T \cup {x} \in P
  <2>1. Cardinality(T \cup {x}) = Cardinality(T) + 1
    BY <1>0, <1>2, FS_AddElement
  <2>2. PICK f : Iterates(f, g, Level(Cardinality(T)))
    BY <1>2
  <2> DEFINE n == Cardinality(T)
             h == [s \in Level(n + 1) |-> IF s = {} THEN 0 ELSE g[Pick(s)] + f[s \ {Pick(s)}]]
  <2>3. \A s \in Level(n + 1) : s # {} => s \ {Pick(s)} \in Level(n)
    <3> TAKE s \in Level(n + 1)
    <3> HAVE s # {}
    <3>1. Cardinality(s \ {Pick(s)}) = Cardinality(s) - 1
      BY <1>0, PickIn, FS_RemoveElement
    <3> QED BY <1>0, <3>1
  <2>4. \A s \in Level(n) : h[s] = f[s]
    <3> TAKE s \in Level(n)
    <3>1. s \in Level(n + 1)
      BY <1>0
    <3>2. f[s] = IF s = {} THEN 0 ELSE g[Pick(s)] + f[s \ {Pick(s)}]
      <4> HIDE DEF Level
      <4> QED BY <2>2 DEF Iterates
    <3> HIDE DEF Level
    <3> QED BY <3>1, <3>2
  <2>5. \A s \in Level(n + 1) : s # {} => h[s \ {Pick(s)}] = f[s \ {Pick(s)}]
    <3> HIDE DEF Level, h
    <3> QED BY <2>3, <2>4
  <2>6. h = [s \in Level(n + 1) |-> IF s = {} THEN 0 ELSE g[Pick(s)] + h[s \ {Pick(s)}]]
    <3> DEFINE k == [s \in Level(n + 1) |-> IF s = {} THEN 0 ELSE g[Pick(s)] + h[s \ {Pick(s)}]]
    <3>1. \A s \in Level(n + 1) : h[s] = k[s]
      <4> TAKE s \in Level(n + 1)
      <4>1. h[s] = IF s = {} THEN 0 ELSE g[Pick(s)] + f[s \ {Pick(s)}]
        OBVIOUS
      <4>2. k[s] = IF s = {} THEN 0 ELSE g[Pick(s)] + h[s \ {Pick(s)}]
        BY DEF k
      <4> HIDE DEF h, k, Level
      <4> QED BY <2>5, <4>1, <4>2
    <3> HIDE DEF Level
    <3>2. h = [s \in Level(n + 1) |-> h[s]] /\ k = [s \in Level(n + 1) |-> k[s]]
      OBVIOUS
    <3> HIDE DEF h, k
    <3>3. h = k
      BY <3>1, <3>2
    <3> QED BY <3>3 DEF k
  <2>7. Iterates(h, g, Level(Cardinality(T \cup {x})))
    <3> HIDE DEF h, Level
    <3> QED BY <2>1, <2>6 DEF Iterates
  <2> QED
    <3> HIDE DEF h, Level
    <3> QED BY <2>7
<1>3. S \in P
  <2> HIDE DEF P
  <2> QED BY <1>1, <1>2, FiniteInduction
<1>4. Level(Cardinality(S)) = SUBSET S
  BY <1>0, FS_Subset
<1> QED
  <2> HIDE DEF Level
  <2> QED BY <1>3, <1>4

\* The sum of g over S is what such a function gives for S.
LEMMA SumIs ==
    ASSUME NEW S, IsFiniteSet(S), NEW g
    PROVE  \E it : Iterates(it, g, SUBSET S) /\ SumFunctionOnSet(g, S) = it[S]
<1> DEFINE it == CHOOSE it : it = [s \in SUBSET S |-> IF s = {} THEN 0 ELSE g[Pick(s)] + it[s \ {Pick(s)}]]
<1>1. SumFunctionOnSet(g, S) = it[S]
  BY DEF SumFunctionOnSet, FoldFunctionOnSet, MapThenFoldSet, Pick
<1>2. Iterates(it, g, SUBSET S)
  <2>1. PICK w : Iterates(w, g, SUBSET S)
    BY SumExists
  <2>2. \E f : f = [s \in SUBSET S |-> IF s = {} THEN 0 ELSE g[Pick(s)] + f[s \ {Pick(s)}]]
    BY <2>1 DEF Iterates
  <2>3. it = [s \in SUBSET S |-> IF s = {} THEN 0 ELSE g[Pick(s)] + it[s \ {Pick(s)}]]
    BY <2>2, Zenon
  <2> HIDE DEF it
  <2> QED BY <2>3 DEF Iterates
<1> QED
  <2> HIDE DEF it
  <2> QED BY <1>1, <1>2

\* A set that holds a finite set whenever it holds all its proper subsets holds every
\* finite set.
LEMMA StrongFiniteInduction ==
    ASSUME NEW S, IsFiniteSet(S), NEW P,
           \A T \in SUBSET S : (\A U \in SUBSET T : U # T => U \in P) => T \in P
    PROVE  S \in P
<1> SUFFICES ASSUME S \notin P PROVE FALSE
  OBVIOUS
<1> DEFINE Bad == {T \in SUBSET S : T \notin P}
           R == StrictSubsetOrdering(S)
<1>1. IsWellFoundedOn(R, FiniteSubsetsOf(S))
  BY FS_StrictSubsetOrderingWellFounded
<1>2. FiniteSubsetsOf(S) = SUBSET S
  BY FS_FiniteSubsetsOfFinite
<1>3. Bad \subseteq FiniteSubsetsOf(S) /\ Bad # {}
  BY <1>2
<1>4. PICK T \in Bad : \A U \in Bad : <<U, T>> \notin R
  <2> HIDE DEF Bad, R
  <2> QED BY <1>1, <1>3, WFMin
<1>5. \A U \in SUBSET T : U # T => U \in P
  BY <1>4 DEF StrictSubsetOrdering
<1> QED
  BY <1>4, <1>5

\* A sum of integers in picking order is an integer.
LEMMA IterType ==
    ASSUME NEW S, IsFiniteSet(S), NEW g, \A x \in S : g[x] \in Int,
           NEW it, Iterates(it, g, SUBSET S)
    PROVE  \A s \in SUBSET S : it[s] \in Int
<1>1. \A s \in SUBSET S : it[s] = IF s = {} THEN 0 ELSE g[Pick(s)] + it[s \ {Pick(s)}]
  BY DEF Iterates
<1> DEFINE P == {s \in SUBSET S : it[s] \in Int}
<1>2. \A s \in SUBSET S : (\A u \in SUBSET s : u # s => u \in P) => s \in P
  <2> TAKE s \in SUBSET S
  <2> HAVE \A u \in SUBSET s : u # s => u \in P
  <2>1. CASE s = {}
    <3>1. it[s] = 0
      BY <1>1, <2>1
    <3> QED BY <3>1
  <2>2. CASE s # {}
    <3>1. Pick(s) \in s
      BY <2>2, PickIn
    <3>2. s \ {Pick(s)} \in P
      BY <3>1
    <3>3. it[s] = g[Pick(s)] + it[s \ {Pick(s)}]
      BY <1>1, <2>2
    <3>4. g[Pick(s)] \in Int /\ it[s \ {Pick(s)}] \in Int
      BY <3>1, <3>2
    <3>5. it[s] \in Int
      BY <3>3, <3>4
    <3> QED BY <3>5
  <2> QED BY <2>1, <2>2
<1>3. \A s \in SUBSET S : s \in P
  <2> TAKE s \in SUBSET S
  <2>1. IsFiniteSet(s)
    BY FS_Subset
  <2>2. \A t \in SUBSET s : (\A u \in SUBSET t : u # t => u \in P) => t \in P
    BY <1>2
  <2> HIDE DEF P
  <2> QED BY <2>1, <2>2, StrongFiniteInduction
<1> QED BY <1>3

\* Functions that add up in picking order agree, whatever larger set they are defined on.
LEMMA IterUnique ==
    ASSUME NEW S, IsFiniteSet(S), NEW T \in SUBSET S, NEW g, NEW it, NEW jt,
           Iterates(it, g, SUBSET S), Iterates(jt, g, SUBSET T)
    PROVE  it[T] = jt[T]
<1>1. /\ \A s \in SUBSET S : it[s] = IF s = {} THEN 0 ELSE g[Pick(s)] + it[s \ {Pick(s)}]
      /\ \A s \in SUBSET T : jt[s] = IF s = {} THEN 0 ELSE g[Pick(s)] + jt[s \ {Pick(s)}]
  BY DEF Iterates
<1> DEFINE P == {s \in SUBSET T : it[s] = jt[s]}
<1>2. \A s \in SUBSET T : (\A u \in SUBSET s : u # s => u \in P) => s \in P
  <2> TAKE s \in SUBSET T
  <2> HAVE \A u \in SUBSET s : u # s => u \in P
  <2>1. CASE s = {}
    BY <1>1, <2>1
  <2>2. CASE s # {}
    <3>1. Pick(s) \in s
      BY <2>2, PickIn
    <3>2. s \ {Pick(s)} \in P
      BY <3>1
    <3> QED BY <1>1, <2>2, <3>1, <3>2
  <2> QED BY <2>1, <2>2
<1>3. IsFiniteSet(T)
  BY FS_Subset
<1>4. T \in P
  <2> HIDE DEF P
  <2> QED BY <1>2, <1>3, StrongFiniteInduction
<1> QED BY <1>4

\* The picking order does not matter: any element may be added last.
LEMMA IterAnyOrder ==
    ASSUME NEW S, IsFiniteSet(S), NEW g, \A x \in S : g[x] \in Int,
           NEW it, Iterates(it, g, SUBSET S)
    PROVE  \A y \in S : it[S] = g[y] + it[S \ {y}]
<1>1. \A s \in SUBSET S : it[s] = IF s = {} THEN 0 ELSE g[Pick(s)] + it[s \ {Pick(s)}]
  BY DEF Iterates
<1>2. \A s \in SUBSET S : it[s] \in Int
  BY IterType
<1> DEFINE P == {s \in SUBSET S : \A y \in s : it[s] = g[y] + it[s \ {y}]}
<1>3. \A s \in SUBSET S : (\A u \in SUBSET s : u # s => u \in P) => s \in P
  <2> TAKE s \in SUBSET S
  <2> HAVE \A u \in SUBSET s : u # s => u \in P
  <2> SUFFICES ASSUME NEW y \in s PROVE it[s] = g[y] + it[s \ {y}]
    OBVIOUS
  <2> DEFINE x == Pick(s)
  <2>1. x \in s
    BY PickIn
  <2> HIDE DEF x
  <2>2. it[s] = g[x] + it[s \ {x}]
    BY <1>1 DEF x
  <2>3. CASE x = y
    BY <2>2, <2>3
  <2>4. CASE x # y
    <3>1. s \ {x} \in P /\ s \ {y} \in P
      BY <2>1
    <3>2. it[s \ {x}] = g[y] + it[(s \ {x}) \ {y}]
      BY <2>4, <3>1
    <3>3. it[s \ {y}] = g[x] + it[(s \ {y}) \ {x}]
      BY <2>1, <2>4, <3>1
    <3>4. (s \ {x}) \ {y} = (s \ {y}) \ {x}
      OBVIOUS
    <3>5. g[x] \in Int /\ g[y] \in Int /\ it[(s \ {y}) \ {x}] \in Int
      BY <1>2, <2>1
    <3> DEFINE c == it[(s \ {y}) \ {x}]
    <3>6. it[s] = g[x] + (g[y] + c) /\ it[s \ {y}] = g[x] + c
      BY <2>2, <3>2, <3>3, <3>4
    <3> HIDE DEF P, c
    <3>7. g[x] + (g[y] + c) = g[y] + (g[x] + c)
      BY <3>5 DEF c
    <3> QED BY <3>6, <3>7
  <2> QED BY <2>3, <2>4
<1>4. S \in P
  <2> HIDE DEF P
  <2> QED BY <1>3, StrongFiniteInduction
<1> QED BY <1>4

\* The sum over no elements is 0.
LEMMA SumEmpty == \A g : SumFunctionOnSet(g, {}) = 0
<1> TAKE g
<1>1. IsFiniteSet({})
  BY FS_EmptySet
<1>2. PICK it : Iterates(it, g, SUBSET {}) /\ SumFunctionOnSet(g, {}) = it[{}]
  BY <1>1, SumIs
<1> QED BY <1>2 DEF Iterates

\* One more element adds its value.
LEMMA SumAdd ==
    ASSUME NEW S, IsFiniteSet(S), NEW x, x \notin S, NEW g,
           \A y \in S \cup {x} : g[y] \in Int
    PROVE  SumFunctionOnSet(g, S \cup {x}) = g[x] + SumFunctionOnSet(g, S)
<1> DEFINE W == S \cup {x}
<1>1. IsFiniteSet(W)
  BY FS_AddElement
<1>2. PICK it : Iterates(it, g, SUBSET W) /\ SumFunctionOnSet(g, W) = it[W]
  <2> HIDE DEF W
  <2> QED BY <1>1, SumIs
<1>3. PICK jt : Iterates(jt, g, SUBSET S) /\ SumFunctionOnSet(g, S) = jt[S]
  BY SumIs
<1>4. S \in SUBSET W /\ x \in W /\ W \ {x} = S /\ \A y \in W : g[y] \in Int
  OBVIOUS
<1> HIDE DEF W
<1>5. it[S] = jt[S]
  BY <1>1, <1>2, <1>3, <1>4, IterUnique
<1>6. it[W] = g[x] + it[W \ {x}]
  BY <1>1, <1>2, <1>4, IterAnyOrder
<1>7. QED
  BY <1>2, <1>3, <1>4, <1>5, <1>6 DEF W


\* A sum of integers is an integer.
LEMMA SumType ==
    ASSUME NEW S, IsFiniteSet(S), NEW g, \A x \in S : g[x] \in Int
    PROVE  SumFunctionOnSet(g, S) \in Int
<1>1. PICK it : Iterates(it, g, SUBSET S) /\ SumFunctionOnSet(g, S) = it[S]
  BY SumIs
<1>2. S \in SUBSET S
  OBVIOUS
<1> QED BY <1>1, <1>2, IterType

\* A sum of natural numbers is a natural number.
LEMMA SumNat ==
    ASSUME NEW S, IsFiniteSet(S), NEW g, \A x \in S : g[x] \in Nat
    PROVE  SumFunctionOnSet(g, S) \in Nat
<1> DEFINE P == {T \in SUBSET S : SumFunctionOnSet(g, T) \in Nat}
<1>1. {} \in P
  BY SumEmpty
<1>2. \A T \in SUBSET S, x \in S : T \in P /\ x \notin T => T \cup {x} \in P
  <2> SUFFICES ASSUME NEW T \in SUBSET S, NEW x \in S, T \in P, x \notin T
               PROVE  T \cup {x} \in P
    OBVIOUS
  <2>1. IsFiniteSet(T) /\ \A y \in T \cup {x} : g[y] \in Int
    BY FS_Subset
  <2>2. SumFunctionOnSet(g, T \cup {x}) = g[x] + SumFunctionOnSet(g, T)
    BY <2>1, SumAdd
  <2>3. g[x] \in Nat /\ SumFunctionOnSet(g, T) \in Nat
    OBVIOUS
  <2>4. SumFunctionOnSet(g, T \cup {x}) \in Nat
    BY <2>2, <2>3
  <2> QED BY <2>4
<1>3. S \in P
  <2> HIDE DEF P
  <2> QED BY <1>1, <1>2, FiniteInduction
<1> QED BY <1>3

\* Functions that agree on S have the same sum over S.
LEMMA SumSame ==
    ASSUME NEW S, IsFiniteSet(S), NEW g, NEW h,
           \A x \in S : g[x] \in Int /\ g[x] = h[x]
    PROVE  SumFunctionOnSet(g, S) = SumFunctionOnSet(h, S)
<1> DEFINE P == {T \in SUBSET S : SumFunctionOnSet(g, T) = SumFunctionOnSet(h, T)}
<1>1. {} \in P
  BY SumEmpty
<1>2. \A T \in SUBSET S, x \in S : T \in P /\ x \notin T => T \cup {x} \in P
  <2> SUFFICES ASSUME NEW T \in SUBSET S, NEW x \in S, T \in P, x \notin T
               PROVE  T \cup {x} \in P
    OBVIOUS
  <2>1. IsFiniteSet(T) /\ \A y \in T \cup {x} : g[y] \in Int /\ h[y] \in Int
    BY FS_Subset
  <2>2. SumFunctionOnSet(g, T \cup {x}) = g[x] + SumFunctionOnSet(g, T)
    BY <2>1, SumAdd
  <2>3. SumFunctionOnSet(h, T \cup {x}) = h[x] + SumFunctionOnSet(h, T)
    BY <2>1, SumAdd
  <2> QED BY <2>2, <2>3
<1>3. S \in P
  <2> HIDE DEF P
  <2> QED BY <1>1, <1>2, FiniteInduction
<1> QED BY <1>3

\* The sum of element-wise sums is the sum of the sums.
LEMMA SumPlus ==
    ASSUME NEW S, IsFiniteSet(S), NEW g, NEW h, NEW k,
           \A x \in S : g[x] \in Int /\ h[x] \in Int /\ k[x] = g[x] + h[x]
    PROVE  SumFunctionOnSet(k, S) = SumFunctionOnSet(g, S) + SumFunctionOnSet(h, S)
<1> DEFINE P == {T \in SUBSET S :
                    SumFunctionOnSet(k, T) = SumFunctionOnSet(g, T) + SumFunctionOnSet(h, T)}
<1>1. {} \in P
  BY SumEmpty
<1>2. \A T \in SUBSET S, x \in S : T \in P /\ x \notin T => T \cup {x} \in P
  <2> SUFFICES ASSUME NEW T \in SUBSET S, NEW x \in S, T \in P, x \notin T
               PROVE  T \cup {x} \in P
    OBVIOUS
  <2>1. IsFiniteSet(T) /\ \A y \in T \cup {x} : g[y] \in Int /\ h[y] \in Int /\ k[y] \in Int
    BY FS_Subset
  <2>2. SumFunctionOnSet(g, T \cup {x}) = g[x] + SumFunctionOnSet(g, T)
    BY <2>1, SumAdd
  <2>3. SumFunctionOnSet(h, T \cup {x}) = h[x] + SumFunctionOnSet(h, T)
    BY <2>1, SumAdd
  <2>4. SumFunctionOnSet(k, T \cup {x}) = k[x] + SumFunctionOnSet(k, T)
    BY <2>1, SumAdd
  <2>5. SumFunctionOnSet(g, T) \in Int /\ SumFunctionOnSet(h, T) \in Int
    BY <2>1, SumType
  <2>6. SumFunctionOnSet(k, T) = SumFunctionOnSet(g, T) + SumFunctionOnSet(h, T)
    OBVIOUS
  <2>7. SumFunctionOnSet(k, T \cup {x})
            = SumFunctionOnSet(g, T \cup {x}) + SumFunctionOnSet(h, T \cup {x})
    BY <2>2, <2>3, <2>4, <2>5, <2>6
  <2> QED BY <2>7
<1>3. S \in P
  <2> HIDE DEF P
  <2> QED BY <1>1, <1>2, FiniteInduction
<1> QED BY <1>3

\* A sum of smaller values is not larger.
LEMMA SumAtMost ==
    ASSUME NEW S, IsFiniteSet(S), NEW g, NEW h,
           \A x \in S : g[x] \in Int /\ h[x] \in Int /\ g[x] <= h[x]
    PROVE  SumFunctionOnSet(g, S) <= SumFunctionOnSet(h, S)
<1> DEFINE d == [x \in S |-> h[x] - g[x]]
<1>1. \A x \in S : d[x] \in Nat
  OBVIOUS
<1>2. SumFunctionOnSet(d, S) \in Nat
  <2> HIDE DEF d
  <2> QED BY <1>1, SumNat
<1>3. \A x \in S : g[x] \in Int /\ d[x] \in Int /\ h[x] = g[x] + d[x]
  OBVIOUS
<1>4. SumFunctionOnSet(h, S) = SumFunctionOnSet(g, S) + SumFunctionOnSet(d, S)
  <2> HIDE DEF d
  <2> QED BY <1>3, SumPlus
<1>5. SumFunctionOnSet(g, S) \in Int
  BY SumType
<1> QED
  <2> HIDE DEF d
  <2> QED BY <1>2, <1>4, <1>5

\* A sum over two disjoint sets is the sum over the one and over the other.
LEMMA SumDisjoint ==
    ASSUME NEW S, IsFiniteSet(S), NEW T, IsFiniteSet(T), S \cap T = {}, NEW g,
           \A x \in S \cup T : g[x] \in Int
    PROVE  SumFunctionOnSet(g, S \cup T) = SumFunctionOnSet(g, S) + SumFunctionOnSet(g, T)
<1> DEFINE P == {U \in SUBSET T :
                    SumFunctionOnSet(g, S \cup U) = SumFunctionOnSet(g, S) + SumFunctionOnSet(g, U)}
<1>0. SumFunctionOnSet(g, S) \in Int
  BY SumType
<1>1. {} \in P
  <2>1. S \cup {} = S
    OBVIOUS
  <2> QED BY <1>0, <2>1, SumEmpty
<1>2. \A U \in SUBSET T, x \in T : U \in P /\ x \notin U => U \cup {x} \in P
  <2> SUFFICES ASSUME NEW U \in SUBSET T, NEW x \in T, U \in P, x \notin U
               PROVE  U \cup {x} \in P
    OBVIOUS
  <2>1. IsFiniteSet(U) /\ \A y \in U \cup {x} : g[y] \in Int
    BY FS_Subset
  <2>2. /\ IsFiniteSet(S \cup U) /\ x \notin S \cup U
        /\ \A y \in (S \cup U) \cup {x} : g[y] \in Int
    BY <2>1, FS_Union
  <2>3. SumFunctionOnSet(g, (S \cup U) \cup {x}) = g[x] + SumFunctionOnSet(g, S \cup U)
    BY <2>2, SumAdd
  <2>4. SumFunctionOnSet(g, U \cup {x}) = g[x] + SumFunctionOnSet(g, U)
    BY <2>1, SumAdd
  <2>5. SumFunctionOnSet(g, U) \in Int /\ g[x] \in Int
    BY <2>1, SumType
  <2>6. SumFunctionOnSet(g, S \cup U) = SumFunctionOnSet(g, S) + SumFunctionOnSet(g, U)
    OBVIOUS
  <2>7. (S \cup U) \cup {x} = S \cup (U \cup {x})
    OBVIOUS
  <2>8. SumFunctionOnSet(g, S \cup (U \cup {x}))
            = SumFunctionOnSet(g, S) + SumFunctionOnSet(g, U \cup {x})
    <3> DEFINE a == SumFunctionOnSet(g, S)
               u == SumFunctionOnSet(g, U)
    <3>1. /\ SumFunctionOnSet(g, S \cup (U \cup {x})) = g[x] + (a + u)
          /\ SumFunctionOnSet(g, U \cup {x}) = g[x] + u
      BY <2>3, <2>4, <2>6, <2>7
    <3>2. a \in Int /\ u \in Int
      BY <1>0, <2>5
    <3> HIDE DEF a, u, P
    <3>3. g[x] + (a + u) = a + (g[x] + u)
      BY <2>5, <3>2
    <3> QED BY <3>1, <3>3 DEF a
  <2> QED BY <2>8
<1>3. T \in P
  <2> HIDE DEF P
  <2> QED BY <1>1, <1>2, FiniteInduction
<1> QED BY <1>3

\* A sum of natural numbers over some of the elements is at most the sum over all.
LEMMA SumSubset ==
    ASSUME NEW S, IsFiniteSet(S), NEW T \in SUBSET S, NEW g, \A x \in S : g[x] \in Nat
    PROVE  SumFunctionOnSet(g, T) <= SumFunctionOnSet(g, S)
<1>1. IsFiniteSet(T) /\ IsFiniteSet(S \ T)
  BY FS_Subset, FS_Difference
<1>2. T \cap (S \ T) = {} /\ T \cup (S \ T) = S
  OBVIOUS
<1>3. SumFunctionOnSet(g, T \cup (S \ T)) = SumFunctionOnSet(g, T) + SumFunctionOnSet(g, S \ T)
  BY <1>1, <1>2, SumDisjoint
<1>4. SumFunctionOnSet(g, T) \in Nat /\ SumFunctionOnSet(g, S \ T) \in Nat
  BY <1>1, SumNat
<1>5. SumFunctionOnSet(g, S) = SumFunctionOnSet(g, T) + SumFunctionOnSet(g, S \ T)
  BY <1>2, <1>3
<1> QED BY <1>4, <1>5

\* The sum of ones is the number of elements.
LEMMA SumOnes ==
    ASSUME NEW S, IsFiniteSet(S), NEW g, \A x \in S : g[x] = 1
    PROVE  SumFunctionOnSet(g, S) = Cardinality(S)
<1> DEFINE P == {T \in SUBSET S : SumFunctionOnSet(g, T) = Cardinality(T)}
<1>1. {} \in P
  BY SumEmpty, FS_EmptySet
<1>2. \A T \in SUBSET S, x \in S : T \in P /\ x \notin T => T \cup {x} \in P
  <2> SUFFICES ASSUME NEW T \in SUBSET S, NEW x \in S, T \in P, x \notin T
               PROVE  T \cup {x} \in P
    OBVIOUS
  <2>1. IsFiniteSet(T) /\ \A y \in T \cup {x} : g[y] \in Int
    BY FS_Subset
  <2>2. SumFunctionOnSet(g, T \cup {x}) = g[x] + SumFunctionOnSet(g, T)
    BY <2>1, SumAdd
  <2>3. Cardinality(T \cup {x}) = Cardinality(T) + 1 /\ Cardinality(T) \in Nat
    BY <2>1, FS_AddElement, FS_CardinalityType
  <2>4. SumFunctionOnSet(g, T \cup {x}) = Cardinality(T \cup {x})
    BY <2>2, <2>3
  <2> QED BY <2>4
<1>3. S \in P
  <2> HIDE DEF P
  <2> QED BY <1>1, <1>2, FiniteInduction
<1> QED BY <1>3


\* The sum of zeros is 0.
LEMMA SumZeros ==
    ASSUME NEW S, IsFiniteSet(S), NEW g, \A x \in S : g[x] = 0
    PROVE  SumFunctionOnSet(g, S) = 0
<1> DEFINE P == {T \in SUBSET S : SumFunctionOnSet(g, T) = 0}
<1>1. {} \in P
  BY SumEmpty
<1>2. \A T \in SUBSET S, x \in S : T \in P /\ x \notin T => T \cup {x} \in P
  <2> SUFFICES ASSUME NEW T \in SUBSET S, NEW x \in S, T \in P, x \notin T
               PROVE  T \cup {x} \in P
    OBVIOUS
  <2>1. IsFiniteSet(T) /\ \A y \in T \cup {x} : g[y] \in Int
    BY FS_Subset
  <2>2. SumFunctionOnSet(g, T \cup {x}) = g[x] + SumFunctionOnSet(g, T)
    BY <2>1, SumAdd
  <2> QED BY <2>2
<1>3. S \in P
  <2> HIDE DEF P
  <2> QED BY <1>1, <1>2, FiniteInduction
<1> QED BY <1>3

\* Elements whose value is 0 may be left out.
LEMMA SumWhere ==
    ASSUME NEW S, IsFiniteSet(S), NEW T \in SUBSET S, NEW g,
           \A x \in S : g[x] \in Int, \A x \in S \ T : g[x] = 0
    PROVE  SumFunctionOnSet(g, S) = SumFunctionOnSet(g, T)
<1>1. IsFiniteSet(T) /\ IsFiniteSet(S \ T)
  BY FS_Subset, FS_Difference
<1>2. T \cap (S \ T) = {} /\ T \cup (S \ T) = S
  OBVIOUS
<1>3. SumFunctionOnSet(g, T \cup (S \ T)) = SumFunctionOnSet(g, T) + SumFunctionOnSet(g, S \ T)
  BY <1>1, <1>2, SumDisjoint
<1>4. SumFunctionOnSet(g, T) \in Int /\ SumFunctionOnSet(g, S \ T) = 0
  BY <1>1, SumType, SumZeros
<1>5. SumFunctionOnSet(g, S) = SumFunctionOnSet(g, T) + SumFunctionOnSet(g, S \ T)
  BY <1>2, <1>3
<1> QED BY <1>4, <1>5

\* Adding up by group and then over the groups gives the sum over all the elements.
LEMMA SumByKey ==
    ASSUME NEW S, IsFiniteSet(S), NEW K, IsFiniteSet(K),
           NEW key, \A x \in S : key[x] \in K,
           NEW g, \A x \in S : g[x] \in Int,
           NEW group, \A k \in K : group[k] \subseteq S,
           \A k \in K, x \in S : x \in group[k] <=> key[x] = k,
           NEW h, \A k \in K : h[k] = SumFunctionOnSet(g, group[k])
    PROVE  SumFunctionOnSet(h, K) = SumFunctionOnSet(g, S)
<1> DEFINE At(L) == {x \in S : key[x] \in L}
           P == {L \in SUBSET K : SumFunctionOnSet(h, L) = SumFunctionOnSet(g, At(L))}
<1>0. \A k \in K : h[k] \in Int
  <2> TAKE k \in K
  <2>1. IsFiniteSet(group[k]) /\ \A x \in group[k] : g[x] \in Int
    BY FS_Subset
  <2>2. SumFunctionOnSet(g, group[k]) \in Int
    BY <2>1, SumType
  <2> QED BY <2>2
<1>1. {} \in P
  <2>1. At({}) = {}
    OBVIOUS
  <2> QED BY <2>1, SumEmpty
<1>2. \A L \in SUBSET K, k \in K : L \in P /\ k \notin L => L \cup {k} \in P
  <2> SUFFICES ASSUME NEW L \in SUBSET K, NEW k \in K, L \in P, k \notin L
               PROVE  L \cup {k} \in P
    OBVIOUS
  <2> DEFINE One == group[k]
  <2>1. IsFiniteSet(L) /\ \A l \in L \cup {k} : h[l] \in Int
    BY <1>0, FS_Subset
  <2>2. SumFunctionOnSet(h, L \cup {k}) = h[k] + SumFunctionOnSet(h, L)
    <3> HIDE DEF P, At, One
    <3> QED BY <2>1, SumAdd
  <2>3. /\ At(L) \cup One = At(L \cup {k}) /\ At(L) \cap One = {}
        /\ \A x \in At(L) \cup One : g[x] \in Int
    OBVIOUS
  <2>4. IsFiniteSet(At(L)) /\ IsFiniteSet(One)
    BY FS_Subset
  <2>5. h[k] = SumFunctionOnSet(g, One) /\ SumFunctionOnSet(h, L) = SumFunctionOnSet(g, At(L))
    OBVIOUS
  <2> HIDE DEF At, One
  <2>6. SumFunctionOnSet(g, At(L) \cup One) = SumFunctionOnSet(g, At(L)) + SumFunctionOnSet(g, One)
    BY <2>3, <2>4, SumDisjoint
  <2>7. SumFunctionOnSet(g, At(L)) \in Int /\ SumFunctionOnSet(g, One) \in Int
    BY <2>3, <2>4, SumType
  <2>8. SumFunctionOnSet(h, L \cup {k}) = SumFunctionOnSet(g, At(L) \cup One)
    BY <2>2, <2>5, <2>6, <2>7
  <2>9. SumFunctionOnSet(h, L \cup {k}) = SumFunctionOnSet(g, At(L \cup {k}))
    BY <2>3, <2>8
  <2> QED BY <2>9
<1>3. K \in P
  <2> HIDE DEF P
  <2> QED BY <1>1, <1>2, FiniteInduction
<1>4. At(K) = S
  OBVIOUS
<1> QED
  <2> HIDE DEF At
  <2> QED BY <1>3, <1>4

\* Counting twice: the days of each reservation, added up over the reservations, are the
\* reservations of each day, added up over the days.
LEMMA SumCounts ==
    ASSUME NEW N, IsFiniteSet(N), NEW D, IsFiniteSet(D), NEW B,
           NEW hits, \A d \in D : hits[d] \subseteq N,
           \A d \in D, r \in N : r \in hits[d] <=> d \in B[r],
           NEW c, \A d \in D : c[d] = Cardinality(hits[d]),
           NEW w, \A r \in N : w[r] = Cardinality(B[r]), \A r \in N : B[r] \subseteq D
    PROVE  SumFunctionOnSet(c, D) = SumFunctionOnSet(w, N)
<1> DEFINE u(E) == [r \in N |-> Cardinality(B[r] \cap E)]
           P == {E \in SUBSET D : SumFunctionOnSet(c, E) = SumFunctionOnSet(u(E), N)}
<1>0. /\ \A d \in D : IsFiniteSet(hits[d]) /\ c[d] \in Int
      /\ \A E \in SUBSET D : IsFiniteSet(E) /\ \A r \in N : IsFiniteSet(B[r] \cap E) /\ u(E)[r] \in Int
  BY FS_Subset, FS_CardinalityType, FS_Intersection
<1>1. {} \in P
  <2>1. \A r \in N : u({})[r] = 0
    <3> TAKE r \in N
    <3>1. B[r] \cap {} = {}
      OBVIOUS
    <3> QED BY <3>1, FS_EmptySet
  <2>2. SumFunctionOnSet(u({}), N) = 0
    <3> HIDE DEF u
    <3> QED BY <2>1, SumZeros
  <2> QED BY <2>2, SumEmpty
<1>2. \A E \in SUBSET D, d \in D : E \in P /\ d \notin E => E \cup {d} \in P
  <2> SUFFICES ASSUME NEW E \in SUBSET D, NEW d \in D, E \in P, d \notin E
               PROVE  E \cup {d} \in P
    OBVIOUS
  <2> DEFINE Hit == hits[d]
             one == [r \in N |-> IF d \in B[r] THEN 1 ELSE 0]
  <2>1. SumFunctionOnSet(c, E \cup {d}) = c[d] + SumFunctionOnSet(c, E)
    <3>1. \A e \in E \cup {d} : c[e] \in Int
      BY <1>0
    <3> QED BY <1>0, <3>1, SumAdd
  <2>2. SumFunctionOnSet(one, N) = SumFunctionOnSet(one, Hit)
    <3>1. /\ Hit \in SUBSET N /\ \A r \in N : one[r] \in Int
          /\ \A r \in N \ Hit : one[r] = 0
      OBVIOUS
    <3> HIDE DEF one, Hit
    <3> QED BY <3>1, SumWhere
  <2>3. SumFunctionOnSet(one, Hit) = Cardinality(Hit)
    <3>1. IsFiniteSet(Hit) /\ \A r \in Hit : one[r] = 1
      BY <1>0
    <3> HIDE DEF one, Hit
    <3> QED BY <3>1, SumOnes
  <2>4. \A r \in N : u(E \cup {d})[r] = u(E)[r] + one[r]
    <3> SUFFICES ASSUME NEW r \in N PROVE u(E \cup {d})[r] = u(E)[r] + one[r]
      OBVIOUS
    <3>1. /\ u(E \cup {d})[r] = Cardinality(B[r] \cap (E \cup {d}))
          /\ u(E)[r] = Cardinality(B[r] \cap E)
          /\ d \in B[r] => one[r] = 1
          /\ d \notin B[r] => one[r] = 0
      OBVIOUS
    <3>2. IsFiniteSet(B[r] \cap E) /\ Cardinality(B[r] \cap E) \in Int
      BY <1>0, <3>1
    <3> HIDE DEF u, one, P, Hit
    <3>3. CASE d \in B[r]
      <4>1. B[r] \cap (E \cup {d}) = (B[r] \cap E) \cup {d} /\ d \notin B[r] \cap E
        BY <3>3
      <4>2. Cardinality((B[r] \cap E) \cup {d}) = Cardinality(B[r] \cap E) + 1
        BY <3>2, <4>1, FS_AddElement
      <4> QED BY <3>1, <3>3, <4>1, <4>2
    <3>4. CASE d \notin B[r]
      <4>1. B[r] \cap (E \cup {d}) = B[r] \cap E
        BY <3>4
      <4>2. u(E \cup {d})[r] = Cardinality(B[r] \cap E)
        BY <3>1, <4>1
      <4> HIDE DEF u
      <4> QED BY <3>1, <3>2, <3>4, <4>2
    <3> QED BY <3>3, <3>4
  <2>5. SumFunctionOnSet(u(E \cup {d}), N) = SumFunctionOnSet(u(E), N) + SumFunctionOnSet(one, N)
    <3>a. \A r \in N : u(E)[r] \in Int
      <4> HIDE DEF u, P
      <4> QED BY <1>0
    <3>b. \A r \in N : one[r] \in Int
      OBVIOUS
    <3>1. \A r \in N : u(E)[r] \in Int /\ one[r] \in Int
      <4> HIDE DEF u, P, one
      <4> QED BY <3>a, <3>b
    <3>2. \A r \in N : /\ u(E)[r] \in Int /\ one[r] \in Int
                       /\ u(E \cup {d})[r] = u(E)[r] + one[r]
      BY <2>4, <3>1
    <3> DEFINE v == u(E \cup {d})
    <3> HIDE DEF u, one
    <3>3. \A r \in N : u(E)[r] \in Int /\ one[r] \in Int /\ v[r] = u(E)[r] + one[r]
      BY <3>2
    <3> HIDE DEF v
    <3>4. SumFunctionOnSet(v, N) = SumFunctionOnSet(u(E), N) + SumFunctionOnSet(one, N)
      BY <3>3, SumPlus
    <3> QED BY <3>4 DEF v
  <2>6. SumFunctionOnSet(u(E), N) \in Int
    <3>1. \A r \in N : u(E)[r] \in Int
      BY <1>0
    <3> HIDE DEF u
    <3> QED BY <3>1, SumType
  <2>7. c[d] = Cardinality(Hit) /\ c[d] \in Int /\ SumFunctionOnSet(c, E) = SumFunctionOnSet(u(E), N)
    BY <1>0
  <2>8. SumFunctionOnSet(c, E \cup {d}) = SumFunctionOnSet(u(E \cup {d}), N)
    <3> HIDE DEF u, one, Hit
    <3> QED BY <2>1, <2>2, <2>3, <2>5, <2>6, <2>7
  <2> QED BY <2>8
<1>3. D \in P
  <2> HIDE DEF P
  <2> QED BY <1>1, <1>2, FiniteInduction
<1>4. \A r \in N : u(D)[r] \in Int /\ u(D)[r] = w[r]
  <2>1. \A r \in N : B[r] \cap D = B[r]
    OBVIOUS
  <2> QED BY <1>0, <2>1
<1>5. SumFunctionOnSet(u(D), N) = SumFunctionOnSet(w, N)
  <2> HIDE DEF u
  <2> QED BY <1>4, SumSame
<1> QED BY <1>3, <1>5
====
