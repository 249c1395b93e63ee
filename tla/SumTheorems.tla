------------------------------ MODULE SumTheorems ------------------------------
(***************************************************************************)
(* Induction over the natural numbers and over finite sets, and the sums   *)
(* of Functions.tla over a finite set of indices.  An induction is stated  *)
(* for a set of numbers or of sets instead of a predicate: it follows from *)
(* the existence of minimal elements in well-founded sets.  The facts      *)
(* about queues that the proofs share come last.                           *)
(***************************************************************************)
EXTENDS Integers, FiniteSets, Sequences, Functions, FiniteSetTheorems, WellFoundedInduction, TLAPS

\* A nonempty set of natural numbers has a least element.
LEMMA LeastNumber ==
  ASSUME NEW T, T \subseteq Nat, T # {}
  PROVE  \E x \in T : \A y \in T : x <= y
<1>1. PICK x \in T : \A y \in T : ~(<<y, x>> \in OpToRel(<, Nat))
  BY NatLessThanWellFounded, WFMin, Zenon
<1>2. \A y \in T : ~(y < x)
  BY ZenonT(60), <1>1 DEF OpToRel
<1>3. x \in Nat /\ \A y \in T : y \in Nat
  OBVIOUS
<1>4. \A y \in T : x <= y
  BY <1>2, <1>3
<1> QED BY <1>4

\* A set of numbers that holds 0 and the successor of each of its members holds
\* them all.
LEMMA NumberInduction ==
  ASSUME NEW T, T \subseteq Nat, 0 \in T, \A n \in T : n + 1 \in T
  PROVE  T = Nat
<1>1. SUFFICES ASSUME Nat \ T # {} PROVE FALSE
  BY ZenonT(60)
<1>2. PICK x \in Nat \ T : \A y \in Nat \ T : x <= y
  BY ZenonT(60), <1>1, LeastNumber
<1>3. x # 0 /\ x - 1 \in T
  BY <1>2
<1> QED BY <1>2, <1>3

\* The same for finite sets: what holds of the empty set, and of a set with one
\* more element whenever it holds of the set, holds of every finite set.
LEMMA FiniteSetInduction ==
  ASSUME NEW S, IsFiniteSet(S), NEW P, {} \in P,
         \A s \in SUBSET S : \A x \in S \ s : s \in P => s \cup {x} \in P
  PROVE  S \in P
<1> DEFINE T == {n \in Nat : \A s \in SUBSET S : Cardinality(s) = n => s \in P}
<1>1. 0 \in T
  <2>1. ASSUME NEW s \in SUBSET S, Cardinality(s) = 0 PROVE s \in P
    BY <2>1, FS_Subset, FS_EmptySet
  <2> QED BY <2>1
<1>2. ASSUME NEW n \in T PROVE n + 1 \in T
  <2>1. ASSUME NEW s \in SUBSET S, Cardinality(s) = n + 1 PROVE s \in P
    <3>1. IsFiniteSet(s)
      BY FS_Subset
    <3>2. PICK x \in s : TRUE
      BY <2>1, <3>1, FS_EmptySet
    <3>3. Cardinality(s \ {x}) = Cardinality(s) - 1
      BY ZenonT(60), <3>1, <3>2, FS_RemoveElement
    <3>4. s \ {x} \in P
      <4>1. s \ {x} \in SUBSET S /\ Cardinality(s \ {x}) = n
        BY <1>2, <2>1, <3>3
      <4> QED BY <4>1, <1>2
    <3>5. (s \ {x}) \cup {x} = s
      BY <3>2
    <3> QED BY <3>4, <3>5, <3>2
  <2> QED BY <2>1, <1>2
<1>3. T = Nat
  <2> HIDE DEF T
  <2>1. T \subseteq Nat
    BY DEF T
  <2> QED BY ZenonT(60), <1>1, <1>2, <2>1, NumberInduction
<1>4. Cardinality(S) \in Nat
  BY FS_CardinalityType
<1> QED BY <1>3, <1>4

-------------------------------------------------------------------------------
(* SumFunctionOnSet takes the elements of the set one by one.              *)

Pick(s) == CHOOSE x \in s : TRUE

\* What the recursive function g of the sum is on s, in terms of g.
SumBody(f, g, s) == IF s = {} THEN 0 ELSE f[Pick(s)] + g[s \ {Pick(s)}]
SumsTo(f, S, g) == g = [s \in SUBSET S |-> SumBody(f, g, s)]

\* The definition of the sum.
LEMMA SumDef ==
  ASSUME NEW f, NEW S
  PROVE  SumFunctionOnSet(f, S) = (CHOOSE g : SumsTo(f, S, g))[S]
BY DEF SumFunctionOnSet, FoldFunctionOnSet, MapThenFoldSet, SumsTo, SumBody, Pick

\* The recursive function exists.
LEMMA SumExists ==
  ASSUME NEW f, NEW S, IsFiniteSet(S), \A x \in S : f[x] \in Nat
  PROVE  \E g \in [SUBSET S -> Nat] : SumsTo(f, S, g)
<1> DEFINE Upto(n) == {s \in SUBSET S : Cardinality(s) <= n}
<1> DEFINE T == {n \in Nat : \E g \in [Upto(n) -> Nat] : \A s \in Upto(n) : g[s] = SumBody(f, g, s)}
<1>0. ASSUME NEW s \in SUBSET S
      PROVE  /\ IsFiniteSet(s) /\ Cardinality(s) \in Nat /\ Cardinality(s) <= Cardinality(S)
             /\ Cardinality(s) = 0 <=> s = {}
             /\ s # {} => Pick(s) \in s /\ s \ {Pick(s)} \in SUBSET S /\ Cardinality(s \ {Pick(s)}) = Cardinality(s) - 1
  <2>1. IsFiniteSet(s) /\ Cardinality(s) <= Cardinality(S)
    BY FS_Subset
  <2>2. Cardinality(s) \in Nat
    BY <2>1, FS_CardinalityType
  <2>3. Cardinality(s) = 0 <=> s = {}
    BY <2>1, FS_EmptySet
  <2>4. s # {} => Pick(s) \in s
    BY DEF Pick
  <2>5. s # {} => Cardinality(s \ {Pick(s)}) = Cardinality(s) - 1
    BY ZenonT(60), <2>1, <2>4, FS_RemoveElement
  <2> QED BY <2>1, <2>2, <2>3, <2>4, <2>5
<1>1. 0 \in T
  <2> DEFINE g == [s \in Upto(0) |-> 0]
  <2>1. ASSUME NEW s \in Upto(0) PROVE s = {}
    <3>1. s \in SUBSET S /\ Cardinality(s) <= 0
      OBVIOUS
    <3>2. Cardinality(s) \in Nat /\ (Cardinality(s) = 0 <=> s = {})
      BY ZenonT(60), <3>1, <1>0
    <3> QED BY <3>1, <3>2
  <2>2. g \in [Upto(0) -> Nat] /\ \A s \in Upto(0) : g[s] = SumBody(f, g, s)
    BY <2>1 DEF SumBody
  <2> QED BY ZenonT(60), <2>2
<1>2. ASSUME NEW n \in T PROVE n + 1 \in T
  <2>1. PICK g \in [Upto(n) -> Nat] : \A s \in Upto(n) : g[s] = SumBody(f, g, s)
    BY ZenonT(60), <1>2
  <2> DEFINE h == [s \in Upto(n + 1) |-> SumBody(f, g, s)]
  <2>2. ASSUME NEW s \in Upto(n + 1) PROVE s = {} \/ (Pick(s) \in S /\ s \ {Pick(s)} \in Upto(n))
    BY <1>0
  <2>3. ASSUME NEW s \in Upto(n) PROVE s \in Upto(n + 1) /\ h[s] = g[s]
    <3>1. s \in SUBSET S /\ n \in Nat /\ Cardinality(s) <= n
      BY <1>2
    <3>2. Cardinality(s) \in Nat
      BY ZenonT(60), <3>1, <1>0
    <3>3. Cardinality(s) <= n + 1
      BY <3>1, <3>2
    <3> QED BY <3>1, <3>3, <2>1
  <2>4. h \in [Upto(n + 1) -> Nat]
    BY <2>2, <2>1 DEF SumBody
  <2>5. ASSUME NEW s \in Upto(n + 1) PROVE h[s] = SumBody(f, h, s)
    BY ZenonT(60), <2>2, <2>3 DEF SumBody
  <2>6. n + 1 \in Nat
    BY <1>2
  <2> HIDE DEF h, Upto
  <2> QED BY <2>4, <2>5, <2>6
<1>3. T = Nat
  <2> HIDE DEF T
  <2>1. T \subseteq Nat
    BY DEF T
  <2> QED BY ZenonT(60), <1>1, <1>2, <2>1, NumberInduction
<1>4. Cardinality(S) \in T /\ Upto(Cardinality(S)) = SUBSET S
  BY ZenonT(60), <1>3, <1>0, FS_CardinalityType
<1>5. PICK g \in [SUBSET S -> Nat] : \A s \in SUBSET S : g[s] = SumBody(f, g, s)
  BY ZenonT(60), <1>4
<1>6. SumsTo(f, S, g)
  BY <1>5 DEF SumsTo
<1> QED BY <1>6

Takes(f, g, s, x) == g[s] = f[x] + g[s \ {x}]

\* Whatever order the recursive function takes the elements in, each of them counts.
LEMMA SumTakesAny ==
  ASSUME NEW f, NEW S, IsFiniteSet(S), NEW g, g \in [SUBSET S -> Nat], SumsTo(f, S, g), \A x \in S : f[x] \in Nat,
         NEW r \in SUBSET S, NEW y \in r
  PROVE  Takes(f, g, r, y)
<1> DEFINE P == {s \in SUBSET S : \A x \in s : g[s] = f[x] + g[s \ {x}]}
<1> DEFINE T == {n \in Nat : \A s \in SUBSET S : Cardinality(s) = n => s \in P}
<1>0. ASSUME NEW s \in SUBSET S
      PROVE  /\ IsFiniteSet(s) /\ Cardinality(s) \in Nat
             /\ Cardinality(s) = 0 <=> s = {}
             /\ \A x \in s : s \ {x} \in SUBSET S /\ Cardinality(s \ {x}) = Cardinality(s) - 1
  <2>1. IsFiniteSet(s)
    BY FS_Subset
  <2>2. Cardinality(s) \in Nat
    BY <2>1, FS_CardinalityType
  <2>3. Cardinality(s) = 0 <=> s = {}
    BY <2>1, FS_EmptySet
  <2>4. \A x \in s : Cardinality(s \ {x}) = Cardinality(s) - 1
    BY ZenonT(60), <2>1, FS_RemoveElement
  <2> QED BY <2>1, <2>2, <2>3, <2>4
<1>1. 0 \in T
  BY <1>0
<1>2. ASSUME NEW n \in T PROVE n + 1 \in T
  <2>0. n \in Nat /\ n + 1 \in Nat
    BY <1>2
  <2>1. ASSUME NEW s \in SUBSET S, Cardinality(s) = n + 1, NEW x \in s PROVE g[s] = f[x] + g[s \ {x}]
    <3> DEFINE p == Pick(s)
    <3>1. p \in s /\ g[s] = f[p] + g[s \ {p}]
      BY <2>1 DEF Pick, SumsTo, SumBody
    <3>2. CASE p = x
      BY <3>1, <3>2
    <3>3. CASE p # x
      <4>1. s \ {p} \in SUBSET S /\ s \ {x} \in SUBSET S /\ x \in s \ {p} /\ p \in s \ {x}
        BY <3>1, <3>3
      <4>2. Cardinality(s \ {p}) = n /\ Cardinality(s \ {x}) = n
        BY <2>0, <2>1, <3>1, <1>0
      <4>3. s \ {p} \in P /\ s \ {x} \in P
        BY ZenonT(60), <4>1, <4>2, <1>2
      <4>4. g[s \ {p}] = f[x] + g[(s \ {p}) \ {x}] /\ g[s \ {x}] = f[p] + g[(s \ {x}) \ {p}]
        BY ZenonT(60), <4>1, <4>3
      <4>5. (s \ {p}) \ {x} = (s \ {x}) \ {p} /\ (s \ {p}) \ {x} \in SUBSET S
        OBVIOUS
      <4>6. f[x] \in Nat /\ f[p] \in Nat /\ g[(s \ {p}) \ {x}] \in Nat
        BY <3>1, <4>5
      <4>7. f[p] + (f[x] + g[(s \ {p}) \ {x}]) = f[x] + (f[p] + g[(s \ {p}) \ {x}])
        <5> HIDE DEF p
        <5> QED BY <4>6
      <4> QED BY ZenonT(60), <3>1, <4>4, <4>5, <4>7
    <3> QED BY <3>2, <3>3
  <2> QED BY <2>0, <2>1
<1>3. T = Nat
  <2> HIDE DEF T
  <2>1. T \subseteq Nat
    BY DEF T
  <2> QED BY ZenonT(60), <1>1, <1>2, <2>1, NumberInduction
<1>4. ASSUME NEW s \in SUBSET S PROVE s \in P
  BY <1>3, <1>0
<1>5. r \in P
  BY <1>4
<1> QED BY <1>5 DEF Takes

\* The sum over a subset does not depend on the set the recursive function is
\* defined for, nor on the values of the summands elsewhere.
LEMMA SumUnique ==
  ASSUME NEW f, NEW S, IsFiniteSet(S), NEW g, SumsTo(f, S, g),
         NEW e, NEW T, NEW h, SumsTo(e, T, h),
         S \subseteq T, \A x \in S : e[x] = f[x]
  PROVE  g[S] = h[S]
<1> DEFINE N == {n \in Nat : \A s \in SUBSET S : Cardinality(s) = n => g[s] = h[s]}
<1>0. ASSUME NEW s \in SUBSET S
      PROVE  /\ Cardinality(s) \in Nat
             /\ s = {} => g[s] = 0 /\ h[s] = 0
             /\ s # {} => /\ Pick(s) \in s
                          /\ Cardinality(s) # 0 /\ Cardinality(s \ {Pick(s)}) = Cardinality(s) - 1
                          /\ g[s] = f[Pick(s)] + g[s \ {Pick(s)}] /\ h[s] = f[Pick(s)] + h[s \ {Pick(s)}]
  <2>1. IsFiniteSet(s)
    BY FS_Subset
  <2>2. Cardinality(s) \in Nat /\ (Cardinality(s) = 0 <=> s = {})
    BY <2>1, FS_CardinalityType, FS_EmptySet
  <2>3. s # {} => Pick(s) \in s
    BY DEF Pick
  <2>4. s # {} => Cardinality(s \ {Pick(s)}) = Cardinality(s) - 1
    BY ZenonT(60), <2>1, <2>3, FS_RemoveElement
  <2>5. g[s] = SumBody(f, g, s) /\ h[s] = SumBody(e, h, s)
    BY DEF SumsTo
  <2> QED BY <2>2, <2>3, <2>4, <2>5 DEF SumBody
<1>1. 0 \in N
  BY ZenonT(60), <1>0
<1>2. ASSUME NEW n \in N PROVE n + 1 \in N
  <2>0. n \in Nat
    BY <1>2
  <2>1. ASSUME NEW s \in SUBSET S, Cardinality(s) = n + 1 PROVE g[s] = h[s]
    <3>1. s # {}
      BY <2>0, <2>1, FS_EmptySet
    <3>2. s \ {Pick(s)} \in SUBSET S /\ Cardinality(s \ {Pick(s)}) = n
      BY <2>0, <2>1, <3>1, <1>0
    <3>3. g[s \ {Pick(s)}] = h[s \ {Pick(s)}]
      BY <3>2, <1>2
    <3> QED BY ZenonT(60), <3>1, <3>3, <1>0
  <2> QED BY <2>0, <2>1
<1>3. N = Nat
  <2> HIDE DEF N
  <2>1. N \subseteq Nat
    BY DEF N
  <2> QED BY ZenonT(60), <1>1, <1>2, <2>1, NumberInduction
<1> QED BY ZenonT(60), <1>3, <1>0

\* The sum is the value of a function that sums up.
LEMMA SumIs ==
  ASSUME NEW f, NEW S, IsFiniteSet(S), \A x \in S : f[x] \in Nat
  PROVE  \E g \in [SUBSET S -> Nat] : SumsTo(f, S, g) /\ SumFunctionOnSet(f, S) = g[S]
<1> DEFINE c == CHOOSE g : SumsTo(f, S, g)
<1>1. PICK g \in [SUBSET S -> Nat] : SumsTo(f, S, g)
  BY ZenonT(60), SumExists
<1>2. SumsTo(f, S, c)
  BY <1>1
<1>3. c[S] = g[S]
  <2> HIDE DEF c
  <2> QED BY <1>1, <1>2, SumUnique
<1>4. SumFunctionOnSet(f, S) = c[S]
  BY SumDef
<1> QED BY ZenonT(60), <1>1, <1>3, <1>4

\* A sum of natural numbers is one; the sum over no index is 0.
LEMMA SumType ==
  ASSUME NEW f, NEW S, IsFiniteSet(S), \A x \in S : f[x] \in Nat
  PROVE  SumFunctionOnSet(f, S) \in Nat
<1>1. PICK g \in [SUBSET S -> Nat] : SumFunctionOnSet(f, S) = g[S]
  BY ZenonT(60), SumIs
<1> QED BY <1>1

LEMMA SumEmpty ==
  ASSUME NEW f
  PROVE  SumFunctionOnSet(f, {}) = 0
<1>1. IsFiniteSet({}) /\ \A x \in {} : f[x] \in Nat
  BY FS_EmptySet
<1>2. PICK g \in [SUBSET {} -> Nat] : SumsTo(f, {}, g) /\ SumFunctionOnSet(f, {}) = g[{}]
  BY ZenonT(60), <1>1, SumIs
<1>3. g[{}] = 0
  BY <1>2 DEF SumsTo, SumBody
<1> QED BY <1>2, <1>3

\* Sums over the same values are the same.
LEMMA SumSame ==
  ASSUME NEW f, NEW e, NEW S, IsFiniteSet(S), \A x \in S : f[x] \in Nat /\ e[x] = f[x]
  PROVE  SumFunctionOnSet(e, S) = SumFunctionOnSet(f, S)
<1>1. PICK g \in [SUBSET S -> Nat] : SumsTo(f, S, g) /\ SumFunctionOnSet(f, S) = g[S]
  BY ZenonT(60), SumIs
<1>2. \A x \in S : e[x] \in Nat
  OBVIOUS
<1>3. PICK h \in [SUBSET S -> Nat] : SumsTo(e, S, h) /\ SumFunctionOnSet(e, S) = h[S]
  BY ZenonT(60), <1>2, SumIs
<1>4. g[S] = h[S]
  BY <1>1, <1>3, SumUnique
<1> QED BY <1>1, <1>3, <1>4

\* Taking an index away takes its value away.
LEMMA SumRemove ==
  ASSUME NEW f, NEW S, IsFiniteSet(S), \A x \in S : f[x] \in Nat, NEW x \in S
  PROVE  SumFunctionOnSet(f, S) = f[x] + SumFunctionOnSet(f, S \ {x})
<1> DEFINE R == S \ {x}
<1>1. IsFiniteSet(R) /\ R \subseteq S /\ S \in SUBSET S /\ \A y \in R : f[y] \in Nat
  BY FS_RemoveElement
<1>2. PICK h : h \in [SUBSET S -> Nat] /\ SumsTo(f, S, h) /\ SumFunctionOnSet(f, S) = h[S]
  BY ZenonT(60), SumIs
<1>3. h[S] = f[x] + h[R]
  <2>1. Takes(f, h, S, x)
    BY ZenonT(60), <1>1, <1>2, SumTakesAny
  <2> QED BY <2>1 DEF Takes
<1> HIDE DEF R
<1>4. PICK g : g \in [SUBSET R -> Nat] /\ SumsTo(f, R, g) /\ SumFunctionOnSet(f, R) = g[R]
  BY ZenonT(60), <1>1, SumIs
<1>5. g[R] = h[R]
  BY <1>1, <1>2, <1>4, SumUnique
<1>6. SumFunctionOnSet(f, S) = f[x] + SumFunctionOnSet(f, R)
  BY <1>2, <1>3, <1>4, <1>5
<1> QED BY <1>6 DEF R

\* One more index adds its value.
LEMMA SumAdd ==
  ASSUME NEW f, NEW S, IsFiniteSet(S), NEW x, x \notin S, f[x] \in Nat, \A y \in S : f[y] \in Nat
  PROVE  SumFunctionOnSet(f, S \cup {x}) = f[x] + SumFunctionOnSet(f, S)
<1> DEFINE U == S \cup {x}
<1>1. IsFiniteSet(U) /\ x \in U /\ U \ {x} = S /\ \A y \in U : f[y] \in Nat
  BY FS_AddElement
<1> HIDE DEF U
<1>2. SumFunctionOnSet(f, U) = f[x] + SumFunctionOnSet(f, U \ {x})
  BY <1>1, SumRemove
<1> QED BY <1>1, <1>2 DEF U

\* The sum over two sets of indices that have none in common.
LEMMA SumUnion ==
  ASSUME NEW f, NEW S, IsFiniteSet(S), NEW T, IsFiniteSet(T), S \cap T = {},
         \A x \in S \cup T : f[x] \in Nat
  PROVE  SumFunctionOnSet(f, S \cup T) = SumFunctionOnSet(f, S) + SumFunctionOnSet(f, T)
<1> DEFINE P == {t \in SUBSET T : SumFunctionOnSet(f, S \cup t) = SumFunctionOnSet(f, S) + SumFunctionOnSet(f, t)}
<1>0. SumFunctionOnSet(f, S) \in Nat
  BY SumType
<1>1. {} \in P
  <2>1. S \cup {} = S /\ {} \in SUBSET T
    OBVIOUS
  <2> QED BY <1>0, <2>1, SumEmpty
<1>2. ASSUME NEW t \in SUBSET T, NEW x \in T \ t, t \in P PROVE t \cup {x} \in P
  <2>1. IsFiniteSet(t) /\ IsFiniteSet(S \cup t)
    BY ZenonT(60), FS_Subset, FS_Union
  <2>2. SumFunctionOnSet(f, t \cup {x}) = f[x] + SumFunctionOnSet(f, t)
    BY <1>2, <2>1, SumAdd
  <2>3. SumFunctionOnSet(f, (S \cup t) \cup {x}) = f[x] + SumFunctionOnSet(f, S \cup t)
    <3>1. x \notin S \cup t /\ f[x] \in Nat /\ \A y \in S \cup t : f[y] \in Nat
      BY <1>2
    <3> QED BY <2>1, <3>1, SumAdd
  <2>4. SumFunctionOnSet(f, S \cup t) = SumFunctionOnSet(f, S) + SumFunctionOnSet(f, t)
    BY <1>2
  <2>5. SumFunctionOnSet(f, t) \in Nat /\ f[x] \in Nat
    BY <1>2, <2>1, SumType
  <2>6. (S \cup t) \cup {x} = S \cup (t \cup {x}) /\ t \cup {x} \in SUBSET T
    BY <1>2
  <2>7. f[x] + (SumFunctionOnSet(f, S) + SumFunctionOnSet(f, t)) = SumFunctionOnSet(f, S) + (f[x] + SumFunctionOnSet(f, t))
    BY <1>0, <2>5
  <2> QED BY <2>2, <2>3, <2>4, <2>6, <2>7
<1>3. T \in P
  <2> HIDE DEF P
  <2> QED BY ZenonT(60), <1>1, <1>2, FiniteSetInduction
<1> QED BY <1>3

\* b renames the indices S of f to the indices T of e.
Renames(f, S, e, T, b) ==
  /\ b \in [S -> T]
  /\ \A x \in S : f[x] \in Nat /\ e[b[x]] = f[x]
  /\ \A x, y \in S : b[x] = b[y] => x = y
  /\ \A z \in T : \E x \in S : b[x] = z

\* Renaming the indices keeps the sum.
LEMMA SumRenamed ==
  ASSUME NEW f, NEW S, IsFiniteSet(S), NEW e, NEW T, NEW b, Renames(f, S, e, T, b)
  PROVE  SumFunctionOnSet(e, T) = SumFunctionOnSet(f, S)
<1>0. /\ b \in [S -> T]
      /\ \A x \in S : f[x] \in Nat /\ e[b[x]] = f[x]
      /\ \A x, y \in S : b[x] = b[y] => x = y
      /\ \A z \in T : \E x \in S : b[x] = z
  BY DEF Renames
<1> DEFINE Image(s) == {b[x] : x \in s}
<1> DEFINE P == {s \in SUBSET S : IsFiniteSet(Image(s)) /\ SumFunctionOnSet(e, Image(s)) = SumFunctionOnSet(f, s)}
<1>1. {} \in P
  <2>1. Image({}) = {} /\ {} \in SUBSET S
    OBVIOUS
  <2> QED BY <2>1, SumEmpty, FS_EmptySet
<1>2. ASSUME NEW s \in SUBSET S, NEW x \in S \ s, s \in P PROVE s \cup {x} \in P
  <2>1. Image(s \cup {x}) = Image(s) \cup {b[x]} /\ b[x] \notin Image(s) /\ s \cup {x} \in SUBSET S
    BY <1>0, <1>2
  <2>2. IsFiniteSet(s) /\ IsFiniteSet(Image(s)) /\ SumFunctionOnSet(e, Image(s)) = SumFunctionOnSet(f, s)
    BY <1>2, FS_Subset
  <2>3. SumFunctionOnSet(f, s \cup {x}) = f[x] + SumFunctionOnSet(f, s)
    BY <1>0, <1>2, <2>2, SumAdd
  <2>4. e[b[x]] = f[x] /\ f[x] \in Nat /\ \A z \in Image(s) : e[z] \in Nat
    BY <1>0, <1>2
  <2> HIDE DEF Image
  <2>5. SumFunctionOnSet(e, Image(s) \cup {b[x]}) = e[b[x]] + SumFunctionOnSet(e, Image(s))
    BY <2>1, <2>2, <2>4, SumAdd
  <2>6. IsFiniteSet(Image(s) \cup {b[x]})
    BY Zenon, <2>2, FS_AddElement
  <2> QED BY ZenonT(60), <2>1, <2>2, <2>3, <2>4, <2>5, <2>6
<1>3. S \in P
  <2> HIDE DEF P
  <2> QED BY ZenonT(60), <1>1, <1>2, FiniteSetInduction
<1>4. Image(S) = T
  BY <1>0
<1> QED BY <1>3, <1>4

\* A summand is at most the sum.
LEMMA SumAtLeast ==
  ASSUME NEW f, NEW S, IsFiniteSet(S), \A x \in S : f[x] \in Nat, NEW x \in S
  PROVE  f[x] <= SumFunctionOnSet(f, S)
<1>1. SumFunctionOnSet(f, S) = f[x] + SumFunctionOnSet(f, S \ {x})
  BY SumRemove
<1>2. SumFunctionOnSet(f, S \ {x}) \in Nat
  <2> DEFINE R == S \ {x}
  <2>1. IsFiniteSet(R) /\ \A y \in R : f[y] \in Nat
    BY FS_RemoveElement
  <2> HIDE DEF R
  <2>2. SumFunctionOnSet(f, R) \in Nat
    BY <2>1, SumType
  <2> QED BY <2>2 DEF R
<1> QED BY <1>1, <1>2

-------------------------------------------------------------------------------
(* Sums over the places of a queue.                                        *)

\* The places of a queue are finitely many.
LEMMA PlacesFinite ==
  ASSUME NEW n \in Nat
  PROVE  IsFiniteSet(1..n)
BY FS_Interval

\* The sum over a queue.
LEMMA SumQueueType ==
  ASSUME NEW n \in Nat, NEW f \in [1..n -> Nat]
  PROVE  SumFunction(f) \in Nat /\ \A i \in 1..n : f[i] <= SumFunction(f)
<1>1. IsFiniteSet(1..n) /\ \A i \in 1..n : f[i] \in Nat
  BY PlacesFinite
<1>2. SumFunctionOnSet(f, 1..n) \in Nat
  BY <1>1, SumType
<1>3. \A i \in 1..n : f[i] <= SumFunctionOnSet(f, 1..n)
  BY <1>1, SumAtLeast
<1> QED BY <1>2, <1>3 DEF SumFunction

\* One more message at the end adds its value.
LEMMA SumAppended ==
  ASSUME NEW n \in Nat, NEW f \in [1..n -> Nat], NEW g \in [1..(n + 1) -> Nat],
         \A i \in 1..n : g[i] = f[i]
  PROVE  SumFunction(g) = SumFunction(f) + g[n + 1]
<1> DEFINE S == 1..n
           k == n + 1
<1>1. 1..(n + 1) = S \cup {k} /\ k \notin S /\ g[k] \in Nat
  OBVIOUS
<1>2. IsFiniteSet(S) /\ \A i \in S : f[i] \in Nat /\ g[i] \in Nat /\ g[i] = f[i]
  BY PlacesFinite
<1> HIDE DEF S, k
<1>3. SumFunctionOnSet(g, S \cup {k}) = g[k] + SumFunctionOnSet(g, S)
  BY ZenonT(60), <1>1, <1>2, SumAdd
<1>4. SumFunctionOnSet(g, S) = SumFunctionOnSet(f, S) /\ SumFunctionOnSet(f, S) \in Nat
  BY <1>2, SumSame, SumType
<1>5. DOMAIN f = S /\ DOMAIN g = S \cup {k}
  BY <1>1 DEF S
<1> QED BY <1>1, <1>3, <1>4, <1>5 DEF SumFunction, k

\* Taking the message at place k out, which moves up those behind it, takes its
\* value out.
LEMMA SumDropped ==
  ASSUME NEW n \in Nat, NEW f \in [1..(n + 1) -> Nat], NEW k \in 1..(n + 1),
         NEW g \in [1..n -> Nat], \A i \in 1..n : g[i] = IF i < k THEN f[i] ELSE f[i + 1]
  PROVE  SumFunction(f) = f[k] + SumFunction(g)
<1> DEFINE S == 1..(n + 1)
           T == S \ {k}
           P == 1..n
           b == [i \in P |-> IF i < k THEN i ELSE i + 1]
<1>1. IsFiniteSet(S) /\ IsFiniteSet(P)
  BY PlacesFinite
<1>2. b \in [P -> T] /\ \A i \in P : g[i] \in Nat /\ f[b[i]] = g[i]
  OBVIOUS
<1>3. \A i, j \in P : b[i] = b[j] => i = j
  OBVIOUS
<1>4. ASSUME NEW z \in T PROVE \E i \in P : b[i] = z
  <2>1. CASE z < k
    BY <2>1
  <2>2. CASE z > k
    <3>1. z - 1 \in P /\ b[z - 1] = z
      BY <2>2
    <3> QED BY ZenonT(60), <3>1
  <2> QED BY <2>1, <2>2
<1>5. \A i \in S : f[i] \in Nat
  OBVIOUS
<1>6. DOMAIN f = S /\ DOMAIN g = P /\ k \in S
  OBVIOUS
<1> HIDE DEF S, P, b
<1>7. SumFunctionOnSet(f, S) = f[k] + SumFunctionOnSet(f, S \ {k})
  BY <1>1, <1>5, <1>6, SumRemove
<1>8. SumFunctionOnSet(f, T) = SumFunctionOnSet(g, P)
  <2> HIDE DEF T
  <2>1. Renames(g, P, f, T, b)
    BY ZenonT(60), <1>2, <1>3, <1>4 DEF Renames
  <2> QED BY <1>1, <2>1, SumRenamed
<1> QED BY <1>6, <1>7, <1>8 DEF SumFunction

-------------------------------------------------------------------------------
(* Queues.  The facts about sequences that the proofs need are stated here, *)
(* so that they do not carry a library of others in their context.          *)

\* A sequence other than the empty one has a positive length.
LEMMA EmptySeq ==
  ASSUME NEW S
  PROVE  <<>> \in Seq(S) /\ Len(<<>>) = 0 /\ \A s \in Seq(S) : s # <<>> => Len(s) \in Nat \ {0}
OBVIOUS

\* A sequence is a function on the numbers up to its length.
LEMMA LenProperties ==
  ASSUME NEW S, NEW s \in Seq(S)
  PROVE  Len(s) \in Nat /\ s \in [1..Len(s) -> S] /\ DOMAIN s = 1..Len(s)
OBVIOUS

\* The head leaves a queue and the others move up by one.
LEMMA HeadTailProperties ==
  ASSUME NEW S, NEW s \in Seq(S), s # <<>>
  PROVE  /\ Head(s) \in S /\ Tail(s) \in Seq(S)
         /\ Len(Tail(s)) = Len(s) - 1
         /\ \A i \in 1..Len(Tail(s)) : Tail(s)[i] = s[i + 1]
OBVIOUS

\* A new element comes last.
LEMMA AppendProperties ==
  ASSUME NEW S, NEW s \in Seq(S), NEW e \in S
  PROVE  /\ Append(s, e) \in Seq(S) /\ Append(s, e) # <<>>
         /\ Len(Append(s, e)) = Len(s) + 1
         /\ \A i \in 1..Len(s) : Append(s, e)[i] = s[i]
         /\ Append(s, e)[Len(s) + 1] = e
OBVIOUS

\* A part of a sequence.
LEMMA SubSeqProperties ==
  ASSUME NEW S, NEW s \in Seq(S), NEW m \in 1..(Len(s) + 1), NEW n \in 0..Len(s), m <= n + 1
  PROVE  /\ SubSeq(s, m, n) \in Seq(S)
         /\ Len(SubSeq(s, m, n)) = n - m + 1
         /\ \A i \in 1..(n - m + 1) : SubSeq(s, m, n)[i] = s[m + i - 1]
OBVIOUS

\* One sequence after another.
LEMMA ConcatProperties ==
  ASSUME NEW S, NEW s \in Seq(S), NEW t \in Seq(S)
  PROVE  /\ s \o t \in Seq(S)
         /\ Len(s \o t) = Len(s) + Len(t)
         /\ \A i \in 1..(Len(s) + Len(t)) : (s \o t)[i] = IF i <= Len(s) THEN s[i] ELSE t[i - Len(s)]
OBVIOUS

\* An element leaves a queue: a message that is lost (ImportExport) or a call that
\* gives up waiting (Calls).  Those behind it move up.
LEMMA WithoutProperties ==
  ASSUME NEW S, NEW s \in Seq(S), NEW k \in 1..Len(s)
  PROVE  \A r : r = SubSeq(s, 1, k - 1) \o SubSeq(s, k + 1, Len(s)) =>
           /\ r \in Seq(S) /\ Len(r) = Len(s) - 1
           /\ \A j \in 1..(Len(s) - 1) : r[j] = IF j < k THEN s[j] ELSE s[j + 1]
<1> DEFINE a == SubSeq(s, 1, k - 1)
           b == SubSeq(s, k + 1, Len(s))
<1>0. Len(s) \in Nat /\ s \in [1..Len(s) -> S]
  BY LenProperties
<1>1. a \in Seq(S) /\ Len(a) = k - 1 /\ \A j \in 1..(k - 1) : a[j] = s[j]
  BY <1>0, SubSeqProperties
<1>2. b \in Seq(S) /\ Len(b) = Len(s) - k /\ \A j \in 1..(Len(s) - k) : b[j] = s[k + j]
  <2>1. k + 1 \in Int /\ Len(s) \in Int /\ \A i \in (k + 1)..Len(s) : s[i] \in S
    BY <1>0
  <2>2. /\ SubSeq(s, k + 1, Len(s)) \in Seq(S)
        /\ Len(SubSeq(s, k + 1, Len(s))) = IF k + 1 <= Len(s) THEN Len(s) - (k + 1) + 1 ELSE 0
        /\ \A i \in 1..(Len(s) - (k + 1) + 1) : SubSeq(s, k + 1, Len(s))[i] = s[k + 1 + i - 1]
    BY <2>1, SubSeqProperties
  <2>3. /\ Len(s) - (k + 1) + 1 = Len(s) - k
        /\ (IF k + 1 <= Len(s) THEN Len(s) - (k + 1) + 1 ELSE 0) = Len(s) - k
        /\ \A i \in 1..(Len(s) - k) : k + 1 + i - 1 = k + i
    <3>1. \A n \in Nat : \A m \in 1..n :
             /\ n - (m + 1) + 1 = n - m
             /\ (IF m + 1 <= n THEN n - (m + 1) + 1 ELSE 0) = n - m
             /\ \A i \in 1..(n - m) : m + 1 + i - 1 = m + i
      BY SMTT(60)
    <3> QED BY ZenonT(60), <1>0, <3>1
  <2>4. \A i \in 1..(Len(s) - k) : SubSeq(s, k + 1, Len(s))[i] = s[k + i]
    BY ZenonT(60), <2>2, <2>3
  <2> QED BY ZenonT(60), <2>2, <2>3, <2>4
<1> SUFFICES /\ a \o b \in Seq(S) /\ Len(a \o b) = Len(s) - 1
             /\ \A j \in 1..(Len(s) - 1) : (a \o b)[j] = IF j < k THEN s[j] ELSE s[j + 1]
  BY ZenonT(60)
<1> HIDE DEF a, b
<1>3. /\ a \o b \in Seq(S) /\ Len(a \o b) = Len(a) + Len(b)
      /\ \A j \in 1..(Len(a) + Len(b)) : (a \o b)[j] = IF j <= Len(a) THEN a[j] ELSE b[j - Len(a)]
  BY ZenonT(60), <1>1, <1>2, ConcatProperties
<1>4. Len(a) + Len(b) = Len(s) - 1
  BY <1>0, <1>1, <1>2
<1>5. ASSUME NEW j \in 1..(Len(s) - 1)
      PROVE  (a \o b)[j] = IF j < k THEN s[j] ELSE s[j + 1]
  <2>1. CASE j < k
    BY <1>0, <1>1, <1>3, <1>4, <2>1
  <2>2. CASE ~(j < k)
    <3>1. j - Len(a) \in 1..(Len(s) - k) /\ ~(j <= Len(a)) /\ k + (j - Len(a)) = j + 1
      BY <1>0, <1>1, <2>2
    <3>2. (a \o b)[j] = b[j - Len(a)]
      BY <1>3, <1>4, <3>1
    <3> QED BY ZenonT(60), <1>2, <2>2, <3>1, <3>2
  <2> QED BY ZenonT(60), <2>1, <2>2
<1> QED BY Zenon, <1>3, <1>4, <1>5
================================================================================
