----------------------------- MODULE FiniteSums -----------------------------
(***************************************************************************)
(* Sums of a function over a finite set: the facts about MapThenSumSet     *)
(* that the proofs about budgets and balances need.  The library's         *)
(* induction theorems take an operator as a parameter; these proofs argue  *)
(* about a minimal counterexample instead (MinimalSubset).                 *)
(***************************************************************************)
EXTENDS Integers, Sequences, FiniteSetsExt, WellFoundedInduction, TLAPS

\* The backends, in turn, of each leaf below that names none of its own.
USE ZenonT(20), SMTT(20), Z3T(20)

SumOver(f, S) == MapThenSumSet(LAMBDA x : f[x], S)

Pick(s) == CHOOSE x \in s : TRUE

\* g gives the sum of f over every subset of S, as MapThenSumSet computes it.
IsSum(g, f, S) ==
    g = [s \in SUBSET S |-> IF s = {} THEN 0 ELSE f[Pick(s)] + g[s \ {Pick(s)}]]

\* The sequence lists the set, possibly with repetitions.
Lists(seq, S) == seq \in Seq(S) /\ \A s \in S : \E n \in 1 .. Len(seq) : seq[n] = s

\* The empty set is finite.
LEMMA FiniteEmpty == IsFiniteSet({})
  <1>1. <<>> \in Seq({}) /\ \A s \in {} : \E n \in 1 .. Len(<<>>) : <<>>[n] = s
    BY SMTT(20), Z3T(20)
  <1> QED BY <1>1 DEF IsFiniteSet

\* A strict subset of a listed set has a shorter list.
LEMMA ListStrictSubset ==
    ASSUME NEW S, NEW seq, Lists(seq, S), NEW U \in SUBSET S, U # S
    PROVE  \E l : Lists(l, U) /\ Len(l) < Len(seq)
  <1>1. PICK s \in S : s \notin U
    OBVIOUS
  <1>2. PICK j \in 1 .. Len(seq) : seq[j] = s
    BY DEF Lists
  <1>3. Len(seq) \in Nat /\ Len(seq) > 0
    BY <1>2, SMTT(20), Z3T(20) DEF Lists
  <1>4. CASE U = {}
    <2>1. Lists(<<>>, U) /\ Len(<<>>) = 0
      BY <1>4, SMTT(20), Z3T(20) DEF Lists
    <2> QED BY <1>3, <2>1
  <1>5. CASE U # {}
    <2>1. PICK u \in U : TRUE
      BY <1>5
    <2> DEFINE old(n) == IF n < j THEN seq[n] ELSE seq[n + 1]
               l == [n \in 1 .. Len(seq) - 1 |-> IF old(n) \in U THEN old(n) ELSE u]
    <2>2. l \in Seq(U) /\ Len(l) = Len(seq) - 1
      BY <1>3, SMTT(20), Z3T(20)
    <2>3. ASSUME NEW v \in U PROVE \E n \in 1 .. Len(l) : l[n] = v
      <3>1. PICK n \in 1 .. Len(seq) : seq[n] = v
        BY DEF Lists
      <3>2. n # j
        BY <1>1, <1>2, <3>1
      <3>3. CASE n < j
        <4>1. n \in 1 .. Len(seq) - 1 /\ old(n) = v
          BY <1>2, <1>3, <3>1, <3>3, SMTT(20), Z3T(20)
        <4> QED BY <2>2, <4>1
      <3>4. CASE n > j
        <4>1. n - 1 \in 1 .. Len(seq) - 1 /\ old(n - 1) = v
          BY <1>2, <1>3, <3>1, <3>4, SMTT(20), Z3T(20)
        <4> QED BY <2>2, <4>1
      <3>5. n < j \/ n > j
        BY <1>3, <3>2, SMTT(20), Z3T(20)
      <3> QED BY <3>3, <3>4, <3>5
    <2> HIDE DEF l
    <2>4. Lists(l, U)
      BY <2>2, <2>3 DEF Lists
    <2>5. Len(l) < Len(seq)
      BY <1>3, <2>2, SMTT(20), Z3T(20)
    <2> QED BY <2>4, <2>5
  <1> QED BY <1>4, <1>5

\* Subsets of a finite set are finite.
LEMMA FiniteSubset ==
    ASSUME NEW S, IsFiniteSet(S), NEW U \in SUBSET S
    PROVE  IsFiniteSet(U)
  <1>1. PICK seq : Lists(seq, S)
    BY DEF IsFiniteSet, Lists
  <1>2. PICK l : Lists(l, U)
    BY <1>1, ListStrictSubset, SMTT(20), Z3T(20)
  <1> QED BY <1>2 DEF IsFiniteSet, Lists

\* A finite set with one more element is finite.
LEMMA FiniteAdd ==
    ASSUME NEW S, IsFiniteSet(S), NEW x
    PROVE  IsFiniteSet(S \cup {x})
  <1>1. PICK seq : Lists(seq, S)
    BY DEF IsFiniteSet, Lists
  <1> DEFINE l == Append(seq, x)
  <1>2. l \in Seq(S \cup {x}) /\ Len(l) = Len(seq) + 1 /\ Len(seq) \in Nat
    BY <1>1, SMTT(20), Z3T(20) DEF Lists
  <1>3. ASSUME NEW s \in S \cup {x} PROVE \E n \in 1 .. Len(l) : l[n] = s
    <2>1. CASE s = x
      <3>1. l[Len(seq) + 1] = x
        BY <1>1, SMTT(20), Z3T(20) DEF Lists
      <3> QED BY <1>2, <2>1, <3>1, SMTT(20), Z3T(20)
    <2>2. CASE s \in S
      <3>1. PICK n \in 1 .. Len(seq) : seq[n] = s
        BY <1>1, <2>2 DEF Lists
      <3>2. l[n] = s
        BY <1>1, <3>1, SMTT(20), Z3T(20) DEF Lists
      <3> QED BY <1>2, <3>2, SMTT(20), Z3T(20)
    <2> QED BY <2>1, <2>2
  <1> HIDE DEF l
  <1> QED BY <1>2, <1>3 DEF IsFiniteSet

\* A nonempty set of subsets of a finite set has a minimal member: one with a
\* shortest list.
LEMMA MinimalSubset ==
    ASSUME NEW S, IsFiniteSet(S), NEW T \in SUBSET SUBSET S, T # {}
    PROVE  \E m \in T : \A u \in T : u \subseteq m => u = m
  <1> DEFINE Lengths == {k \in Nat : \E U \in T : \E l : Lists(l, U) /\ Len(l) = k}
  <1>1. Lengths # {}
    <2>1. PICK U \in T : TRUE
      OBVIOUS
    <2>2. PICK l : Lists(l, U)
      <3>1. IsFiniteSet(U)
        BY FiniteSubset
      <3> QED BY <3>1 DEF IsFiniteSet, Lists
    <2>3. Len(l) \in Lengths
      BY <2>2, SMTT(20), Z3T(20) DEF Lists
    <2> QED BY <2>3
  <1>2. PICK k \in Lengths : \A i \in Lengths : ~(i < k)
    <2> DEFINE R == {ss \in Nat \X Nat : ss[1] < ss[2]}
    <2>1. IsWellFoundedOn(R, Nat)
      BY NatLessThanWellFounded DEF OpToRel
    <2>2. Lengths \subseteq Nat
      OBVIOUS
    <2> HIDE DEF Lengths
    <2>3. PICK k \in Lengths : \A i \in Lengths : <<i, k>> \notin R
      <3> HIDE DEF R
      <3> QED BY <1>1, <2>1, <2>2, WFMin, ZenonT(40), SMTT(20)
    <2> QED BY <2>2, <2>3
  <1>3a. PICK m \in T : \E l : Lists(l, m) /\ Len(l) = k
    BY <1>2
  <1>3. PICK l : Lists(l, m) /\ Len(l) = k
    BY <1>3a
  <1>4. ASSUME NEW u \in T, u \subseteq m, u # m PROVE FALSE
    <2>1. PICK h : Lists(h, u) /\ Len(h) < Len(l)
      BY <1>3, <1>4, ListStrictSubset
    <2>2. Len(h) \in Lengths
      BY <2>1, SMTT(20), Z3T(20) DEF Lists
    <2> QED BY <1>2, <1>3, <2>1, <2>2
  <1> QED BY <1>3, <1>4

\* What holds of a finite set when it holds of its parts holds of it: any set
\* of subsets that contains a set once it contains the smaller ones is complete.
LEMMA SubsetInduction ==
    ASSUME NEW S, IsFiniteSet(S), NEW T,
           \A U \in SUBSET S : (\A V \in SUBSET U : V # U => V \in T) => U \in T
    PROVE  \A U \in SUBSET S : U \in T
  <1> SUFFICES ASSUME NEW W \in SUBSET S, W \notin T PROVE FALSE
    OBVIOUS
  <1> DEFINE Bad == {U \in SUBSET S : U \notin T}
  <1>1. PICK m \in Bad : \A u \in Bad : u \subseteq m => u = m
    <2>1. Bad \in SUBSET SUBSET S /\ Bad # {}
      OBVIOUS
    <2> HIDE DEF Bad
    <2> QED BY <2>1, MinimalSubset, SMTT(20), Z3T(20)
  <1>2. \A V \in SUBSET m : V # m => V \in T
    BY <1>1, SMTT(20), Z3T(20)
  <1> QED BY <1>2

\* Pick takes a member.
LEMMA PickIn == ASSUME NEW s, s # {} PROVE Pick(s) \in s
  BY DEF Pick

\* The recursion, unfolded once.
LEMMA IsSumAt ==
    ASSUME NEW g, NEW f, NEW S, IsSum(g, f, S), NEW U \in SUBSET S
    PROVE  /\ U = {} => g[U] = 0
           /\ U # {} => g[U] = f[Pick(U)] + g[U \ {Pick(U)}]
  <1> DEFINE e(s) == IF s = {} THEN 0 ELSE f[Pick(s)] + g[s \ {Pick(s)}]
  <1>1. g = [s \in SUBSET S |-> e(s)]
    BY DEF IsSum
  <1> HIDE DEF e
  <1>2. g[U] = e(U)
    BY <1>1
  <1> QED BY <1>2 DEF e

\* Two such functions agree where both are defined.
LEMMA SumsAgree ==
    ASSUME NEW f, NEW S, IsFiniteSet(S), NEW T, NEW g, NEW h, IsSum(g, f, S), IsSum(h, f, T)
    PROVE  \A U \in SUBSET S : U \subseteq T => g[U] = h[U]
  <1> DEFINE Good == {U \in SUBSET S : U \subseteq T => g[U] = h[U]}
  <1>1. ASSUME NEW U \in SUBSET S, \A V \in SUBSET U : V # U => V \in Good
        PROVE  U \in Good
    <2> SUFFICES ASSUME U \subseteq T PROVE g[U] = h[U]
      OBVIOUS
    <2>1. CASE U = {}
      BY <2>1, IsSumAt
    <2>2. CASE U # {}
      <3> DEFINE V == U \ {Pick(U)}
      <3>1. V \in SUBSET U /\ V # U
        BY <2>2, PickIn
      <3>2. g[V] = h[V]
        BY <1>1, <3>1
      <3>3. g[U] = f[Pick(U)] + g[V] /\ h[U] = f[Pick(U)] + h[V]
        BY <2>2, IsSumAt, SMTT(20), Z3T(20)
      <3> QED BY <3>2, <3>3
    <2> QED BY <2>1, <2>2
  <1> HIDE DEF Good
  <1>2. \A U \in SUBSET S : U \in Good
    BY <1>1, SubsetInduction
  <1> QED BY <1>2 DEF Good

\* The recursion has a solution on every finite set.
LEMMA SumExists ==
    ASSUME NEW f, NEW S, IsFiniteSet(S)
    PROVE  \E g : IsSum(g, f, S)
  <1> DEFINE Good == {U \in SUBSET S : \E g : IsSum(g, f, U)}
  <1>1. ASSUME NEW U \in SUBSET S, \A V \in SUBSET U : V # U => V \in Good
        PROVE  U \in Good
    <2> DEFINE H(W) == (CHOOSE g : IsSum(g, f, W))[W]
               e(V) == IF V = {} THEN 0 ELSE f[Pick(V)] + H(V \ {Pick(V)})
               G == [V \in SUBSET U |-> e(V)]
    <2>1. ASSUME NEW V \in SUBSET U, V # U PROVE G[V] = H(V)
      <3> DEFINE gV == CHOOSE g : IsSum(g, f, V)
      <3>0. IsSum(gV, f, V)
        BY <1>1, <2>1
      <3>1. CASE V = {}
        BY <3>0, <3>1, IsSumAt
      <3>2. CASE V # {}
        <4> DEFINE W == V \ {Pick(V)}
                   gW == CHOOSE g : IsSum(g, f, W)
        <4>1. W \in SUBSET V /\ W \in SUBSET U /\ W # U
          BY <2>1
        <4>2. IsSum(gW, f, W) /\ IsFiniteSet(W)
          BY <1>1, <4>1, FiniteSubset
        <4>3. gW[W] = gV[W]
          <5> HIDE DEF gV, gW, W
          <5> QED BY <3>0, <4>1, <4>2, SumsAgree, SMTT(20), Z3T(20)
        <4>4. gV[V] = f[Pick(V)] + gV[W]
          <5> HIDE DEF gV
          <5> QED BY <3>0, <3>2, IsSumAt, SMTT(20), Z3T(20)
        <4> QED BY <3>2, <4>3, <4>4
      <3> QED BY <3>1, <3>2
    <2>2. IsSum(G, f, U)
      <3>1. ASSUME NEW V \in SUBSET U, V # {} PROVE H(V \ {Pick(V)}) = G[V \ {Pick(V)}]
        BY <2>1, <3>1, PickIn
      <3> HIDE DEF H
      <3> DEFINE d(V) == IF V = {} THEN 0 ELSE f[Pick(V)] + G[V \ {Pick(V)}]
      <3>2. \A V \in SUBSET U : e(V) = d(V)
        BY <3>1
      <3> HIDE DEF e, d
      <3>3. G = [V \in SUBSET U |-> d(V)]
        BY <3>2
      <3> HIDE DEF G
      <3> QED BY <3>3 DEF IsSum, d
    <2> QED BY <2>2
  <1> HIDE DEF Good
  <1>2. \A U \in SUBSET S : U \in Good
    BY <1>1, SubsetInduction
  <1> QED BY <1>2 DEF Good

\* On a finite set MapThenSumSet is that solution.
LEMMA SumOverIsSum ==
    ASSUME NEW f, NEW S, IsFiniteSet(S)
    PROVE  \E g : IsSum(g, f, S) /\ SumOver(f, S) = g[S]
  <1> DEFINE g == CHOOSE h : IsSum(h, f, S)
  <1>1. IsSum(g, f, S)
    BY SumExists
  <1>2. SumOver(f, S) = g[S]
    BY DEF SumOver, MapThenSumSet, MapThenFoldSet, IsSum, Pick
  <1> QED BY <1>1, <1>2

\* The sum over the empty set is 0.
LEMMA SumEmpty == \A f : SumOver(f, {}) = 0
  <1> TAKE f
  <1>1. IsFiniteSet({})
    BY FiniteEmpty
  <1>2. PICK g : IsSum(g, f, {}) /\ SumOver(f, {}) = g[{}]
    BY <1>1, SumOverIsSum
  <1> QED BY <1>2, IsSumAt

\* The sum over a nonempty set is the picked element and the rest.
LEMMA SumPick ==
    ASSUME NEW f, NEW S, IsFiniteSet(S), S # {}
    PROVE  SumOver(f, S) = f[Pick(S)] + SumOver(f, S \ {Pick(S)})
  <1> DEFINE R == S \ {Pick(S)}
  <1>1. IsFiniteSet(R)
    BY FiniteSubset
  <1>2. PICK g : IsSum(g, f, S) /\ SumOver(f, S) = g[S]
    BY SumOverIsSum
  <1>3. PICK h : IsSum(h, f, R) /\ SumOver(f, R) = h[R]
    BY <1>1, SumOverIsSum
  <1>4. h[R] = g[R]
    <2>1. R \in SUBSET R /\ R \subseteq S
      OBVIOUS
    <2> HIDE DEF R
    <2> QED BY <1>1, <1>2, <1>3, <2>1, SumsAgree, SMTT(20), Z3T(20)
  <1>5. g[S] = f[Pick(S)] + g[R]
    BY <1>2, IsSumAt, SMTT(20), Z3T(20)
  <1> QED BY <1>2, <1>3, <1>4, <1>5

\* Sums of integers are integers.
LEMMA SumInt ==
    ASSUME NEW S, IsFiniteSet(S), NEW f, \A x \in S : f[x] \in Int
    PROVE  SumOver(f, S) \in Int
  <1> DEFINE Good == {U \in SUBSET S : SumOver(f, U) \in Int}
  <1>1. ASSUME NEW U \in SUBSET S, \A V \in SUBSET U : V # U => V \in Good
        PROVE  U \in Good
    <2>1. CASE U = {}
      BY <2>1, SumEmpty, SMTT(20), Z3T(20)
    <2>2. CASE U # {}
      <3>1. Pick(U) \in U
        BY <2>2, PickIn
      <3>2. SumOver(f, U \ {Pick(U)}) \in Int
        BY <1>1, <3>1
      <3>3. SumOver(f, U) = f[Pick(U)] + SumOver(f, U \ {Pick(U)})
        BY <2>2, FiniteSubset, SumPick
      <3> QED BY <3>1, <3>2, <3>3, SMTT(20), Z3T(20)
    <2> QED BY <2>1, <2>2
  <1> HIDE DEF Good
  <1>2. \A U \in SUBSET S : U \in Good
    BY <1>1, SubsetInduction
  <1> QED BY <1>2 DEF Good

\* Sums of naturals are naturals.
LEMMA SumNat ==
    ASSUME NEW S, IsFiniteSet(S), NEW f, \A x \in S : f[x] \in Nat
    PROVE  SumOver(f, S) \in Nat
  <1> DEFINE Good == {U \in SUBSET S : SumOver(f, U) \in Nat}
  <1>1. ASSUME NEW U \in SUBSET S, \A V \in SUBSET U : V # U => V \in Good
        PROVE  U \in Good
    <2>1. CASE U = {}
      BY <2>1, SumEmpty, SMTT(20), Z3T(20)
    <2>2. CASE U # {}
      <3>1. Pick(U) \in U
        BY <2>2, PickIn
      <3>2. SumOver(f, U \ {Pick(U)}) \in Nat
        BY <1>1, <3>1
      <3>3. SumOver(f, U) = f[Pick(U)] + SumOver(f, U \ {Pick(U)})
        BY <2>2, FiniteSubset, SumPick
      <3> QED BY <3>1, <3>2, <3>3, SMTT(20), Z3T(20)
    <2> QED BY <2>1, <2>2
  <1> HIDE DEF Good
  <1>2. \A U \in SUBSET S : U \in Good
    BY <1>1, SubsetInduction
  <1> QED BY <1>2 DEF Good

\* The order does not matter: any element may be taken out of the sum.
LEMMA SumRemove ==
    ASSUME NEW S, IsFiniteSet(S), NEW f, \A x \in S : f[x] \in Int
    PROVE  \A x \in S : SumOver(f, S) = f[x] + SumOver(f, S \ {x})
  <1> DEFINE Good == {U \in SUBSET S : \A x \in U : SumOver(f, U) = f[x] + SumOver(f, U \ {x})}
  <1>0. \A U \in SUBSET S : IsFiniteSet(U) /\ SumOver(f, U) \in Int
    BY FiniteSubset, SumInt
  <1>1. ASSUME NEW U \in SUBSET S, \A V \in SUBSET U : V # U => V \in Good
        PROVE  U \in Good
    <2> SUFFICES ASSUME NEW x \in U PROVE SumOver(f, U) = f[x] + SumOver(f, U \ {x})
      OBVIOUS
    <2> DEFINE p == Pick(U)
    <2>1. p \in U
      BY PickIn
    <2>2. SumOver(f, U) = f[p] + SumOver(f, U \ {p})
      BY <1>0, SumPick
    <2>3. CASE x = p
      BY <2>2, <2>3
    <2>4. CASE x # p
      <3> DEFINE R == (U \ {p}) \ {x}
      <3> HIDE DEF p
      <3>1. SumOver(f, U \ {p}) = f[x] + SumOver(f, R)
        <4>1. U \ {p} \in Good /\ x \in U \ {p}
          BY <1>1, <2>1, <2>4
        <4> QED BY <4>1
      <3>2. SumOver(f, U \ {x}) = f[p] + SumOver(f, R)
        <4>1. U \ {x} \in Good /\ p \in U \ {x}
          BY <1>1, <2>1, <2>4
        <4>2. (U \ {x}) \ {p} = R
          OBVIOUS
        <4> QED BY <4>1, <4>2
      <3>3. f[p] \in Int /\ f[x] \in Int /\ SumOver(f, R) \in Int
        BY <1>0, <2>1
      <3> HIDE DEF R
      <3> QED BY <2>2, <3>1, <3>2, <3>3, SMTT(20), Z3T(20)
    <2> QED BY <2>3, <2>4
  <1> HIDE DEF Good
  <1>2. \A U \in SUBSET S : U \in Good
    BY <1>1, SubsetInduction
  <1> QED BY <1>2 DEF Good

\* Adding an element adds its value.
LEMMA SumAdd ==
    ASSUME NEW S, IsFiniteSet(S), NEW f, NEW x, x \notin S,
           \A y \in S \cup {x} : f[y] \in Int
    PROVE  SumOver(f, S \cup {x}) = SumOver(f, S) + f[x]
  <1> DEFINE A == S \cup {x}
  <1>1. IsFiniteSet(A) /\ x \in A /\ A \ {x} = S /\ f[x] \in Int /\ \A y \in A : f[y] \in Int
    BY FiniteAdd
  <1>2. SumOver(f, S) \in Int
    BY SumInt
  <1> HIDE DEF A
  <1>3. SumOver(f, A) = f[x] + SumOver(f, A \ {x})
    BY <1>1, SumRemove
  <1>4. SumOver(f, A) = f[x] + SumOver(f, S) /\ f[x] \in Int
    BY <1>1, <1>3
  <1>5. SumOver(f, A) = SumOver(f, S) + f[x]
    BY <1>2, <1>4, SMTT(20), Z3T(20)
  <1> QED BY <1>5 DEF A

\* The sum depends on the values on the set only.
LEMMA SumEqual ==
    ASSUME NEW S, IsFiniteSet(S), NEW f, NEW g, \A x \in S : f[x] = g[x]
    PROVE  SumOver(f, S) = SumOver(g, S)
  <1> DEFINE Good == {U \in SUBSET S : SumOver(f, U) = SumOver(g, U)}
  <1>1. ASSUME NEW U \in SUBSET S, \A V \in SUBSET U : V # U => V \in Good
        PROVE  U \in Good
    <2>1. CASE U = {}
      BY <2>1, SumEmpty
    <2>2. CASE U # {}
      <3>1. Pick(U) \in U
        BY <2>2, PickIn
      <3>2. SumOver(f, U \ {Pick(U)}) = SumOver(g, U \ {Pick(U)})
        BY <1>1, <3>1
      <3>3. /\ SumOver(f, U) = f[Pick(U)] + SumOver(f, U \ {Pick(U)})
            /\ SumOver(g, U) = g[Pick(U)] + SumOver(g, U \ {Pick(U)})
        BY <2>2, FiniteSubset, SumPick
      <3> QED BY <3>1, <3>2, <3>3
    <2> QED BY <2>1, <2>2
  <1> HIDE DEF Good
  <1>2. \A U \in SUBSET S : U \in Good
    BY <1>1, SubsetInduction
  <1> QED BY <1>2 DEF Good

\* A larger set of naturals has no smaller sum.
LEMMA SumMonotonic ==
    ASSUME NEW S, IsFiniteSet(S), NEW f, \A x \in S : f[x] \in Nat, NEW T \in SUBSET S
    PROVE  SumOver(f, T) =< SumOver(f, S)
  <1> DEFINE Good == {U \in SUBSET S : T \subseteq U => SumOver(f, T) =< SumOver(f, U)}
  <1>0. \A U \in SUBSET S : IsFiniteSet(U) /\ SumOver(f, U) \in Nat
    BY FiniteSubset, SumNat
  <1>1. ASSUME NEW U \in SUBSET S, \A V \in SUBSET U : V # U => V \in Good
        PROVE  U \in Good
    <2> SUFFICES ASSUME T \subseteq U PROVE SumOver(f, T) =< SumOver(f, U)
      OBVIOUS
    <2>1. CASE T = U
      BY <1>0, <2>1, SMTT(20), Z3T(20)
    <2>2. CASE T # U
      <3>1. PICK x \in U : x \notin T
        BY <2>2
      <3>2. SumOver(f, U) = f[x] + SumOver(f, U \ {x})
        <4>1. \A y \in U : f[y] \in Int
          BY SMTT(20), Z3T(20)
        <4> QED BY <1>0, <4>1, SumRemove
      <3>3. SumOver(f, T) =< SumOver(f, U \ {x})
        BY <1>1, <3>1
      <3>4. f[x] \in Nat /\ SumOver(f, T) \in Nat /\ SumOver(f, U \ {x}) \in Nat
        BY <1>0
      <3> QED BY <3>2, <3>3, <3>4, SMTT(20), Z3T(20)
    <2> QED BY <2>1, <2>2
  <1> HIDE DEF Good
  <1>2. \A U \in SUBSET S : U \in Good
    BY <1>1, SubsetInduction
  <1> QED BY <1>2 DEF Good

\* Smaller values have no larger sum.
LEMMA SumLeq ==
    ASSUME NEW S, IsFiniteSet(S), NEW f, NEW g,
           \A x \in S : f[x] \in Int /\ g[x] \in Int /\ f[x] =< g[x]
    PROVE  SumOver(f, S) =< SumOver(g, S)
  <1> DEFINE Good == {U \in SUBSET S : SumOver(f, U) =< SumOver(g, U)}
  <1>0. \A U \in SUBSET S : IsFiniteSet(U) /\ SumOver(f, U) \in Int /\ SumOver(g, U) \in Int
    BY FiniteSubset, SumInt
  <1>1. ASSUME NEW U \in SUBSET S, \A V \in SUBSET U : V # U => V \in Good
        PROVE  U \in Good
    <2>1. CASE U = {}
      BY <2>1, SumEmpty, SMTT(20), Z3T(20)
    <2>2. CASE U # {}
      <3> DEFINE R == U \ {Pick(U)}
      <3>1. Pick(U) \in U
        BY <2>2, PickIn
      <3>2. R \in SUBSET S /\ SumOver(f, R) =< SumOver(g, R)
        BY <1>1, <3>1
      <3>3. /\ SumOver(f, U) = f[Pick(U)] + SumOver(f, R)
            /\ SumOver(g, U) = g[Pick(U)] + SumOver(g, R)
        BY <1>0, <2>2, SumPick
      <3> HIDE DEF R
      <3> QED BY <1>0, <3>1, <3>2, <3>3, SMTT(20), Z3T(20)
    <2> QED BY <2>1, <2>2
  <1> HIDE DEF Good
  <1>2. \A U \in SUBSET S : U \in Good
    BY <1>1, SubsetInduction
  <1> QED BY <1>2 DEF Good

\* A sum of sums is the sum of the two.
LEMMA SumPlus ==
    ASSUME NEW S, IsFiniteSet(S), NEW f, NEW g, NEW h,
           \A x \in S : f[x] \in Int /\ g[x] \in Int /\ h[x] = f[x] + g[x]
    PROVE  SumOver(h, S) = SumOver(f, S) + SumOver(g, S)
  <1> DEFINE Good == {U \in SUBSET S : SumOver(h, U) = SumOver(f, U) + SumOver(g, U)}
  <1>0. \A U \in SUBSET S : IsFiniteSet(U) /\ SumOver(f, U) \in Int /\ SumOver(g, U) \in Int
    BY FiniteSubset, SumInt
  <1>1. ASSUME NEW U \in SUBSET S, \A V \in SUBSET U : V # U => V \in Good
        PROVE  U \in Good
    <2>1. CASE U = {}
      BY <2>1, SumEmpty, SMTT(20), Z3T(20)
    <2>2. CASE U # {}
      <3> DEFINE R == U \ {Pick(U)}
      <3>1. Pick(U) \in U
        BY <2>2, PickIn
      <3>2. R \in SUBSET S /\ SumOver(h, R) = SumOver(f, R) + SumOver(g, R)
        BY <1>1, <3>1
      <3>3. /\ SumOver(f, U) = f[Pick(U)] + SumOver(f, R)
            /\ SumOver(g, U) = g[Pick(U)] + SumOver(g, R)
            /\ SumOver(h, U) = h[Pick(U)] + SumOver(h, R)
        BY <1>0, <2>2, SumPick
      <3> HIDE DEF R
      <3> QED BY <1>0, <3>1, <3>2, <3>3, SMTT(20), Z3T(20)
    <2> QED BY <2>1, <2>2
  <1> HIDE DEF Good
  <1>2. \A U \in SUBSET S : U \in Good
    BY <1>1, SubsetInduction
  <1> QED BY <1>2 DEF Good

\* Only the elements with a value count.
LEMMA SumSupport ==
    ASSUME NEW S, IsFiniteSet(S), NEW f, \A x \in S : f[x] \in Int,
           NEW T \in SUBSET S, \A x \in S \ T : f[x] = 0
    PROVE  SumOver(f, S) = SumOver(f, T)
  <1> DEFINE Good == {U \in SUBSET S : T \subseteq U => SumOver(f, U) = SumOver(f, T)}
  <1>0. \A U \in SUBSET S : IsFiniteSet(U) /\ SumOver(f, U) \in Int
    BY FiniteSubset, SumInt
  <1>1. ASSUME NEW U \in SUBSET S, \A V \in SUBSET U : V # U => V \in Good
        PROVE  U \in Good
    <2> SUFFICES ASSUME T \subseteq U, T # U PROVE SumOver(f, U) = SumOver(f, T)
      OBVIOUS
    <2>1. PICK x \in U : x \notin T
      OBVIOUS
    <2>2. SumOver(f, U) = f[x] + SumOver(f, U \ {x})
      BY <1>0, SumRemove
    <2>3. SumOver(f, U \ {x}) = SumOver(f, T) /\ SumOver(f, T) \in Int
      BY <1>0, <1>1, <2>1
    <2>4. f[x] = 0
      BY <2>1
    <2> QED BY <2>2, <2>3, <2>4, SMTT(20), Z3T(20)
  <1> HIDE DEF Good
  <1>2. \A U \in SUBSET S : U \in Good
    BY <1>1, SubsetInduction
  <1> QED BY <1>2 DEF Good

\* One changed value changes the sum by the difference.
LEMMA SumChange ==
    ASSUME NEW S, IsFiniteSet(S), NEW f, NEW g, NEW x \in S,
           \A y \in S : f[y] \in Int /\ g[y] \in Int,
           \A y \in S \ {x} : g[y] = f[y]
    PROVE  SumOver(g, S) = SumOver(f, S) + (g[x] - f[x])
  <1> DEFINE R == S \ {x}
  <1>1. R \in SUBSET S /\ IsFiniteSet(R)
    BY FiniteSubset
  <1>2. SumOver(f, R) \in Int /\ SumOver(f, R) = SumOver(g, R)
    BY <1>1, SumInt, SumEqual
  <1>3. SumOver(f, S) = f[x] + SumOver(f, R) /\ SumOver(g, S) = g[x] + SumOver(g, R)
    BY SumRemove
  <1> HIDE DEF R
  <1> QED BY <1>2, <1>3, SMTT(20), Z3T(20)
=============================================================================
