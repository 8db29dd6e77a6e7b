--------------------------- MODULE OperatorProofs ---------------------------
(***************************************************************************)
(* What the operators that the components share compute, for all their     *)
(* arguments: the rounds table (db.rs), the order of a service's states    *)
(* (service.rs), the spacing of the checks (game.rs).  Before them, what   *)
(* the proofs of all components rest on: induction over naturals and       *)
(* finite sets, and the recursion by which the sums and the folds of the   *)
(* library are defined.                                                    *)
(***************************************************************************)
EXTENDS CheckFlags, CheckTiming, FiniteSetTheorems, SequenceTheorems,
        WellFoundedInduction, TLAPS

-----------------------------------------------------------------------------
(* Induction and recursion *)

\* A nonempty set of naturals has a least element.
LEMMA LeastOfNats ==
    ASSUME NEW S \in SUBSET Nat, S # {}
    PROVE  \E m \in S : \A j \in S : m <= j
<1> DEFINE R == {ss \in Nat \X Nat : ss[1] < ss[2]}
<1>1. OpToRel(<, Nat) = R
    BY DEF OpToRel
<1>2. IsWellFoundedOn(R, Nat)
    BY <1>1, NatLessThanWellFounded
<1>3. \E m \in S : \A j \in S : ~(<<j, m>> \in R)
    BY <1>2, WFMin
<1>4. PICK m \in S : \A j \in S : ~(<<j, m>> \in R)
    BY <1>3
<1>5. ASSUME NEW j \in S PROVE m <= j
  <2>1. ~(<<j, m>> \in R)
      BY <1>4
  <2>2. m \in Nat /\ j \in Nat
      OBVIOUS
  <2>3. ~(j < m)
      BY <2>1, <2>2
  <2>4. QED
      BY <2>2, <2>3
<1>6. QED
    BY <1>5

\* A nonempty set of naturals up to n has a greatest element.
LEMMA GreatestUpTo ==
    ASSUME NEW n \in Nat, NEW S \in SUBSET (0..n), S # {}
    PROVE  \E m \in S : \A j \in S : j <= m
<1> DEFINE M == {n - j : j \in S}
<1>1. M \in SUBSET Nat /\ M # {}
  <2>1. ASSUME NEW j \in S PROVE n - j \in Nat
      OBVIOUS
  <2>2. PICK j \in S : TRUE
      OBVIOUS
  <2>3. n - j \in M
      BY <2>2
  <2>4. QED
      BY <2>1, <2>3
<1>2. PICK k \in M : \A j \in M : k <= j
    BY <1>1, LeastOfNats
<1>3. PICK m \in S : k = n - m
    OBVIOUS
<1>4. \A j \in S : n - j \in M
    OBVIOUS
<1>5. ASSUME NEW j \in S PROVE j <= m
    BY <1>2, <1>3, <1>4
<1>6. QED
    BY <1>5

\* Induction over an initial segment of the naturals.
LEMMA UpTo ==
    ASSUME NEW n \in Nat, NEW S, 0 \in S,
           \A k \in 0..(n - 1) : k \in S => k + 1 \in S
    PROVE  \A k \in 0..n : k \in S
<1> DEFINE M == {k \in 0..n : k \notin S}
<1>1. SUFFICES ASSUME M # {} PROVE FALSE
    OBVIOUS
<1>2. PICK m \in M : \A j \in M : m <= j
  <2>1. M \in SUBSET Nat
      OBVIOUS
  <2> HIDE DEF M
  <2>2. QED
      BY <1>1, <2>1, LeastOfNats
<1>3. m \in 0..n /\ m \notin S /\ m # 0
    OBVIOUS
<1>4. m - 1 \in 0..(n - 1) /\ m - 1 \notin M
    BY <1>2, <1>3
<1>5. (m - 1) + 1 \in S
    BY <1>4
<1>6. QED
    BY <1>3, <1>5

\* Induction over the subsets of a finite set, by their size: a set of subsets
\* that holds a subset whenever it holds all the smaller ones holds them all.
LEMMA BySize ==
    ASSUME NEW T, IsFiniteSet(T), NEW C,
           \A S \in SUBSET T :
              (\A U \in SUBSET T : Cardinality(U) < Cardinality(S) => U \in C) => S \in C
    PROVE  \A S \in SUBSET T : S \in C
<1> DEFINE G == {k \in Nat : \A S \in SUBSET T : Cardinality(S) <= k => S \in C}
<1>1. \A S \in SUBSET T : Cardinality(S) \in 0..Cardinality(T) /\ Cardinality(T) \in Nat
    BY FS_Subset, FS_CardinalityType
<1>2. 0 \in G
    BY <1>1
<1>3. ASSUME NEW k \in 0..(Cardinality(T) - 1), k \in G PROVE k + 1 \in G
  <2>1. ASSUME NEW S \in SUBSET T, Cardinality(S) <= k + 1 PROVE S \in C
    <3>1. \A U \in SUBSET T : Cardinality(U) < Cardinality(S) => Cardinality(U) <= k
        BY <1>1, <2>1
    <3>2. QED
        BY <1>3, <3>1
  <2>2. QED
      BY <2>1
<1>4. \A k \in 0..Cardinality(T) : k \in G
  <2> HIDE DEF G
  <2> QED
      BY <1>1, <1>2, <1>3, UpTo
<1>5. QED
    BY <1>1, <1>4

\* Induction over the subsets of a finite set, element by element.
LEMMA ByElement ==
    ASSUME NEW T, IsFiniteSet(T), NEW C, {} \in C,
           \A S \in SUBSET T : S # {} /\ (\A x \in S : S \ {x} \in C) => S \in C
    PROVE  \A S \in SUBSET T : S \in C
<1>1. ASSUME NEW S \in SUBSET T, \A U \in SUBSET T : Cardinality(U) < Cardinality(S) => U \in C
      PROVE  S \in C
  <2>1. ASSUME NEW x \in S PROVE S \ {x} \in C
    <3>1. IsFiniteSet(S) /\ Cardinality(S) \in Nat
        BY FS_Subset, FS_CardinalityType
    <3>2. Cardinality(S \ {x}) = Cardinality(S) - 1
        BY <3>1, FS_RemoveElement
    <3>3. S \ {x} \in SUBSET T /\ Cardinality(S \ {x}) < Cardinality(S)
        BY <3>1, <3>2
    <3>4. QED
        BY <1>1, <3>3
  <2>2. QED
      BY <2>1
<1>2. QED
    BY <1>1, BySize

\* How MapThenFoldSet, on which the folds and sums of the library rest, defines
\* its function: an element is chosen from the set, and what is left is folded.
Picks(ch, T) == \A S \in SUBSET T : S # {} => ch[S] \in S

FoldsSubsets(it, T, base, ch, op) ==
    it = [S \in SUBSET T |-> IF S = {} THEN base ELSE op[<<ch[S], it[S \ {ch[S]}]>>]]

\* Such a function exists.
LEMMA RecursionOnSubsets ==
    ASSUME NEW T, IsFiniteSet(T), NEW V, NEW base \in V,
           NEW ch, Picks(ch, T), NEW op \in [T \X V -> V]
    PROVE  \E it \in [SUBSET T -> V] : FoldsSubsets(it, T, base, ch, op)
<1>0. \A x \in T, v \in V : op[<<x, v>>] \in V
    OBVIOUS
<1> DEFINE D(k) == {S \in SUBSET T : Cardinality(S) <= k}
           N == Cardinality(T)
           Eq(g, S) == g[S] = IF S = {} THEN base ELSE op[<<ch[S], g[S \ {ch[S]}]>>]
           G == {k \in Nat : \E g \in [D(k) -> V] : \A S \in D(k) : Eq(g, S)}
<1>1. \A S \in SUBSET T : Cardinality(S) \in 0..N /\ IsFiniteSet(S) /\ N \in Nat
    BY FS_Subset, FS_CardinalityType
<1>2. ASSUME NEW k \in Nat, NEW S \in SUBSET T, S # {}, Cardinality(S) <= k + 1
      PROVE  S \ {ch[S]} \in D(k) /\ ch[S] \in T
  <2>0. ch[S] \in S
      BY <1>2 DEF Picks
  <2>1. Cardinality(S \ {ch[S]}) = Cardinality(S) - 1
      BY <1>1, <1>2, <2>0, FS_RemoveElement
  <2>2. QED
      BY <1>1, <1>2, <2>0, <2>1
<1>3. 0 \in G
  <2>1. D(0) = {{}}
    <3>1. ASSUME NEW S \in SUBSET T, Cardinality(S) <= 0 PROVE S = {}
      <4>1. Cardinality(S) = 0 /\ IsFiniteSet(S)
          BY <1>1, <3>1
      <4>2. QED
          BY <4>1, FS_EmptySet
    <3>2. Cardinality({}) <= 0
        BY FS_EmptySet
    <3>3. QED
        BY <3>1, <3>2
  <2>2. [S \in D(0) |-> base] \in [D(0) -> V] /\ \A S \in D(0) : Eq([U \in D(0) |-> base], S)
      BY <2>1
  <2>3. QED
      BY <2>2
<1>4. ASSUME NEW k \in 0..(N - 1), k \in G PROVE k + 1 \in G
  <2>1. PICK g \in [D(k) -> V] : \A S \in D(k) : Eq(g, S)
      BY <1>4
  <2> DEFINE h == [S \in D(k + 1) |-> IF S = {} THEN base ELSE op[<<ch[S], g[S \ {ch[S]}]>>]]
  <2>2. h \in [D(k + 1) -> V]
    <3>1. ASSUME NEW S \in D(k + 1), S # {} PROVE op[<<ch[S], g[S \ {ch[S]}]>>] \in V
      <4>1. S \ {ch[S]} \in D(k) /\ ch[S] \in T
          BY <1>2, <3>1
      <4> HIDE DEF D
      <4>2. QED
          BY <1>0, <4>1
    <3>2. QED
        BY <3>1
  <2>3. ASSUME NEW S \in D(k) PROVE S \in D(k + 1) /\ h[S] = g[S]
    <3>1. S \in D(k + 1)
        BY <1>1
    <3>2. Eq(g, S)
        BY <2>1
    <3>3. QED
        BY <3>1, <3>2
  <2>4. ASSUME NEW S \in D(k + 1) PROVE Eq(h, S)
    <3>1. CASE S = {}
        BY <3>1
    <3>2. CASE S # {}
      <4>1. h[S \ {ch[S]}] = g[S \ {ch[S]}]
        <5>1. S \ {ch[S]} \in D(k)
            BY <1>2, <3>2
        <5> HIDE DEF h, D
        <5>2. QED
            BY <2>3, <5>1
      <4>2. h[S] = op[<<ch[S], g[S \ {ch[S]}]>>]
          BY <3>2
      <4>3. QED
          BY <3>2, <4>1, <4>2
    <3>3. QED
        BY <3>1, <3>2
  <2>5. k + 1 \in Nat
      OBVIOUS
  <2> HIDE DEF h, D
  <2>6. \E f \in [D(k + 1) -> V] : \A S \in D(k + 1) : Eq(f, S)
      BY <2>2, <2>4
  <2>7. QED
      BY <2>5, <2>6
<1>5. N \in G
  <2> HIDE DEF G
  <2> QED
      BY <1>1, <1>3, <1>4, UpTo
<1>6. PICK g \in [D(N) -> V] : \A S \in D(N) : Eq(g, S)
    BY <1>5
<1>7. D(N) = SUBSET T
    BY <1>1
<1>8. g \in [SUBSET T -> V] /\ g = [S \in SUBSET T |-> g[S]] /\ \A S \in SUBSET T : Eq(g, S)
    BY <1>6, <1>7
<1>9. g = [S \in SUBSET T |-> IF S = {} THEN base ELSE op[<<ch[S], g[S \ {ch[S]}]>>]]
    BY <1>8
<1>10. QED
    BY <1>8, <1>9 DEF FoldsSubsets

\* Two functions that agree on a set as soon as they agree on what is left of it.
AgreeStepwise(it, jt, T, ch) ==
    /\ it[{}] = jt[{}]
    /\ \A S \in SUBSET T : S # {} /\ it[S \ {ch[S]}] = jt[S \ {ch[S]}] => it[S] = jt[S]

LEMMA RecursionsAgree ==
    ASSUME NEW T, IsFiniteSet(T), NEW ch, Picks(ch, T),
           NEW it, NEW jt, AgreeStepwise(it, jt, T, ch)
    PROVE  \A S \in SUBSET T : it[S] = jt[S]
<1> DEFINE C == {S \in SUBSET T : it[S] = jt[S]}
<1>1. {} \in C
    BY DEF AgreeStepwise
<1>2. ASSUME NEW S \in SUBSET T, S # {}, \A x \in S : S \ {x} \in C PROVE S \in C
  <2>1. S \ {ch[S]} \in C
      BY <1>2 DEF Picks
  <2>2. QED
      BY <1>2, <2>1 DEF AgreeStepwise
<1> HIDE DEF C
<1>3. \A S \in SUBSET T : S \in C
    BY <1>1, <1>2, ByElement
<1>4. QED
    BY <1>3 DEF C

-----------------------------------------------------------------------------
(* Sums: SumFunctionOnSet, which adds the values of a function over a set *)

IntsOn(f, T) == \A x \in T : f[x] \in Int

\* it[S] is the sum over S, from which an element that is chosen is taken away.
SumsSubsets(it, f, T) ==
    /\ it \in [SUBSET T -> Int]
    /\ it[{}] = 0
    /\ \A S \in SUBSET T : S # {} =>
          it[S] = f[CHOOSE x \in S : TRUE] + it[S \ {CHOOSE x \in S : TRUE}]
    /\ \A S \in SUBSET T : SumFunctionOnSet(f, S) = it[S]

LEMMA SumUnfolds ==
    ASSUME NEW T, IsFiniteSet(T), NEW f, IntsOn(f, T)
    PROVE  \E it : SumsSubsets(it, f, T)
<1>0. \A x \in T : f[x] \in Int
    BY DEF IntsOn
<1> DEFINE ch == [S \in SUBSET T |-> CHOOSE x \in S : TRUE]
           op == [p \in T \X Int |-> f[p[1]] + p[2]]
           Form(it, U) == it = [S \in SUBSET U |-> IF S = {} THEN 0
                                   ELSE f[CHOOSE x \in S : TRUE] + it[S \ {CHOOSE x \in S : TRUE}]]
<1>1. \A S \in SUBSET T : S # {} => ch[S] \in S /\ ch[S] = CHOOSE x \in S : TRUE
    OBVIOUS
<1>2. /\ op \in [T \X Int -> Int]
      /\ \A x \in T, v \in Int : op[<<x, v>>] = f[x] + v
    BY <1>0
<1> HIDE DEF ch, op
<1>3. PICK it \in [SUBSET T -> Int] : FoldsSubsets(it, T, 0, ch, op)
  <2>1. Picks(ch, T)
      BY <1>1 DEF Picks
  <2> DEFINE V == Int
             zero == 0
  <2>2. zero \in V /\ op \in [T \X V -> V]
      BY <1>2
  <2> HIDE DEF V, zero
  <2>3. \E it \in [SUBSET T -> V] : FoldsSubsets(it, T, zero, ch, op)
      BY <2>1, <2>2, RecursionOnSubsets
  <2>4. QED
      BY <2>3 DEF V, zero
<1>4. it[{}] = 0
    BY <1>3 DEF FoldsSubsets
<1>5. ASSUME NEW S \in SUBSET T, S # {}
      PROVE  it[S] = f[CHOOSE x \in S : TRUE] + it[S \ {CHOOSE x \in S : TRUE}]
  <2>1. it[S] = op[<<ch[S], it[S \ {ch[S]}]>>]
      BY <1>3, <1>5 DEF FoldsSubsets
  <2>2. ch[S] \in T /\ it[S \ {ch[S]}] \in Int /\ ch[S] = CHOOSE x \in S : TRUE
      BY <1>1, <1>5
  <2>3. QED
      BY <1>2, <2>1, <2>2
<1>6. ASSUME NEW U \in SUBSET T PROVE SumFunctionOnSet(f, U) = it[U]
  <2> DEFINE jt == [S \in SUBSET U |-> it[S]]
             kt == CHOOSE kt : Form(kt, U)
  <2>1. Form(jt, U)
    <3>1. ASSUME NEW S \in SUBSET U, S # {}
          PROVE  /\ jt[S] = it[S]
                 /\ jt[S \ {CHOOSE x \in S : TRUE}] = it[S \ {CHOOSE x \in S : TRUE}]
        OBVIOUS
    <3>2. ASSUME NEW S \in SUBSET U
          PROVE  jt[S] = IF S = {} THEN 0
                         ELSE f[CHOOSE x \in S : TRUE] + jt[S \ {CHOOSE x \in S : TRUE}]
      <4>1. CASE S = {}
          BY <1>4, <4>1
      <4>2. CASE S # {}
          BY <1>5, <3>1, <4>2
      <4>3. QED
          BY <4>1, <4>2
    <3>3. jt = [S \in SUBSET U |-> jt[S]]
        OBVIOUS
    <3> HIDE DEF jt
    <3>4. QED
        BY <3>2, <3>3
  <2>2. Form(kt, U)
    <3>1. \E g : Form(g, U)
        BY <2>1
    <3> HIDE DEF Form
    <3>2. QED
        BY <3>1
  <2>3. SumFunctionOnSet(f, U) = kt[U]
      BY DEF SumFunctionOnSet, FoldFunctionOnSet, MapThenFoldSet
  <2> HIDE DEF kt
  <2>4. AgreeStepwise(kt, it, U, ch)
    <3>1. kt[{}] = it[{}]
        BY <1>4, <2>2
    <3>2. ASSUME NEW S \in SUBSET U, S # {}, kt[S \ {ch[S]}] = it[S \ {ch[S]}]
          PROVE  kt[S] = it[S]
      <4>1. kt[S] = f[CHOOSE x \in S : TRUE] + kt[S \ {CHOOSE x \in S : TRUE}]
          BY <2>2, <3>2
      <4> HIDE DEF Form
      <4>2. /\ S \in SUBSET T /\ ch[S] = CHOOSE x \in S : TRUE
            /\ it[S] = f[CHOOSE x \in S : TRUE] + it[S \ {CHOOSE x \in S : TRUE}]
          BY <1>1, <1>5, <3>2
      <4>3. QED
          BY <3>2, <4>1, <4>2
    <3>3. QED
        BY <3>1, <3>2 DEF AgreeStepwise
  <2>5. IsFiniteSet(U) /\ Picks(ch, U)
      BY <1>1, FS_Subset DEF Picks
  <2> HIDE DEF Form
  <2>6. \A S \in SUBSET U : kt[S] = it[S]
      BY <2>4, <2>5, RecursionsAgree
  <2>7. QED
      BY <2>3, <2>6
<1>7. QED
    BY <1>4, <1>5, <1>6 DEF SumsSubsets

\* A sum of integers is an integer, and over no element it is 0.
LEMMA SumIsInt ==
    ASSUME NEW T, IsFiniteSet(T), NEW f, IntsOn(f, T)
    PROVE  SumFunctionOnSet(f, T) \in Int /\ SumFunctionOnSet(f, {}) = 0
<1>1. PICK it : SumsSubsets(it, f, T)
    BY SumUnfolds
<1>2. QED
    BY <1>1 DEF SumsSubsets

\* Any element may be the first.
LEMMA SumRemove ==
    ASSUME NEW T, IsFiniteSet(T), NEW f, IntsOn(f, T), NEW x \in T
    PROVE  SumFunctionOnSet(f, T) = f[x] + SumFunctionOnSet(f, T \ {x})
<1>0. PICK it : SumsSubsets(it, f, T)
    BY SumUnfolds
<1>1. /\ it \in [SUBSET T -> Int]
      /\ \A S \in SUBSET T : S # {} =>
            it[S] = f[CHOOSE y \in S : TRUE] + it[S \ {CHOOSE y \in S : TRUE}]
      /\ \A S \in SUBSET T : SumFunctionOnSet(f, S) = it[S]
    BY <1>0 DEF SumsSubsets
<1> DEFINE C == {S \in SUBSET T : \A y \in S : it[S] = f[y] + it[S \ {y}]}
<1>2. {} \in C
    OBVIOUS
<1>3. ASSUME NEW S \in SUBSET T, S # {}, \A y \in S : S \ {y} \in C PROVE S \in C
  <2> DEFINE c == CHOOSE y \in S : TRUE
  <2>1. c \in S /\ it[S] = f[c] + it[S \ {c}]
      BY <1>1, <1>3
  <2> HIDE DEF c
  <2>2. ASSUME NEW y \in S, y # c PROVE it[S] = f[y] + it[S \ {y}]
    <3>1. it[S \ {c}] = f[y] + it[(S \ {c}) \ {y}]
        BY <1>3, <2>1, <2>2
    <3>2. it[S \ {y}] = f[c] + it[(S \ {y}) \ {c}]
        BY <1>3, <2>1, <2>2
    <3>3. (S \ {c}) \ {y} = (S \ {y}) \ {c}
        OBVIOUS
    <3> DEFINE R == (S \ {c}) \ {y}
               fy == f[y]
               fc == f[c]
               r  == it[R]
    <3>4. fy \in Int /\ fc \in Int /\ r \in Int
        BY <1>1, <2>1 DEF IntsOn
    <3>5. it[S] = fc + (fy + r) /\ it[S \ {y}] = fc + r
        BY <2>1, <3>1, <3>2, <3>3
    <3> HIDE DEF fy, fc, r
    <3>6. it[S] = fy + it[S \ {y}]
        BY <3>4, <3>5
    <3>7. QED
        BY <3>6 DEF fy
  <2>3. QED
      BY <2>1, <2>2
<1> HIDE DEF C
<1>4. \A S \in SUBSET T : S \in C
    BY <1>2, <1>3, ByElement
<1>5. it[T] = f[x] + it[T \ {x}]
    BY <1>4 DEF C
<1>6. QED
    BY <1>1, <1>5

LEMMA SumAdd ==
    ASSUME NEW S, IsFiniteSet(S), NEW x, x \notin S,
           NEW f, IntsOn(f, S \cup {x})
    PROVE  SumFunctionOnSet(f, S \cup {x}) = f[x] + SumFunctionOnSet(f, S)
<1> DEFINE T == S \cup {x}
<1>1. IsFiniteSet(T)
    BY FS_AddElement
<1>2. x \in T /\ T \ {x} = S /\ IntsOn(f, T)
    OBVIOUS
<1> HIDE DEF T
<1>3. SumFunctionOnSet(f, T) = f[x] + SumFunctionOnSet(f, T \ {x})
    BY <1>1, <1>2, SumRemove
<1>4. QED
    BY <1>2, <1>3 DEF T

\* A sum depends on the values of the function alone.
LEMMA SumAgree ==
    ASSUME NEW T, IsFiniteSet(T), NEW f, IntsOn(f, T),
           NEW g, \A x \in T : g[x] = f[x]
    PROVE  SumFunctionOnSet(g, T) = SumFunctionOnSet(f, T)
<1> DEFINE C == {S \in SUBSET T : SumFunctionOnSet(g, S) = SumFunctionOnSet(f, S)}
<1>0. IntsOn(g, T)
    BY DEF IntsOn
<1>1. {} \in C
    BY <1>0, SumIsInt
<1>2. ASSUME NEW S \in SUBSET T, S # {}, \A x \in S : S \ {x} \in C PROVE S \in C
  <2>1. PICK x \in S : TRUE
      BY <1>2
  <2>2. /\ IsFiniteSet(S)
        /\ IntsOn(f, S)
        /\ IntsOn(g, S)
      BY FS_Subset DEF IntsOn
  <2>3. SumFunctionOnSet(f, S) = f[x] + SumFunctionOnSet(f, S \ {x})
      BY <2>2, SumRemove
  <2>4. SumFunctionOnSet(g, S) = g[x] + SumFunctionOnSet(g, S \ {x})
      BY <2>2, SumRemove
  <2>5. QED
      BY <1>2, <2>3, <2>4
<1> HIDE DEF C
<1>3. \A S \in SUBSET T : S \in C
    BY <1>1, <1>2, ByElement
<1>4. QED
    BY <1>3 DEF C

\* A sum whose terms differ in one element differs by as much.
LEMMA SumChange ==
    ASSUME NEW T, IsFiniteSet(T), NEW f, IntsOn(f, T),
           NEW g, IntsOn(g, T),
           NEW y \in T, \A x \in T \ {y} : g[x] = f[x]
    PROVE  SumFunctionOnSet(g, T) = SumFunctionOnSet(f, T) + (g[y] - f[y])
<1> DEFINE S == T \ {y}
<1>1. IsFiniteSet(S) /\ IntsOn(f, S)
    BY FS_Subset DEF IntsOn
<1>2. \A x \in S : g[x] = f[x]
    OBVIOUS
<1> HIDE DEF S
<1>3. SumFunctionOnSet(g, S) = SumFunctionOnSet(f, S) /\ SumFunctionOnSet(f, S) \in Int
    BY <1>1, <1>2, SumAgree, SumIsInt
<1>4. SumFunctionOnSet(f, T) = f[y] + SumFunctionOnSet(f, S)
    BY SumRemove DEF S
<1>5. SumFunctionOnSet(g, T) = g[y] + SumFunctionOnSet(g, S)
    BY SumRemove DEF S
<1>6. f[y] \in Int /\ g[y] \in Int
    BY DEF IntsOn
<1>7. QED
    BY <1>3, <1>4, <1>5, <1>6

\* A sum of naturals is a natural.
LEMMA SumIsNat ==
    ASSUME NEW T, IsFiniteSet(T), NEW f, \A x \in T : f[x] \in Nat
    PROVE  SumFunctionOnSet(f, T) \in Nat
<1> DEFINE C == {S \in SUBSET T : SumFunctionOnSet(f, S) \in Nat}
<1>0. IntsOn(f, T)
    BY DEF IntsOn
<1>1. {} \in C
    BY <1>0, SumIsInt
<1>2. ASSUME NEW S \in SUBSET T, S # {}, \A x \in S : S \ {x} \in C PROVE S \in C
  <2>1. PICK x \in S : TRUE
      BY <1>2
  <2>2. IsFiniteSet(S) /\ IntsOn(f, S)
      BY FS_Subset DEF IntsOn
  <2>3. SumFunctionOnSet(f, S) = f[x] + SumFunctionOnSet(f, S \ {x})
      BY <2>2, SumRemove
  <2>4. f[x] \in Nat /\ SumFunctionOnSet(f, S \ {x}) \in Nat
      BY <1>2
  <2>5. QED
      BY <2>3, <2>4
<1> HIDE DEF C
<1>3. \A S \in SUBSET T : S \in C
    BY <1>1, <1>2, ByElement
<1>4. QED
    BY <1>3 DEF C

LEMMA SumOfZeros ==
    ASSUME NEW T, IsFiniteSet(T), NEW f, \A x \in T : f[x] = 0
    PROVE  SumFunctionOnSet(f, T) = 0
<1> DEFINE C == {S \in SUBSET T : SumFunctionOnSet(f, S) = 0}
<1>1. IntsOn(f, T)
    BY DEF IntsOn
<1>2. {} \in C
    BY <1>1, SumIsInt
<1>3. ASSUME NEW S \in SUBSET T, S # {}, \A x \in S : S \ {x} \in C PROVE S \in C
  <2>1. PICK x \in S : TRUE
      BY <1>3
  <2>2. IsFiniteSet(S) /\ IntsOn(f, S)
      BY <1>1, FS_Subset DEF IntsOn
  <2>3. SumFunctionOnSet(f, S) = f[x] + SumFunctionOnSet(f, S \ {x})
      BY <2>2, SumRemove
  <2>4. QED
      BY <1>3, <2>3
<1> HIDE DEF C
<1>4. \A S \in SUBSET T : S \in C
    BY <1>2, <1>3, ByElement
<1>5. QED
    BY <1>4 DEF C

\* Elements whose value is 0 do not count.
LEMMA SumDropZeros ==
    ASSUME NEW T, IsFiniteSet(T), NEW f, IntsOn(f, T), NEW S \in SUBSET T,
           \A x \in T \ S : f[x] = 0
    PROVE  SumFunctionOnSet(f, T) = SumFunctionOnSet(f, S)
<1> DEFINE C == {U \in SUBSET T : SumFunctionOnSet(f, U) = SumFunctionOnSet(f, U \cap S)}
<1>1. {} \in C
    OBVIOUS
<1>2. ASSUME NEW U \in SUBSET T, U # {}, \A x \in U : U \ {x} \in C PROVE U \in C
  <2>1. PICK x \in U : TRUE
      BY <1>2
  <2>2. IsFiniteSet(U) /\ IntsOn(f, U) /\ IsFiniteSet(U \cap S) /\ IntsOn(f, U \cap S)
      BY FS_Subset DEF IntsOn
  <2>3. SumFunctionOnSet(f, U) = f[x] + SumFunctionOnSet(f, U \ {x})
      BY <2>2, SumRemove
  <2>4. SumFunctionOnSet(f, U \ {x}) = SumFunctionOnSet(f, (U \ {x}) \cap S)
      BY <1>2
  <2>5. CASE x \in S
    <3>1. SumFunctionOnSet(f, U \cap S) = f[x] + SumFunctionOnSet(f, (U \cap S) \ {x})
        BY <2>2, <2>5, SumRemove
    <3>2. (U \cap S) \ {x} = (U \ {x}) \cap S
        OBVIOUS
    <3>3. QED
        BY <2>3, <2>4, <3>1, <3>2
  <2>6. CASE x \notin S
    <3>1. (U \ {x}) \cap S = U \cap S /\ f[x] = 0
        BY <2>6
    <3>2. SumFunctionOnSet(f, U \cap S) \in Int
        BY <2>2, SumIsInt
    <3>3. SumFunctionOnSet(f, U \ {x}) = SumFunctionOnSet(f, U \cap S)
        BY <2>4, <3>1
    <3> DEFINE a == SumFunctionOnSet(f, U)
               b == SumFunctionOnSet(f, U \cap S)
    <3>4. a = f[x] + b /\ b \in Int
        BY <2>3, <3>2, <3>3
    <3> HIDE DEF a, b
    <3>5. a = b
        BY <3>1, <3>4
    <3>6. QED
        BY <3>5 DEF a, b
  <2>7. QED
      BY <2>5, <2>6
<1> HIDE DEF C
<1>3. \A U \in SUBSET T : U \in C
    BY <1>1, <1>2, ByElement
<1>4. T \cap S = S
    OBVIOUS
<1>5. QED
    BY <1>3, <1>4 DEF C

\* N are other names, by h, of the elements of K.
Renames(h, K, N) ==
    /\ \A j, k \in K : h[j] = h[k] => j = k
    /\ \A k \in K : h[k] \in N
    /\ \A y \in N : \E k \in K : h[k] = y

SameUnder(h, g, f, K) == \A k \in K : f[h[k]] = g[k]

\* A sum may be taken over other names of its elements.
LEMMA SumRename ==
    ASSUME NEW K, IsFiniteSet(K), NEW h, NEW N, Renames(h, K, N),
           NEW g, IntsOn(g, K), NEW f, SameUnder(h, g, f, K)
    PROVE  SumFunctionOnSet(g, K) = SumFunctionOnSet(f, N)
<1> USE DEF Renames, SameUnder
<1> DEFINE Im(S) == {h[k] : k \in S}
           C == {S \in SUBSET K : SumFunctionOnSet(g, S) = SumFunctionOnSet(f, Im(S))}
<1>0. ASSUME NEW S \in SUBSET K
      PROVE  IsFiniteSet(S) /\ IntsOn(g, S) /\ IsFiniteSet(Im(S)) /\ IntsOn(f, Im(S))
  <2>1. IsFiniteSet(S) /\ IntsOn(g, S) /\ IntsOn(f, Im(S))
      BY FS_Subset DEF IntsOn
  <2>2. [k \in S |-> h[k]] \in Surjection(S, Im(S))
      BY DEF Surjection
  <2> HIDE DEF Im
  <2>3. IsFiniteSet(Im(S))
      BY <2>1, <2>2, FS_Surjection
  <2>4. QED
      BY <2>1, <2>3
<1>1. {} \in C
  <2>1. Im({}) = {} /\ IntsOn(f, {}) /\ IntsOn(g, {}) /\ IsFiniteSet({})
      BY FS_EmptySet DEF IntsOn
  <2>2. SumFunctionOnSet(g, {}) = 0 /\ SumFunctionOnSet(f, {}) = 0
      BY <2>1, SumIsInt
  <2> HIDE DEF Im
  <2>3. QED
      BY <2>1, <2>2
<1>2. ASSUME NEW S \in SUBSET K, S # {}, \A x \in S : S \ {x} \in C PROVE S \in C
  <2>1. PICK x \in S : TRUE
      BY <1>2
  <2>2. SumFunctionOnSet(g, S) = g[x] + SumFunctionOnSet(g, S \ {x})
      BY <1>0, SumRemove
  <2>3. h[x] \in Im(S) /\ Im(S) \ {h[x]} = Im(S \ {x}) /\ f[h[x]] = g[x]
      OBVIOUS
  <2>4. IsFiniteSet(Im(S)) /\ IntsOn(f, Im(S))
      BY <1>0
  <2> HIDE DEF Im
  <2>5. SumFunctionOnSet(f, Im(S)) = f[h[x]] + SumFunctionOnSet(f, Im(S) \ {h[x]})
      BY <2>3, <2>4, SumRemove
  <2>6. SumFunctionOnSet(g, S \ {x}) = SumFunctionOnSet(f, Im(S \ {x}))
      BY <1>2
  <2>7. QED
      BY <2>2, <2>3, <2>5, <2>6
<1> HIDE DEF C
<1>3. \A S \in SUBSET K : S \in C
    BY <1>1, <1>2, ByElement
<1>4. Im(K) = N
    OBVIOUS
<1>5. QED
    BY <1>3, <1>4 DEF C

\* Things that are counted by what they belong to are counted once each.
LEMMA SumOfClasses ==
    ASSUME NEW K, IsFiniteSet(K), NEW T, IsFiniteSet(T), NEW h \in [K -> T]
    PROVE  SumFunctionOnSet([t \in T |-> Cardinality({k \in K : h[k] = t})], T) = Cardinality(K)
<1> DEFINE Size(S) == [t \in T |-> Cardinality({k \in S : h[k] = t})]
           C == {S \in SUBSET K : SumFunctionOnSet(Size(S), T) = Cardinality(S)}
<1>1. ASSUME NEW S \in SUBSET K
      PROVE  /\ IsFiniteSet(S) /\ Cardinality(S) \in Nat
             /\ \A t \in T : IsFiniteSet({k \in S : h[k] = t}) /\ Size(S)[t] \in Nat
  <2>1. IsFiniteSet(S)
      BY FS_Subset
  <2>2. ASSUME NEW t \in T PROVE IsFiniteSet({k \in S : h[k] = t})
      BY <2>1, FS_Subset
  <2>3. QED
      BY <2>1, <2>2, FS_CardinalityType
<1>2. {} \in C
  <2>1. \A t \in T : {k \in {} : h[k] = t} = {}
      OBVIOUS
  <2>2. Cardinality({}) = 0
      BY FS_EmptySet
  <2>3. \A t \in T : Size({})[t] = 0
      BY <2>1, <2>2
  <2> HIDE DEF Size
  <2>4. QED
      BY <2>2, <2>3, SumOfZeros
<1>3. ASSUME NEW S \in SUBSET K, S # {}, \A x \in S : S \ {x} \in C PROVE S \in C
  <2>1. PICK x \in S : TRUE
      BY <1>3
  <2> DEFINE R == S \ {x}
             f == Size(R)
             g == Size(S)
  <2>2. R \in SUBSET K /\ h[x] \in T
      OBVIOUS
  <2>3. ASSUME NEW t \in T, t # h[x] PROVE g[t] = f[t]
    <3>1. {k \in S : h[k] = t} = {k \in R : h[k] = t}
        BY <2>3
    <3>2. QED
        BY <3>1
  <2>4. g[h[x]] = f[h[x]] + 1
    <3> DEFINE A == {k \in R : h[k] = h[x]}
    <3>1. {k \in S : h[k] = h[x]} = A \cup {x} /\ x \notin A
        OBVIOUS
    <3>2. IsFiniteSet(A)
      <4>1. \A t \in T : IsFiniteSet({k \in R : h[k] = t})
          BY <1>1, <2>2
      <4>2. QED
          BY <2>2, <4>1
    <3>3. g[h[x]] = Cardinality({k \in S : h[k] = h[x]}) /\ f[h[x]] = Cardinality(A)
        BY <2>2
    <3> HIDE DEF A, f, g
    <3>4. Cardinality(A \cup {x}) = Cardinality(A) + 1
        BY <3>1, <3>2, FS_AddElement
    <3>5. QED
        BY <3>1, <3>3, <3>4
  <2>5. IntsOn(f, T) /\ IntsOn(g, T)
    <3>1. \A t \in T : f[t] \in Nat
        BY <1>1, <2>2
    <3>2. \A t \in T : g[t] \in Nat
        BY <1>1
    <3> HIDE DEF f, g
    <3>3. QED
        BY <3>1, <3>2 DEF IntsOn
  <2>6. f[h[x]] \in Nat
      BY <1>1, <2>2
  <2>7. SumFunctionOnSet(f, T) = Cardinality(R)
      BY <1>3
  <2>8. Cardinality(S) = Cardinality(R) + 1 /\ Cardinality(R) \in Nat
    <3>1. Cardinality(R) = Cardinality(S) - 1
        BY <1>1, FS_RemoveElement
    <3>2. QED
        BY <1>1, <3>1
  <2> HIDE DEF f, g, R
  <2>9. SumFunctionOnSet(g, T) = SumFunctionOnSet(f, T) + (g[h[x]] - f[h[x]])
      BY <2>2, <2>3, <2>5, SumChange
  <2>10. SumFunctionOnSet(g, T) = Cardinality(S)
      BY <2>4, <2>6, <2>7, <2>8, <2>9
  <2>11. QED
      BY <2>10 DEF g
<1>4. \A S \in SUBSET K : S \in C
  <2> HIDE DEF C
  <2> QED
    BY <1>2, <1>3, ByElement
<1>5. QED
    BY <1>4

-----------------------------------------------------------------------------
(* Folds over a sequence: FoldLeft, which takes its positions from the last *)

LEMMA MaxUpTo ==
    ASSUME NEW k \in Nat, NEW S \in SUBSET (1..k), S # {}
    PROVE  Max(S) \in S /\ \A j \in S : j <= Max(S)
<1>0. S \in SUBSET (0..k)
    OBVIOUS
<1>1. PICK m \in S : \A j \in S : j <= m
    BY <1>0, GreatestUpTo
<1>2. \A j \in S : m >= j
    BY <1>1
<1>3. \E x \in S : \A j \in S : x >= j
    BY <1>2
<1>4. Max(S) \in S /\ \A j \in S : Max(S) >= j
    BY <1>3 DEF Max
<1>5. QED
    BY <1>4

\* The positions up to k, and the last of them.
LEMMA MaxOfInterval ==
    ASSUME NEW k \in Nat, k # 0
    PROVE  1..k # {} /\ Max(1..k) = k /\ (1..k) \ {k} = 1..(k - 1)
<1>1. k \in 1..k /\ 1..k \in SUBSET (1..k)
    OBVIOUS
<1> DEFINE S == 1..k
<1>2. S \in SUBSET (1..k) /\ S # {} /\ k \in S
    BY <1>1
<1> HIDE DEF S
<1>3. Max(S) \in S /\ \A j \in S : j <= Max(S)
    BY <1>2, MaxUpTo
<1>4. Max(S) = k
  <2> DEFINE m == Max(S)
  <2>1. m \in 1..k /\ k <= m
      BY <1>2, <1>3
  <2> HIDE DEF m
  <2>2. m = k
      BY <2>1
  <2>3. QED
      BY <2>2 DEF m
<1>5. (1..k) \ {k} = 1..(k - 1)
    OBVIOUS
<1>6. QED
    BY <1>1, <1>4, <1>5 DEF S

\* How FoldLeft chooses among the positions up to n, and what its function does
\* with a value that op makes of a position and a value.
StepsOn(op, n, V) == op \in [(1..n) \X V -> V]

LastOf(n) == [S \in SUBSET (1..n) |-> Max(S)]

FoldsPositions(it, n, V, base, op) ==
    /\ it[{}] = base
    /\ \A S \in SUBSET (1..n) :
          S # {} /\ it[S \ {Max(S)}] \in V => it[S] = op[<<Max(S), it[S \ {Max(S)}]>>]

\* The values that a fold goes through, position by position.
Unrolls(g, n, V, base, op) ==
    /\ g \in [0..n -> V]
    /\ g[0] = base
    /\ \A k \in 1..n : g[k] = op[<<k, g[k - 1]>>]

GoesThrough(it, n, V, base, op) ==
    \E g : Unrolls(g, n, V, base, op) /\ it[1..n] = g[n]

LEMMA LastOfPicks ==
    ASSUME NEW n \in Nat
    PROVE  /\ IsFiniteSet(1..n) /\ Picks(LastOf(n), 1..n)
           /\ \A S \in SUBSET (1..n) : LastOf(n)[S] = Max(S)
<1>1. IsFiniteSet(1..n)
    BY FS_Interval
<1>2. \A S \in SUBSET (1..n) : LastOf(n)[S] = Max(S)
    BY DEF LastOf
<1>3. ASSUME NEW S \in SUBSET (1..n), S # {} PROVE Max(S) \in S
    BY <1>3, MaxUpTo
<1>4. QED
    BY <1>1, <1>2, <1>3 DEF Picks

\* A function that folds the positions exists ...
IsFold(it, n, V, base, op) ==
    /\ it \in [SUBSET (1..n) -> V]
    /\ it = [S \in SUBSET (1..n) |-> IF S = {} THEN base ELSE op[<<Max(S), it[S \ {Max(S)}]>>]]

LEMMA FoldExists ==
    ASSUME NEW n \in Nat, NEW V, NEW base \in V, NEW op, StepsOn(op, n, V)
    PROVE  \E it : IsFold(it, n, V, base, op)
<1>0. op \in [(1..n) \X V -> V]
    BY DEF StepsOn
<1>1. PICK it \in [SUBSET (1..n) -> V] : FoldsSubsets(it, 1..n, base, LastOf(n), op)
    BY <1>0, LastOfPicks, RecursionOnSubsets
<1>2. ASSUME NEW S \in SUBSET (1..n)
      PROVE  it[S] = IF S = {} THEN base ELSE op[<<Max(S), it[S \ {Max(S)}]>>]
    BY <1>1, LastOfPicks DEF FoldsSubsets
<1>3. QED
    BY <1>1, <1>2 DEF IsFold

\* ... and whatever folds them goes through its values from the first position on.
LEMMA FoldUnrolls ==
    ASSUME NEW n \in Nat, NEW V, NEW base \in V, NEW op, StepsOn(op, n, V),
           NEW it, FoldsPositions(it, n, V, base, op)
    PROVE  GoesThrough(it, n, V, base, op)
<1>0. op \in [(1..n) \X V -> V]
    BY DEF StepsOn
<1> DEFINE T == 1..n
           C == {S \in SUBSET T : it[S] \in V}
<1>1. IsFiniteSet(T)
    BY LastOfPicks
<1>2. {} \in C
    BY DEF FoldsPositions
<1>3. ASSUME NEW S \in SUBSET T, S # {}, \A x \in S : S \ {x} \in C PROVE S \in C
  <2>1. Max(S) \in S
      BY <1>3, MaxUpTo
  <2>2. it[S \ {Max(S)}] \in V /\ Max(S) \in 1..n
      BY <1>3, <2>1
  <2>3. it[S] = op[<<Max(S), it[S \ {Max(S)}]>>]
      BY <1>3, <2>2 DEF FoldsPositions
  <2>4. QED
      BY <1>0, <2>2, <2>3
<1>4. \A S \in SUBSET T : S \in C
  <2> HIDE DEF C, T
  <2> QED
    BY <1>1, <1>2, <1>3, ByElement
<1> DEFINE g == [k \in 0..n |-> it[1..k]]
<1>5. \A k \in 0..n : 1..k \in SUBSET T /\ g[k] = it[1..k] /\ g[k] \in V
    BY <1>4
<1>6. g[0] = base
  <2>1. 1..0 = {}
      OBVIOUS
  <2>2. QED
      BY <2>1 DEF FoldsPositions
<1>7. ASSUME NEW k \in 1..n PROVE g[k] = op[<<k, g[k - 1]>>]
  <2>0. k \in Nat /\ k # 0
      OBVIOUS
  <2>1. 1..k # {} /\ Max(1..k) = k /\ (1..k) \ {k} = 1..(k - 1)
      BY <2>0, MaxOfInterval
  <2>2. k - 1 \in 0..n /\ k \in 0..n
      OBVIOUS
  <2>3. it[(1..k) \ {Max(1..k)}] \in V /\ 1..k \in SUBSET (1..n)
      BY <1>5, <2>1, <2>2
  <2>4. it[1..k] = op[<<Max(1..k), it[(1..k) \ {Max(1..k)}]>>]
      BY <2>1, <2>3 DEF FoldsPositions
  <2>5. QED
      BY <1>5, <2>1, <2>2, <2>4
<1>8. g \in [0..n -> V] /\ n \in 0..n
    BY <1>5
<1> HIDE DEF g
<1>9. QED
    BY <1>5, <1>6, <1>7, <1>8 DEF Unrolls, GoesThrough

-----------------------------------------------------------------------------
(* Channels: what a send and a receive do to a sequence *)

LEMMA AppendParts ==
    ASSUME NEW S, NEW a \in Seq(S), NEW r \in S
    PROVE  /\ Append(a, r) \in Seq(S) /\ Len(a) \in Nat /\ DOMAIN a = 1..Len(a)
           /\ Len(Append(a, r)) = Len(a) + 1 /\ DOMAIN Append(a, r) = 1..(Len(a) + 1)
           /\ \A k \in 1..Len(a) : Append(a, r)[k] = a[k]
           /\ Append(a, r)[Len(a) + 1] = r
           /\ Range(Append(a, r)) = Range(a) \cup {r}
<1> DEFINE n == Len(a)
           c == Append(a, r)
<1>1. /\ c \in Seq(S) /\ n \in Nat /\ DOMAIN a = 1..n /\ Len(c) = n + 1 /\ DOMAIN c = 1..(n + 1)
      /\ \A k \in 1..n : c[k] = a[k]
      /\ c[n + 1] = r
    OBVIOUS
<1> HIDE DEF n, c
<1>2. Range(c) = Range(a) \cup {r}
  <2>1. Range(c) = {c[k] : k \in 1..(n + 1)} /\ Range(a) = {a[k] : k \in 1..n}
      BY <1>1 DEF Range
  <2>2. 1..(n + 1) = (1..n) \cup {n + 1}
      BY <1>1
  <2>3. QED
      BY <1>1, <2>1, <2>2
<1>3. QED
    BY <1>1, <1>2 DEF n, c

LEMMA TailParts ==
    ASSUME NEW S, NEW a \in Seq(S), a # <<>>
    PROVE  /\ Len(a) \in Nat \ {0} /\ DOMAIN a = 1..Len(a) /\ Head(a) = a[1] /\ a[1] \in S
           /\ Tail(a) \in Seq(S) /\ DOMAIN Tail(a) = 1..(Len(a) - 1) /\ Len(Tail(a)) = Len(a) - 1
           /\ \A k \in 1..(Len(a) - 1) : Tail(a)[k] = a[k + 1]
           /\ Range(a) = {a[1]} \cup Range(Tail(a))
<1> DEFINE n == Len(a)
           c == Tail(a)
<1>1. /\ n \in Nat \ {0} /\ DOMAIN a = 1..n /\ Head(a) = a[1]
      /\ c \in Seq(S) /\ Len(c) = n - 1 /\ DOMAIN c = 1..(n - 1)
      /\ \A k \in 1..(n - 1) : c[k] = a[k + 1]
    OBVIOUS
<1>2. a[1] \in S
    BY <1>1
<1> HIDE DEF n, c
<1>3. Range(a) = {a[1]} \cup Range(c)
  <2>1. ASSUME NEW k \in 1..n PROVE a[k] = a[1] \/ \E j \in 1..(n - 1) : c[j] = a[k]
    <3>1. k = 1 \/ (k - 1 \in 1..(n - 1) /\ (k - 1) + 1 = k)
        BY <1>1
    <3>2. QED
        BY <1>1, <3>1
  <2>2. ASSUME NEW j \in 1..(n - 1) PROVE j + 1 \in 1..n /\ c[j] = a[j + 1]
      BY <1>1
  <2>3. 1 \in 1..n
      BY <1>1
  <2>4. /\ \A x \in Range(a) : \E k \in 1..n : x = a[k]
        /\ \A k \in 1..n : a[k] \in Range(a)
        /\ \A x \in Range(c) : \E k \in 1..(n - 1) : x = c[k]
        /\ \A k \in 1..(n - 1) : c[k] \in Range(c)
      BY <1>1 DEF Range
  <2>5. Range(a) \subseteq {a[1]} \cup Range(c)
      BY <2>1, <2>4
  <2>6. {a[1]} \cup Range(c) \subseteq Range(a)
      BY <2>2, <2>3, <2>4
  <2>7. QED
      BY <2>5, <2>6
<1>4. QED
    BY <1>1, <1>2, <1>3 DEF n, c

-----------------------------------------------------------------------------
(* The rounds table (RoundJournal) *)

\* SELECT ... ORDER BY id LIMIT 1 on a set of rows returns its first row.
LEMMA FirstRowIsLeast ==
    ASSUME NEW S \in SUBSET Nat, S # {}
    PROVE  /\ FirstRow(S) \in S
           /\ \A j \in S : FirstRow(S) <= j
BY LeastOfNats DEF FirstRow

\* get_last_finished_round returns a finished row, and no finished row is
\* newer: it is well defined as long as some row is finished.
THEOREM LastFinishedIsGreatest ==
    ASSUME NEW rs \in Seq(Row), FinishedRows(rs) # {}
    PROVE  /\ LastFinished(rs) \in FinishedRows(rs)
           /\ \A j \in FinishedRows(rs) : j <= LastFinished(rs)
<1>1. FinishedRows(rs) \in SUBSET (0..Len(rs))
    BY DEF FinishedRows
<1>2. Len(rs) \in Nat
    OBVIOUS
<1>3. \E m \in FinishedRows(rs) : \A j \in FinishedRows(rs) : j <= m
    BY <1>1, <1>2, GreatestUpTo
<1>4. QED
    BY <1>3 DEF LastFinished

\* It is the only such row.
LEMMA LastFinishedUnique ==
    ASSUME NEW rs \in Seq(Row), NEW m \in FinishedRows(rs),
           \A j \in FinishedRows(rs) : j <= m
    PROVE  LastFinished(rs) = m
<1>1. /\ LastFinished(rs) \in FinishedRows(rs)
      /\ \A j \in FinishedRows(rs) : j <= LastFinished(rs)
    BY LastFinishedIsGreatest
<1>2. FinishedRows(rs) \subseteq Nat
    BY DEF FinishedRows
<1>3. QED
    BY <1>1, <1>2

\* mark_round_as_finished adds its row to the finished ones and changes
\* nothing else.
LEMMA MarkFinishedRows ==
    ASSUME NEW rs \in Seq(Row), NEW i \in DOMAIN rs
    PROVE  /\ MarkFinished(rs, i) \in Seq(Row)
           /\ DOMAIN MarkFinished(rs, i) = DOMAIN rs
           /\ Len(MarkFinished(rs, i)) = Len(rs)
           /\ \A j \in DOMAIN rs : MarkFinished(rs, i)[j].number = rs[j].number
           /\ \A j \in DOMAIN rs : MarkFinished(rs, i)[j].finished <=> (rs[j].finished \/ j = i)
           /\ FinishedRows(MarkFinished(rs, i)) = FinishedRows(rs) \cup {i}
<1>1. rs[i] \in Row
    OBVIOUS
<1>2. [rs[i] EXCEPT !.finished = TRUE] \in Row
    BY <1>1 DEF Row
<1>3. MarkFinished(rs, i) = [rs EXCEPT ![i] = [rs[i] EXCEPT !.finished = TRUE]]
    BY DEF MarkFinished
<1>4. /\ MarkFinished(rs, i) \in Seq(Row)
      /\ DOMAIN MarkFinished(rs, i) = DOMAIN rs
      /\ Len(MarkFinished(rs, i)) = Len(rs)
    BY <1>2, <1>3, ExceptSeq
<1>5. \A j \in DOMAIN rs : MarkFinished(rs, i)[j].number = rs[j].number
    BY <1>1, <1>3 DEF Row
<1>6. \A j \in DOMAIN rs : MarkFinished(rs, i)[j].finished <=> (rs[j].finished \/ j = i)
    BY <1>1, <1>3 DEF Row
<1>7. FinishedRows(MarkFinished(rs, i)) = FinishedRows(rs) \cup {i}
    BY <1>4, <1>6 DEF FinishedRows
<1>8. QED
    BY <1>4, <1>5, <1>6, <1>7

\* start_new_round adds one unfinished row with the number after the last
\* finished one; all the other rows keep their place and their contents.
THEOREM StartNewRoundRows ==
    ASSUME NEW rs \in Seq(Row), FinishedRows(rs) # {}
    PROVE  /\ StartNewRound(rs) \in Seq(Row)
           /\ Len(StartNewRound(rs)) = Len(rs) + 1
           /\ DOMAIN StartNewRound(rs) = DOMAIN rs \cup {Len(rs) + 1}
           /\ \A j \in DOMAIN rs : StartNewRound(rs)[j] = rs[j]
           /\ ~StartNewRound(rs)[Len(rs) + 1].finished
           /\ StartNewRound(rs)[Len(rs) + 1].number = rs[LastFinished(rs)].number + 1
           /\ FinishedRows(StartNewRound(rs)) = FinishedRows(rs)
<1> DEFINE new == [number |-> rs[LastFinished(rs)].number + 1, finished |-> FALSE]
<1>1. LastFinished(rs) \in DOMAIN rs
    BY LastFinishedIsGreatest DEF FinishedRows
<1>2. new \in Row
  <2>1. rs[LastFinished(rs)] \in Row
      BY <1>1
  <2>2. rs[LastFinished(rs)].number + 1 \in Nat
      BY <2>1 DEF Row
  <2>3. QED
      BY <2>2 DEF Row
<1>3. StartNewRound(rs) = Append(rs, new)
    BY DEF StartNewRound
<1>4. /\ StartNewRound(rs) \in Seq(Row)
      /\ Len(StartNewRound(rs)) = Len(rs) + 1
      /\ DOMAIN StartNewRound(rs) = DOMAIN rs \cup {Len(rs) + 1}
      /\ \A j \in DOMAIN rs : StartNewRound(rs)[j] = rs[j]
      /\ StartNewRound(rs)[Len(rs) + 1] = new
    BY <1>2, <1>3
<1>5. FinishedRows(StartNewRound(rs)) = FinishedRows(rs)
    BY <1>4 DEF FinishedRows
<1>6. QED
    BY <1>4, <1>5

-----------------------------------------------------------------------------
(* The rule of should_update (StateMerge): merging is taking the maximum, hence
   the order in which observations of a round are merged does not matter and one
   of them may be merged twice.  The journal, the map and the scorebot rely on it:
   each sees its own order. *)

\* should_update, in spite of its case for Up, is <= on the numbers of the
\* states (service.rs should_update).
THEOREM ShouldUpdateIsOrder ==
    ASSUME NEW p \in State, NEW n \in State
    PROVE  ShouldUpdate(p, n) <=> p <= n
  BY DEF ShouldUpdate, State, Unknown, Up

\* The recorded state is the worse of the two (service.rs should_update, at
\* each of its call sites).
LEMMA MergeIsMax ==
    ASSUME NEW p \in State, NEW n \in State
    PROVE  Merge(p, n) = IF p <= n THEN n ELSE p
  BY ShouldUpdateIsOrder DEF Merge

\* Merging stays within the states and never improves the recorded one: what
\* the map shows for a round can only worsen (game.rs update_service_state_map).
THEOREM MergeOnlyWorsens ==
    ASSUME NEW p \in State, NEW n \in State
    PROVE  Merge(p, n) \in State /\ p <= Merge(p, n) /\ n <= Merge(p, n)
  BY MergeIsMax DEF State

\* Two observations may be merged in either order, and one of them twice: the
\* copies of a round's state agree although concurrent tasks pass each other
\* between journal, map and scorebot (game.rs update_service_state).
THEOREM MergeIsOrderInsensitive ==
    ASSUME NEW p \in State, NEW m \in State, NEW n \in State
    PROVE  /\ Merge(Merge(p, m), n) = Merge(Merge(p, n), m)
           /\ Merge(Merge(p, n), n) = Merge(p, n)
  <1>1. Merge(p, m) \in State /\ Merge(p, n) \in State
    BY MergeOnlyWorsens
  <1>2. /\ Merge(Merge(p, m), n) = IF Merge(p, m) <= n THEN n ELSE Merge(p, m)
        /\ Merge(Merge(p, n), m) = IF Merge(p, n) <= m THEN m ELSE Merge(p, n)
        /\ Merge(Merge(p, n), n) = IF Merge(p, n) <= n THEN n ELSE Merge(p, n)
    BY <1>1, MergeIsMax
  <1>3. Merge(p, m) = (IF p <= m THEN m ELSE p) /\ Merge(p, n) = (IF p <= n THEN n ELSE p)
    BY MergeIsMax
  <1>4. QED
    BY <1>2, <1>3 DEF State

-----------------------------------------------------------------------------
(* Folds of observations (StateMerge, CheckFlags) *)

\* A set enumerated in some order.
LEMMA EnumerationOfSet ==
    ASSUME NEW S, IsFiniteSet(S)
    PROVE  /\ SetToSeq(S) \in Seq(S)
           /\ Len(SetToSeq(S)) = Cardinality(S)
<1> DEFINE n == Cardinality(S)
<1>1. n \in Nat /\ ExistsBijection(1..n, S)
    BY FS_CardinalityType
<1>2. PICK f : f \in Bijection(1..n, S)
    BY <1>1 DEF ExistsBijection
<1>3. f \in [1..n -> S] /\ IsInjective(f)
    BY <1>2 DEF Bijection, Injection, IsInjective
<1>4. SetToSeq(S) \in [1..n -> S]
    BY <1>3 DEF SetToSeq
<1> HIDE DEF n
<1>5. SetToSeq(S) \in Seq(S) /\ Len(SetToSeq(S)) = n
    BY <1>1, <1>4
<1>6. QED
    BY <1>5 DEF n

\* Answers that are merged into Unknown amount to a state (game.rs check_flags).
LEMMA StatusIsState ==
    ASSUME NEW answers \in Seq(State)
    PROVE  StatusOf(answers) \in State
<1> DEFINE n == Len(answers)
           V == State
           op == [p \in (1..n) \X V |-> Merge(p[2], answers[p[1]])]
           Form(it) == it = [S \in SUBSET (1..n) |->
                                IF S = {} THEN Unknown
                                ELSE Merge(it[S \ {Max(S)}], answers[Max(S)])]
           kt == CHOOSE it : Form(it)
<1>1. n \in Nat /\ Unknown \in V /\ DOMAIN answers = 1..n
    BY DEF Unknown, State
<1>2. ASSUME NEW i \in 1..n, NEW v \in V
      PROVE  op[<<i, v>>] = Merge(v, answers[i]) /\ op[<<i, v>>] \in V
    BY MergeOnlyWorsens
<1>3. StepsOn(op, n, V)
    BY MergeOnlyWorsens DEF StepsOn
<1>4. StatusOf(answers) = kt[1..n]
    BY <1>1 DEF StatusOf, Fold, FoldLeft, MapThenFoldSet
<1> HIDE DEF op, V
<1>5. Form(kt)
  <2>1. PICK it : IsFold(it, n, V, Unknown, op)
    <3> HIDE DEF n, Form, kt
    <3>1. QED
        BY <1>1, <1>3, FoldExists
  <2>2. ASSUME NEW S \in SUBSET (1..n), S # {}
        PROVE  op[<<Max(S), it[S \ {Max(S)}]>>] = Merge(it[S \ {Max(S)}], answers[Max(S)])
    <3>1. Max(S) \in 1..n
        BY <1>1, <2>2, MaxUpTo
    <3>2. it[S \ {Max(S)}] \in V
        BY <2>1 DEF IsFold
    <3>3. QED
        BY <1>2, <3>1, <3>2
  <2>3. Form(it)
      BY <2>1, <2>2 DEF IsFold
  <2> HIDE DEF Form
  <2>4. QED
      BY <2>3
<1>6. FoldsPositions(kt, n, V, Unknown, op)
  <2>1. kt[{}] = Unknown
      BY <1>5
  <2>2. ASSUME NEW S \in SUBSET (1..n), S # {}, kt[S \ {Max(S)}] \in V
        PROVE  kt[S] = op[<<Max(S), kt[S \ {Max(S)}]>>]
    <3>1. Max(S) \in 1..n
        BY <1>1, <2>2, MaxUpTo
    <3>2. kt[S] = Merge(kt[S \ {Max(S)}], answers[Max(S)])
        BY <1>5, <2>2
    <3>3. QED
        BY <1>2, <2>2, <3>1, <3>2
  <2>3. QED
      BY <2>1, <2>2 DEF FoldsPositions
<1> HIDE DEF kt, Form, n
<1>7. PICK g : Unrolls(g, n, V, Unknown, op) /\ kt[1..n] = g[n]
  <2>1. GoesThrough(kt, n, V, Unknown, op)
      BY <1>1, <1>3, <1>6, FoldUnrolls
  <2>2. QED
      BY <2>1 DEF GoesThrough
<1>8. g[n] \in V
    BY <1>1, <1>7 DEF Unrolls
<1>9. QED
    BY <1>4, <1>7, <1>8 DEF V

\* So does the verdict on a nonempty set of rounds: that of the newest one, or
\* Recovering.
LEMMA VerdictIsState ==
    ASSUME NEW n \in Nat, NEW rows \in SUBSET (0..n), rows # {},
           NEW status \in [rows -> State], NEW flagLife
    PROVE  Verdict(status, flagLife) \in State
<1> DEFINE last == CHOOSE i \in rows : \A j \in rows : j <= i
<1>1. last \in rows
    BY GreatestUpTo
<1>2. status[last] \in State /\ DOMAIN status = rows
    BY <1>1
<1>3. Verdict(status, flagLife) \in {status[last], Up, Recovering}
    BY <1>2 DEF Verdict
<1> HIDE DEF last
<1>4. QED
    BY <1>2, <1>3 DEF State, Up, Recovering

-----------------------------------------------------------------------------
(* The spacing of the checks, for rounds of every length (CheckTiming) *)

\* The buffer is a fifth of the round, rounded up (game.rs:631-633).
LEMMA BufferBounds ==
    ASSUME NEW D \in Nat
    PROVE  Buffer(D) \in Nat /\ 5 * Buffer(D) >= D /\ 5 * Buffer(D) <= D + 4
BY DEF Buffer

LEMMA Half ==
    ASSUME NEW n \in Nat
    PROVE  n \div 2 \in Nat /\ 2 * (n \div 2) <= n /\ n <= 2 * (n \div 2) + 1
OBVIOUS

\* In a round of four seconds or more neither of the two jitters is taken modulo
\* zero, whatever the first one was, and no duration is negative (game.rs:688-706).
THEOREM JittersExist ==
    ASSUME NEW D \in Nat, D >= 4
    PROVE  /\ FirstJitters(D) # {}
           /\ \A j \in FirstJitters(D) : SecondJitters(D, j) # {} /\ j <= TimeLeft(D)
           /\ SweepJitters(D) # {}
<1> DEFINE B == Buffer(D)
           T == TimeLeft(D)
<1>1. B \in Nat /\ 5 * B <= D + 4
  BY BufferBounds
<1>2. T = D - 2 * B
  BY DEF TimeLeft
<1> HIDE DEF B, T
<1>3. D - B \in Nat /\ D - B >= 1 /\ T \in Nat /\ T >= 2
  BY <1>1, <1>2
<1>4. T \div 2 \in Nat /\ T \div 2 >= 1 /\ 2 * (T \div 2) <= T
  <2>1. T \div 2 \in Nat /\ 2 * (T \div 2) <= T /\ T <= 2 * (T \div 2) + 1
    BY <1>3, Half
  <2> QED
    BY <1>3, <2>1
<1>5. 0 \in FirstJitters(D)
  <2>1. 0 \in Modulo(T \div 2)
    BY <1>4 DEF Modulo
  <2> QED
    BY <2>1 DEF FirstJitters, T
<1>6. ASSUME NEW j \in FirstJitters(D)
      PROVE  SecondJitters(D, j) # {} /\ j <= TimeLeft(D)
  <2>1. j \in Nat /\ j < T \div 2
    BY DEF FirstJitters, Modulo, T
  <2> DEFINE n == T - j
  <2>2. n \in Nat /\ n >= 2 /\ j <= T
    BY <1>3, <1>4, <2>1
  <2> HIDE DEF n
  <2>3. n \div 2 \in Nat /\ n <= 2 * (n \div 2) + 1
    BY <2>2, Half
  <2>4. n \div 2 >= 1
    BY <2>2, <2>3
  <2>5. 0 \in Modulo(n \div 2)
    BY <2>3, <2>4 DEF Modulo
  <2> QED
    BY <2>2, <2>5 DEF SecondJitters, n, T
<1>7. 0 \in SweepJitters(D)
  <2>1. 0 \in Modulo(D - B)
    BY <1>3 DEF Modulo
  <2> QED
    BY <2>1 DEF SweepJitters, B
<1> QED
  BY <1>5, <1>6, <1>7

\* A checker has the buffer to itself after the start of the round and between
\* the two checks, and both are sent within the round: after the second one
\* there are left, in a round of D seconds with a buffer of B, at least
\* (D - 2B) / 4 + 3 / 2 seconds, which for a round of two minutes are 20 where the
\* buffer is 24 (game.rs:686, 631, 271).
THEOREM ChecksAreSpaced ==
    ASSUME NEW D \in Nat, D >= 4,
           NEW j \in FirstJitters(D), NEW k \in SecondJitters(D, j)
    PROVE  /\ FirstCheck(D, j) >= Buffer(D)
           /\ SecondCheck(D, j, k) >= FirstCheck(D, j) + Buffer(D)
           /\ 4 * (D - SecondCheck(D, j, k)) >= TimeLeft(D) + 6
<1> DEFINE B == Buffer(D)
           T == TimeLeft(D)
<1>1. B \in Nat /\ T \in Nat /\ T = D - 2 * B
  <2>1. B \in Nat /\ 5 * B <= D + 4
    BY BufferBounds
  <2>2. T = D - 2 * B
    BY DEF TimeLeft
  <2> HIDE DEF B, T
  <2> QED
    BY <2>1, <2>2
<1>2. j \in Nat /\ j + 1 <= T \div 2 /\ k \in Nat /\ k + 1 <= (T - j) \div 2
  <2>1. T \div 2 \in Int
    BY <1>1, Half
  <2>2. j \in Nat /\ j < T \div 2 /\ k \in Nat /\ k < (T - j) \div 2
    BY DEF FirstJitters, SecondJitters, Modulo
  <2>3. (T - j) \div 2 \in Int
    BY <1>1, <2>2
  <2> QED
    BY <2>1, <2>2, <2>3
<1> HIDE DEF T
<1>3. 2 * (j + 1) <= T
  BY <1>1, <1>2, Half
<1>4. T - j \in Nat
  BY <1>1, <1>2, <1>3
<1>5. 2 * (k + 1) <= T - j
  <2> DEFINE n == T - j
  <2>1. n \in Nat
    BY <1>4
  <2>2. n \div 2 \in Nat /\ 2 * (n \div 2) <= n /\ k + 1 <= n \div 2
    <3> HIDE DEF n
    <3>1. n \div 2 \in Nat /\ 2 * (n \div 2) <= n
      BY <2>1, Half
    <3> QED
      BY <1>2, <3>1 DEF n
  <2> HIDE DEF n
  <2>3. 2 * (k + 1) <= n
    BY <1>2, <2>1, <2>2
  <2> QED
    BY <2>3 DEF n
<1> HIDE DEF B
<1>6. FirstCheck(D, j) = B + j /\ SecondCheck(D, j, k) = B + j + B + k
  BY DEF FirstCheck, SecondCheck, B
<1>7. /\ B + j >= B
      /\ B + j + B + k >= (B + j) + B
      /\ 4 * (D - (B + j + B + k)) >= T + 6
  BY <1>1, <1>2, <1>3, <1>5
<1> QED
  BY <1>6, <1>7 DEF B, T
=============================================================================
