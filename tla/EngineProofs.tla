---------------------------- MODULE EngineProofs ----------------------------
(***************************************************************************)
(* The accelerator computes the three layers of its model on every image,  *)
(* for every size, number of channels and lanes.                           *)
(*                                                                         *)
(* First come facts about sums: total folds the values of a function over  *)
(* its domain, in an order of its own, and the sum is the same in every    *)
(* order (FoldTake), over other indices (FoldImage) and lane by lane       *)
(* (FoldLanes).  Then the arithmetic of one product and one accumulator,   *)
(* and with both, that a value of the engine is the value of the reference *)
(* (ConvolveIsReference).  EngineInv says what the two-row buffers and the *)
(* maps hold while the layers run.                                         *)
(***************************************************************************)
EXTENDS ClassifierEngine, EngineOperands, FiniteSetTheorems, WellFoundedInduction, TLAPS

(* A non-empty set of natural numbers has a first one. *)
LEMMA FirstOf ==
    ASSUME NEW T \in SUBSET Nat, T # {}
    PROVE  \E x \in T : \A y \in T : x <= y
<1> DEFINE before == {ss \in Nat \X Nat : ss[1] < ss[2]}
<1>1. IsWellFoundedOn(before, Nat)
  BY NatLessThanWellFounded DEF OpToRel
<1>2. PICK x \in T : \A y \in T : ~(<<y, x>> \in before)
  <2> HIDE DEF before
  <2> QED BY <1>1, WFMin
<1>3. \A y \in T : ~(y < x)
  BY <1>2
<1> QED BY <1>3

(* What holds of a set once it holds of the set without any one of its     *)
(* elements, holds of all subsets of a finite set.  The subsets it holds   *)
(* of are a set P here, not an operator.                                   *)
LEMMA SubsetInduction ==
    ASSUME NEW D, IsFiniteSet(D), NEW P \in SUBSET SUBSET D,
           \A s \in SUBSET D : (\A x \in s : s \ {x} \in P) => s \in P
    PROVE  P = SUBSET D
<1> DEFINE T == {Cardinality(s) : s \in (SUBSET D) \ P}
<1>1. SUFFICES ASSUME (SUBSET D) \ P # {} PROVE FALSE
  OBVIOUS
<1>2. \A s \in SUBSET D : IsFiniteSet(s) /\ Cardinality(s) \in Nat
  BY FS_Subset, FS_CardinalityType
<1>3. T \in SUBSET Nat /\ T # {}
  BY <1>1, <1>2
<1>4. PICK n \in T : \A m \in T : n <= m
  <2> HIDE DEF T
  <2> QED BY <1>3, FirstOf
<1>5. PICK s \in (SUBSET D) \ P : Cardinality(s) = n
  BY <1>4
<1>6. ASSUME NEW x \in s PROVE s \ {x} \in P
  <2>1. s \ {x} \in SUBSET D
    OBVIOUS
  <2>2. Cardinality(s \ {x}) = Cardinality(s) - 1
    BY <1>2, FS_RemoveElement
  <2>3. Cardinality(s \ {x}) < n
    BY <1>2, <1>5, <2>2
  <2> QED BY <1>2, <1>4, <1>5, <2>1, <2>3
<1> QED BY <1>5, <1>6

-----------------------------------------------------------------------------
(* Powers of two, which pow2 doubles up to.  doubled(f, n): f is the       *)
(* function pow2(n) chooses.                                               *)
doubled(f, n) == f = [k \in 0 .. n |-> IF k = 0 THEN 1 ELSE 2 * f[k - 1]]

LEMMA DoubledExists ==
    ASSUME NEW n \in Nat PROVE \E f : doubled(f, n)
<1> DEFINE T == {k \in Nat : ~\E f : doubled(f, k)}
<1>1. SUFFICES ASSUME T # {} PROVE FALSE
  OBVIOUS
<1>2. PICK m \in T : \A k \in T : m <= k
  <2>1. T \in SUBSET Nat
    OBVIOUS
  <2> HIDE DEF T
  <2> QED BY <1>1, <2>1, FirstOf
<1>3. m \in Nat /\ ~\E f : doubled(f, m)
  OBVIOUS
<1>4. CASE m = 0
  <2> DEFINE h == [k \in 0 .. m |-> 1]
  <2>1. doubled(h, m)
    BY <1>4 DEF doubled
  <2> QED BY <1>3, <2>1
<1>5. CASE m # 0
  <2>1. m - 1 \in Nat /\ ~(m <= m - 1)
    BY <1>3, <1>5
  <2>2. PICK f : doubled(f, m - 1)
    <3>1. m - 1 \notin T
      <4> HIDE DEF T
      <4> QED BY <1>2, <2>1
    <3> QED BY <2>1, <3>1
  <2> DEFINE h == [k \in 0 .. m |-> IF k = 0 THEN 1 ELSE 2 * f[k - 1]]
  <2>3. \A k \in 0 .. m - 1 : h[k] = f[k]
    BY <1>3, <2>2 DEF doubled
  <2>4. \A k \in 0 .. m : k # 0 => k - 1 \in 0 .. m - 1
    BY <1>3
  <2>5. \A k \in 0 .. m : h[k] = IF k = 0 THEN 1 ELSE 2 * h[k - 1]
    <3>1. \A k \in 0 .. m : h[k] = IF k = 0 THEN 1 ELSE 2 * f[k - 1]
      OBVIOUS
    <3> HIDE DEF h
    <3> QED BY <2>3, <2>4, <3>1
  <2>6. h = [k \in 0 .. m |-> h[k]]
    OBVIOUS
  <2>7. doubled(h, m)
    <3> HIDE DEF h
    <3> QED BY <2>5, <2>6 DEF doubled
  <2> QED BY <1>3, <2>7
<1> QED BY <1>4, <1>5

LEMMA DoubledAgree ==
    ASSUME NEW m \in Nat, NEW n \in Nat, NEW f, doubled(f, m), NEW g, doubled(g, n),
           NEW k \in Nat, k <= m, k <= n
    PROVE  f[k] = g[k]
<1> DEFINE T == {j \in Nat : j <= m /\ j <= n /\ f[j] # g[j]}
<1>1. SUFFICES ASSUME T # {} PROVE FALSE
  OBVIOUS
<1>2. PICK j \in T : \A i \in T : j <= i
  <2>1. T \in SUBSET Nat
    OBVIOUS
  <2> HIDE DEF T
  <2> QED BY <1>1, <2>1, FirstOf
<1>3. j \in Nat /\ j <= m /\ j <= n /\ f[j] # g[j]
  OBVIOUS
<1>4. j \in 0 .. m /\ j \in 0 .. n
  BY <1>3
<1>5. /\ f[j] = IF j = 0 THEN 1 ELSE 2 * f[j - 1]
      /\ g[j] = IF j = 0 THEN 1 ELSE 2 * g[j - 1]
  <2> HIDE DEF T
  <2> QED BY <1>4 DEF doubled
<1>6. j # 0 => f[j - 1] = g[j - 1]
  <2>1. j # 0 => j - 1 \in Nat /\ j - 1 <= m /\ j - 1 <= n /\ ~(j <= j - 1)
    BY <1>3
  <2>2. j # 0 => j - 1 \notin T
    <3> HIDE DEF T
    <3> QED BY <1>2, <2>1
  <2> QED BY <2>1, <2>2
<1> QED BY <1>3, <1>5, <1>6

LEMMA Pow2IsDoubled ==
    ASSUME NEW n \in Nat
    PROVE  \E f : doubled(f, n) /\ pow2(n) = f[n]
<1> DEFINE f == CHOOSE g : doubled(g, n)
<1>1. doubled(f, n)
  BY DoubledExists
<1>2. pow2(n) = f[n]
  BY DEF pow2, doubled
<1> HIDE DEF f
<1> QED BY <1>1, <1>2

(* Powers of two double, are positive and grow. *)
LEMMA Pow2Step ==
    /\ pow2(0) = 1
    /\ \A n \in Nat : pow2(n + 1) = 2 * pow2(n)
<1>1. pow2(0) = 1
  <2>1. PICK f : doubled(f, 0) /\ pow2(0) = f[0]
    BY Pow2IsDoubled
  <2> QED BY <2>1 DEF doubled
<1>2. ASSUME NEW n \in Nat PROVE pow2(n + 1) = 2 * pow2(n)
  <2>1. n + 1 \in Nat /\ n + 1 \in 0 .. n + 1 /\ n + 1 # 0 /\ (n + 1) - 1 = n
    OBVIOUS
  <2>2. PICK f : doubled(f, n) /\ pow2(n) = f[n]
    BY Pow2IsDoubled
  <2>3. PICK g : doubled(g, n + 1) /\ pow2(n + 1) = g[n + 1]
    BY <2>1, Pow2IsDoubled
  <2>4. g[n + 1] = 2 * g[n]
    BY <2>1, <2>3 DEF doubled
  <2>5. g[n] = f[n]
    <3>1. n <= n /\ n <= n + 1
      OBVIOUS
    <3> QED BY <2>1, <2>2, <2>3, <3>1, DoubledAgree
  <2> QED BY <2>2, <2>3, <2>4, <2>5
<1> QED BY <1>1, <1>2

LEMMA Pow2Positive ==
    ASSUME NEW n \in Nat PROVE pow2(n) \in Nat /\ pow2(n) > 0
<1> DEFINE T == {k \in Nat : ~(pow2(k) \in Nat /\ pow2(k) > 0)}
<1>1. SUFFICES ASSUME T # {} PROVE FALSE
  OBVIOUS
<1>2. PICK m \in T : \A k \in T : m <= k
  <2>1. T \in SUBSET Nat
    OBVIOUS
  <2> HIDE DEF T
  <2> QED BY <1>1, <2>1, FirstOf
<1>3. m \in Nat /\ ~(pow2(m) \in Nat /\ pow2(m) > 0)
  OBVIOUS
<1>4. m # 0
  BY <1>3, Pow2Step
<1>5. m - 1 \in Nat /\ ~(m <= m - 1) /\ (m - 1) + 1 = m
  BY <1>3, <1>4
<1>6. pow2(m - 1) \in Nat /\ pow2(m - 1) > 0
  <2>1. m - 1 \notin T
    <3> HIDE DEF T
    <3> QED BY <1>2, <1>5
  <2> QED BY <1>5, <2>1
<1>7. pow2(m) = 2 * pow2(m - 1)
  BY <1>5, Pow2Step
<1> QED BY <1>3, <1>6, <1>7

LEMMA Pow2Grows ==
    ASSUME NEW m \in Nat, NEW n \in Nat, m <= n PROVE pow2(m) <= pow2(n)
<1> DEFINE T == {k \in Nat : m <= k /\ ~(pow2(m) <= pow2(k))}
<1>1. SUFFICES ASSUME T # {} PROVE FALSE
  OBVIOUS
<1>2. PICK h \in T : \A k \in T : h <= k
  <2>1. T \in SUBSET Nat
    OBVIOUS
  <2> HIDE DEF T
  <2> QED BY <1>1, <2>1, FirstOf
<1>3. h \in Nat /\ m <= h /\ ~(pow2(m) <= pow2(h))
  OBVIOUS
<1>4. h # m
  BY <1>3, Pow2Positive
<1>5. h - 1 \in Nat /\ m <= h - 1 /\ ~(h <= h - 1) /\ (h - 1) + 1 = h
  BY <1>3, <1>4
<1>6. pow2(m) <= pow2(h - 1)
  <2>1. h - 1 \notin T
    <3> HIDE DEF T
    <3> QED BY <1>2, <1>5
  <2> QED BY <1>5, <2>1
<1>7. pow2(h) = 2 * pow2(h - 1)
  BY <1>5, Pow2Step
<1>8. pow2(m) \in Nat /\ pow2(h - 1) \in Nat
  BY <1>5, Pow2Positive
<1> QED BY <1>3, <1>6, <1>7, <1>8

-----------------------------------------------------------------------------
(* Sums.  The fold that total is made of takes the elements one by one, in *)
(* an order of its own; fold(g)[s] is the sum over s.                      *)
pick(s) == CHOOSE x \in s : TRUE

foldStep(g, f, s) == IF s = {} THEN 0 ELSE g[pick(s)] + f[s \ {pick(s)}]

IsFold(g, f) == f = [s \in SUBSET DOMAIN g |-> foldStep(g, f, s)]

fold(g) == CHOOSE f : IsFold(g, f)

LEMMA TotalIsFold ==
    ASSUME NEW g PROVE total(g) = fold(g)[DOMAIN g]
BY DEF total, MapThenSumSet, MapThenFoldSet, fold, IsFold, foldStep, pick

LEMMA FoldExists ==
    ASSUME NEW g, IsFiniteSet(DOMAIN g) PROVE IsFold(g, fold(g))
<1> DEFINE D == DOMAIN g
           Small(n) == {s \in SUBSET D : Cardinality(s) <= n}
           Has(n) == \E f : f = [s \in Small(n) |-> foldStep(g, f, s)]
           T == {n \in Nat : ~Has(n)}
<1>1. \A s \in SUBSET D : IsFiniteSet(s) /\ Cardinality(s) \in Nat
  BY FS_Subset, FS_CardinalityType
<1>2. \A s \in SUBSET D : s # {} =>
         pick(s) \in s /\ s \ {pick(s)} \in SUBSET D /\ Cardinality(s \ {pick(s)}) = Cardinality(s) - 1
  <2>1. SUFFICES ASSUME NEW s \in SUBSET D, s # {}
                 PROVE  pick(s) \in s /\ s \ {pick(s)} \in SUBSET D
                          /\ Cardinality(s \ {pick(s)}) = Cardinality(s) - 1
    OBVIOUS
  <2>2. pick(s) \in s
    BY <2>1 DEF pick
  <2> QED BY <1>1, <2>2, FS_RemoveElement
<1>3. T = {}
  <2>1. SUFFICES ASSUME T # {} PROVE FALSE
    OBVIOUS
  <2>2. PICK n \in T : \A m \in T : n <= m
    <3>1. T \in SUBSET Nat
      OBVIOUS
    <3> HIDE DEF T
    <3> QED BY <2>1, <3>1, FirstOf
  <2>3. n \in Nat /\ ~Has(n)
    OBVIOUS
  <2>4. CASE n = 0
    <3> DEFINE h == [s \in Small(n) |-> 0]
    <3>1. \A s \in Small(n) : s = {}
      <4>1. \A s \in Small(n) : IsFiniteSet(s) /\ Cardinality(s) = 0
        BY <1>1, <2>4
      <4> QED BY <4>1, FS_EmptySet
    <3>2. h = [s \in Small(n) |-> foldStep(g, h, s)]
      <4> HIDE DEF Small
      <4> QED BY <3>1 DEF foldStep
    <3> QED BY <2>3, <3>2
  <2>5. CASE n > 0
    <3>1. Has(n - 1)
      <4>1. n - 1 \in Nat /\ ~(n <= n - 1)
        BY <2>3, <2>5
      <4> HIDE DEF Has
      <4> QED BY <2>2, <4>1
    <3>2. PICK f : f = [s \in Small(n - 1) |-> foldStep(g, f, s)]
      BY <3>1
    <3> DEFINE h == [s \in Small(n) |-> IF s \in Small(n - 1) THEN f[s] ELSE foldStep(g, f, s)]
    <3>3. ASSUME NEW s \in Small(n) PROVE h[s] = foldStep(g, h, s)
      <4>1. s # {} => s \ {pick(s)} \in Small(n - 1) /\ s \ {pick(s)} \in Small(n)
        BY <1>1, <1>2, <2>3
      <4>2. s \in Small(n - 1) => f[s] = foldStep(g, f, s)
        <5> HIDE DEF Small, h
        <5> QED BY <3>2
      <4>3. s # {} => h[s \ {pick(s)}] = f[s \ {pick(s)}]
        <5> HIDE DEF Small
        <5> QED BY <4>1
      <4>4. foldStep(g, h, s) = foldStep(g, f, s)
        <5> HIDE DEF Small, h
        <5> QED BY <4>3 DEF foldStep
      <4>5. h[s] = foldStep(g, f, s)
        <5> HIDE DEF Small
        <5> QED BY <4>2
      <4> QED BY <4>4, <4>5
    <3>4. h = [s \in Small(n) |-> h[s]]
      <4> HIDE DEF Small
      <4> QED OBVIOUS
    <3>5. h = [s \in Small(n) |-> foldStep(g, h, s)]
      <4> HIDE DEF h, Small
      <4> QED BY <3>3, <3>4
    <3> QED BY <2>3, <3>5
  <2> QED BY <2>3, <2>4, <2>5
<1>4. Cardinality(D) \in Nat
  BY FS_CardinalityType
<1>5. Has(Cardinality(D))
  BY <1>3, <1>4
<1>6. Small(Cardinality(D)) = SUBSET D
  BY <1>1, FS_Subset
<1>7. \E f : IsFold(g, f)
  <2> HIDE DEF Small
  <2> QED BY <1>5, <1>6 DEF IsFold
<1> QED BY <1>7 DEF fold

LEMMA FoldStep ==
    ASSUME NEW g, IsFiniteSet(DOMAIN g), NEW s \in SUBSET DOMAIN g
    PROVE  fold(g)[s] = foldStep(g, fold(g), s)
<1>1. fold(g) = [u \in SUBSET DOMAIN g |-> foldStep(g, fold(g), u)]
  BY FoldExists DEF IsFold
<1> HIDE DEF fold
<1> QED BY <1>1

(* Functions with a sum *)
Summable(g) == g \in [DOMAIN g -> Int] /\ IsFiniteSet(DOMAIN g)

LEMMA FoldInt ==
    ASSUME NEW g, Summable(g), NEW s \in SUBSET DOMAIN g
    PROVE  fold(g)[s] \in Int
<1> DEFINE P == {u \in SUBSET DOMAIN g : fold(g)[u] \in Int}
<1>1. ASSUME NEW u \in SUBSET DOMAIN g, \A x \in u : u \ {x} \in P PROVE u \in P
  <2>1. fold(g)[u] = foldStep(g, fold(g), u)
    BY FoldStep DEF Summable
  <2>2. u # {} => pick(u) \in u
    BY DEF pick
  <2>3. u # {} => fold(g)[u \ {pick(u)}] \in Int /\ g[pick(u)] \in Int
    BY <1>1, <2>2 DEF Summable
  <2> QED BY <2>1, <2>3 DEF foldStep
<1>2. P = SUBSET DOMAIN g
  <2> HIDE DEF P
  <2>1. P \in SUBSET SUBSET DOMAIN g
    BY DEF P
  <2> QED BY <1>1, <2>1, SubsetInduction DEF Summable
<1> QED BY <1>2

(* The sum does not depend on the order: any element may be taken first. *)
LEMMA FoldTake ==
    ASSUME NEW g, Summable(g), NEW s \in SUBSET DOMAIN g, NEW x \in s
    PROVE  fold(g)[s] = g[x] + fold(g)[s \ {x}]
<1> DEFINE P == {u \in SUBSET DOMAIN g : \A y \in u : fold(g)[u] = g[y] + fold(g)[u \ {y}]}
<1>1. ASSUME NEW u \in SUBSET DOMAIN g, \A y \in u : u \ {y} \in P PROVE u \in P
  <2>1. SUFFICES ASSUME NEW y \in u PROVE fold(g)[u] = g[y] + fold(g)[u \ {y}]
    BY <1>1
  <2> DEFINE z == pick(u)
  <2>2. z \in u
    BY DEF pick
  <2>3. fold(g)[u] = g[z] + fold(g)[u \ {z}]
    BY <2>2, FoldStep DEF Summable, foldStep
  <2>4. CASE y # z
    <3>1. fold(g)[u \ {z}] = g[y] + fold(g)[(u \ {z}) \ {y}]
      BY <1>1, <2>2, <2>4
    <3>2. fold(g)[u \ {y}] = g[z] + fold(g)[(u \ {y}) \ {z}]
      BY <1>1, <2>2, <2>4
    <3>3. (u \ {z}) \ {y} = (u \ {y}) \ {z}
      OBVIOUS
    <3> DEFINE rest == fold(g)[(u \ {y}) \ {z}]
    <3>4. g[y] \in Int /\ g[z] \in Int /\ rest \in Int
      BY <2>2, FoldInt DEF Summable
    <3>5. fold(g)[u \ {z}] = g[y] + rest
      BY <3>1, <3>3
    <3>6. fold(g)[u \ {y}] = g[z] + rest
      BY <3>2
    <3> HIDE DEF z, rest
    <3>7. g[z] + (g[y] + rest) = g[y] + (g[z] + rest)
      BY <3>4
    <3> QED BY <2>3, <3>5, <3>6, <3>7
  <2> QED BY <2>3, <2>4
<1>2. P = SUBSET DOMAIN g
  <2> HIDE DEF P
  <2>1. P \in SUBSET SUBSET DOMAIN g
    BY DEF P
  <2> QED BY <1>1, <2>1, SubsetInduction DEF Summable
<1> QED BY <1>2

LEMMA FoldEmpty ==
    ASSUME NEW g, Summable(g)
    PROVE  fold(g)[{}] = 0
BY FoldStep DEF Summable, foldStep

(* The sum over two sets without a common element *)
LEMMA FoldUnion ==
    ASSUME NEW g, Summable(g), NEW s \in SUBSET DOMAIN g, NEW u \in SUBSET (DOMAIN g \ s)
    PROVE  fold(g)[s \cup u] = fold(g)[s] + fold(g)[u]
<1> DEFINE D == DOMAIN g \ s
           P == {v \in SUBSET D : fold(g)[s \cup v] = fold(g)[s] + fold(g)[v]}
<1>1. ASSUME NEW v \in SUBSET D, \A x \in v : v \ {x} \in P PROVE v \in P
  <2>1. fold(g)[s] \in Int
    BY FoldInt
  <2>2. CASE v = {}
    <3>1. s \cup v = s
      BY <2>2
    <3> QED BY <2>1, <2>2, <3>1, FoldEmpty
  <2>3. CASE v # {}
    <3>1. PICK x \in v : TRUE
      BY <2>3
    <3>2. /\ v \in SUBSET DOMAIN g /\ s \cup v \in SUBSET DOMAIN g /\ x \in s \cup v
          /\ (s \cup v) \ {x} = s \cup (v \ {x})
          /\ v \ {x} \in SUBSET DOMAIN g
      OBVIOUS
    <3>3. fold(g)[v] = g[x] + fold(g)[v \ {x}]
      BY <3>2, FoldTake
    <3>4. fold(g)[s \cup v] = g[x] + fold(g)[s \cup (v \ {x})]
      BY <3>2, FoldTake
    <3>5. fold(g)[s \cup (v \ {x})] = fold(g)[s] + fold(g)[v \ {x}]
      BY <1>1
    <3>6. g[x] \in Int /\ fold(g)[v \ {x}] \in Int
      BY <3>2, FoldInt DEF Summable
    <3> QED BY <2>1, <3>3, <3>4, <3>5, <3>6
  <2> QED BY <2>2, <2>3
<1>2. IsFiniteSet(D)
  BY FS_Subset DEF Summable
<1>3. P = SUBSET D
  <2>1. P \in SUBSET SUBSET D
    OBVIOUS
  <2> HIDE DEF P, D
  <2> QED BY <1>1, <1>2, <2>1, SubsetInduction
<1> QED BY <1>3

(* A sum over other indices, each of them used once *)
LEMMA FoldImage ==
    ASSUME NEW g, Summable(g), NEW T, IsFiniteSet(T), NEW h \in [T -> DOMAIN g],
           \A t, u \in T : h[t] = h[u] => t = u
    PROVE  LET k == [t \in T |-> g[h[t]]]
           IN  Summable(k) /\ fold(k)[T] = fold(g)[{h[t] : t \in T}]
<1> DEFINE k == [t \in T |-> g[h[t]]]
           Image(s) == {h[t] : t \in s}
           P == {s \in SUBSET T : fold(k)[s] = fold(g)[Image(s)]}
<1>1. DOMAIN k = T /\ Summable(k)
  BY DEF Summable
<1>2. ASSUME NEW s \in SUBSET T, \A x \in s : s \ {x} \in P PROVE s \in P
  <2>1. CASE s = {}
    <3>1. Image(s) = {}
      BY <2>1
    <3> QED BY <1>1, <2>1, <3>1, FoldEmpty
  <2>2. CASE s # {}
    <3>1. PICK x \in s : TRUE
      BY <2>2
    <3>2. Image(s \ {x}) = Image(s) \ {h[x]} /\ Image(s) \in SUBSET DOMAIN g /\ h[x] \in Image(s)
      OBVIOUS
    <3>3. fold(k)[s \ {x}] = fold(g)[Image(s \ {x})]
      BY <1>2
    <3>4. fold(k)[s] = k[x] + fold(k)[s \ {x}]
      <4> HIDE DEF k
      <4> QED BY <1>1, FoldTake
    <3>5. k[x] = g[h[x]]
      OBVIOUS
    <3> HIDE DEF k, Image
    <3>6. fold(g)[Image(s)] = g[h[x]] + fold(g)[Image(s) \ {h[x]}]
      BY <3>2, FoldTake
    <3> QED BY <3>2, <3>3, <3>4, <3>5, <3>6
  <2> QED BY <2>1, <2>2
<1>3. P = SUBSET T
  <2>1. P \in SUBSET SUBSET T
    OBVIOUS
  <2> HIDE DEF P
  <2> QED BY <1>2, <2>1, SubsetInduction
<1> QED BY <1>1, <1>3

(* A sum taken lane by lane: m[s] is the lane of s. *)
LEMMA FoldLanes ==
    ASSUME NEW g, Summable(g), NEW I, IsFiniteSet(I), NEW m \in [DOMAIN g -> I]
    PROVE  LET lane == [i \in I |-> fold(g)[{s \in DOMAIN g : m[s] = i}]]
           IN  Summable(lane) /\ fold(lane)[I] = fold(g)[DOMAIN g]
<1> DEFINE D == DOMAIN g
           Of(J) == {s \in D : m[s] \in J}
           lane == [i \in I |-> fold(g)[{s \in D : m[s] = i}]]
           P == {J \in SUBSET I : fold(lane)[J] = fold(g)[Of(J)]}
<1>1. DOMAIN lane = I /\ Summable(lane)
  BY FoldInt DEF Summable
<1>2. ASSUME NEW J \in SUBSET I, \A x \in J : J \ {x} \in P PROVE J \in P
  <2>1. CASE J = {}
    <3>1. Of(J) = {}
      BY <2>1
    <3> QED BY <1>1, <2>1, <3>1, FoldEmpty
  <2>2. CASE J # {}
    <3>1. PICK x \in J : TRUE
      BY <2>2
    <3> DEFINE here == {s \in D : m[s] = x}
    <3>2. /\ Of(J) = here \cup Of(J \ {x})
          /\ here \in SUBSET D /\ Of(J \ {x}) \in SUBSET (D \ here)
      OBVIOUS
    <3>3. fold(lane)[J \ {x}] = fold(g)[Of(J \ {x})]
      BY <1>2
    <3>4. fold(lane)[J] = lane[x] + fold(lane)[J \ {x}]
      <4> HIDE DEF lane
      <4> QED BY <1>1, FoldTake
    <3>5. lane[x] = fold(g)[here]
      OBVIOUS
    <3> HIDE DEF lane, Of, here
    <3>6. fold(g)[Of(J)] = fold(g)[here] + fold(g)[Of(J \ {x})]
      <4>1. fold(g)[here \cup Of(J \ {x})] = fold(g)[here] + fold(g)[Of(J \ {x})]
        BY <3>2, FoldUnion
      <4> QED BY <3>2, <4>1
    <3> QED BY <3>3, <3>4, <3>5, <3>6
  <2> QED BY <2>1, <2>2
<1>3. P = SUBSET I
  <2>1. P \in SUBSET SUBSET I
    OBVIOUS
  <2> HIDE DEF P
  <2> QED BY <1>2, <2>1, SubsetInduction
<1>4. Of(I) = D
  OBVIOUS
<1> QED BY <1>1, <1>3, <1>4

-----------------------------------------------------------------------------
(* Sizes, ranges and places. *)
LEMMA EngineConstants ==
    /\ Size \in Nat /\ Size > 0 /\ Size % 8 = 0
    /\ OcPar \in Nat /\ OcPar > 0 /\ OcPar % 2 = 0 /\ IcPar \in Nat /\ IcPar > 0
    /\ \A n \in 1 .. 4 : Channels[n] \in Nat
    /\ \A n \in {2, 3} : Channels[n] % IcPar = 0 /\ Channels[n + 1] % OcPar = 0
    /\ ActMax \in Nat /\ ActMax <= 127 /\ AccBits \in Nat
    /\ AccRange \in Int /\ AccRange > 0
BY EngineAssumption, ArithmeticAssumption, Pow2Positive DEF AccRange

LEMMA ModelType ==
    ASSUME NEW m \in Models, NEW n \in 1 .. 3
    PROVE  /\ m[n].kernel \in [Upto(Channels[n + 1]) \X Upto(Channels[n]) \X Upto(K) \X Upto(K) -> Int8]
           /\ m[n].bias \in [Upto(Channels[n + 1]) -> Int]
           /\ m[n].rq.multiplier \in Int /\ m[n].rq.shift \in Nat
           /\ pow2(m[n].rq.shift) \in Int /\ pow2(m[n].rq.shift) > 0
<1>1. m[n].rq.shift \in Nat
  BY EngineAssumption
<1>2. pow2(m[n].rq.shift) \in Int /\ pow2(m[n].rq.shift) > 0
  BY <1>1, Pow2Positive
<1> QED BY <1>2, EngineAssumption

(* Each layer has half the rows of the one before, and an even number. *)
LEMMA LayerSizes ==
    /\ size(1) = Size
    /\ \A n \in 1 .. 3 : size(n) \in Nat /\ size(n) > 0 /\ size(n) = 2 * (size(n) \div 2)
    /\ \A n \in {2, 3} : size(n) = size(n - 1) \div 2
<1>1. 2 ^ (1 - 1) = 1 /\ 2 ^ (2 - 1) = 2 /\ 2 ^ (3 - 1) = 4
  OBVIOUS
<1>2. size(1) = Size /\ size(2) = Size \div 2 /\ size(3) = Size \div 4
  BY <1>1, EngineConstants DEF size
<1> QED BY <1>2, EngineConstants

LEMMA StoredInt ==
    ASSUME NEW x \in Int, NEW d \in Int, d > 0
    PROVE  stored(x, d) \in Int
BY DEF stored

(* An activation, whatever the accumulator *)
LEMMA ActivationRange ==
    ASSUME NEW acc \in Int, NEW m \in Models, NEW n \in 1 .. 3
    PROVE  requant_relu(stored(acc, AccRange), m[n].rq) \in 0 .. ActMax
<1> DEFINE a == stored(acc, AccRange)
           q == scaled(a, m[n].rq) \div pow2(m[n].rq.shift)
           x == stored(q, AccRange)
<1>1. a \in Int
  BY EngineConstants, StoredInt
<1> HIDE DEF a
<1>2. scaled(a, m[n].rq) \in Int
  BY <1>1, ModelType DEF scaled
<1>3. q \in Int
  BY <1>2, ModelType
<1> HIDE DEF q
<1>4. x \in Int
  BY <1>3, EngineConstants, StoredInt
<1> HIDE DEF x
<1>5. clamp(x) \in 0 .. ActMax
  BY <1>4, EngineConstants DEF clamp
<1> QED BY <1>5 DEF requant_relu, a, q, x

LEMMA MaxActivation ==
    ASSUME NEW S \in SUBSET (0 .. ActMax), S # {}
    PROVE  Max(S) \in S
<1> DEFINE T == {ActMax - x : x \in S}
<1>1. T \in SUBSET Nat /\ T # {}
  <2>1. \A x \in S : ActMax - x \in Nat
    BY EngineConstants
  <2> QED BY <2>1
<1>2. PICK t \in T : \A u \in T : t <= u
  <2> HIDE DEF T
  <2> QED BY <1>1, FirstOf
<1>3. PICK x \in S : t = ActMax - x
  BY <1>2
<1>4. \A y \in S : x >= y
  <2>1. SUFFICES ASSUME NEW y \in S PROVE x >= y
    OBVIOUS
  <2>2. t <= ActMax - y
    BY <1>2
  <2> QED BY <1>3, <2>2, EngineConstants
<1> QED BY <1>3, <1>4 DEF Max

LEMMA FiniteBox ==
    ASSUME NEW a \in Nat, NEW b \in Nat, NEW c \in Nat
    PROVE  IsFiniteSet(Upto(a) \X Upto(b) \X Upto(c))
<1> DEFINE S == Upto(a) \X Upto(b) \X Upto(c)
           U == (Upto(a) \X Upto(b)) \X Upto(c)
           f == [t \in S |-> <<<<t[1], t[2]>>, t[3]>>]
<1>1. IsFiniteSet(Upto(a)) /\ IsFiniteSet(Upto(b)) /\ IsFiniteSet(Upto(c))
  BY FS_Interval DEF Upto
<1>2. IsFiniteSet(U)
  BY <1>1, FS_Product
<1>3. f \in Injection(S, U)
  <2>1. f \in [S -> U]
    OBVIOUS
  <2>2. \A t, u \in S : f[t] = f[u] => t = u
    OBVIOUS
  <2> QED BY <2>1, <2>2 DEF Injection, IsInjective
<1> QED BY <1>2, <1>3, FS_Injection

-----------------------------------------------------------------------------
(* The low half of the product, a * (w_lo + 128), is a signed 16-bit       *)
(* number for every activation a: the range that the comment of mac_pair   *)
(* gives.                                                                  *)
LEMMA LowProductFits ==
    ASSUME NEW a \in Int, -128 <= a, a <= 127,
           NEW b \in Int, 0 <= b, b <= 255
    PROVE  a * b \in Int /\ -32640 <= a * b /\ a * b <= 32385
<1>1. a * b \in Int
  OBVIOUS
<1>2. a * b <= 127 * b
  OBVIOUS
<1>3. -128 * b <= a * b
  OBVIOUS
<1>. DEFINE z == a * b
<1>4. z \in Int /\ z <= 127 * b /\ -128 * b <= z
  BY <1>1, <1>2, <1>3
<1>. HIDE DEF z
<1>5. -32640 <= z /\ z <= 32385
  BY <1>4
<1>. QED
  BY <1>1, <1>5 DEF z

(* mac_pair gives exactly the two products, for every activation and every *)
(* pair of weights: packing two output channels into one multiplication    *)
(* changes no value.                                                       *)
THEOREM PackedProductsExact ==
    ASSUME NEW a \in Int8, NEW w_lo \in Int8, NEW w_hi \in Int8
    PROVE  PairExact(a, w_lo, w_hi)
<1>. DEFINE b == w_lo + 128
            u == a * b
            v == a * w_hi
            p == a * packed(w_lo, w_hi)
<1>1. /\ a \in Int /\ -128 <= a /\ a <= 127
      /\ w_lo \in Int /\ w_hi \in Int
      /\ b \in Int /\ 0 <= b /\ b <= 255
  BY DEF Int8
<1>2. u \in Int /\ -32768 <= u /\ u < 32768
  <2>. HIDE DEF b
  <2>. QED
    BY <1>1, LowProductFits
<1>3. v \in Int /\ p \in Int
  BY <1>1 DEF packed
<1>4. p = v * 65536 + u
  BY <1>1 DEF packed
<1>5. u - a * 128 = a * w_lo
  BY <1>1
<1>6. stored(p, 65536) = u /\ (p - u) \div 65536 = v
  <2>. DEFINE w == u + 32768
              y == p + 32768
  <2>. HIDE DEF u, v, p
  <2>1. w \in Int /\ 0 <= w /\ w < 65536 /\ y \in Int /\ y = 65536 * v + w
    BY <1>2, <1>3, <1>4
  <2>. HIDE DEF w, y
  <2>2. y % 65536 = w
    BY <1>3, <2>1
  <2>3. stored(p, 65536) = u
    <3>1. 65536 \div 2 = 32768
      OBVIOUS
    <3>. QED
      BY <1>2, <1>3, <2>2, <3>1 DEF stored, w, y
  <2>4. p - u = v * 65536
    BY <1>2, <1>3, <1>4
  <2>5. (p - u) \div 65536 = v
    BY <1>3, <2>4
  <2>. QED
    BY <2>3, <2>5
<1>7. highHalf(p) = v
  BY <1>6 DEF highHalf
<1>8. mac_pair(a, w_lo, w_hi) = [lo |-> u - a * 128, hi |-> v]
  BY <1>6, <1>7 DEF mac_pair
<1>. QED
  BY <1>5, <1>8 DEF PairExact

(* The quotient of a product of two numbers of the width fits the width.   *)
LEMMA QuotientFits ==
    ASSUME NEW half \in Nat, half > 0,
           NEW acc \in -half .. half - 1, NEW m \in 0 .. half - 1,
           NEW d \in Nat, half <= d
    PROVE  stored((acc * m) \div d, 2 * half) = (acc * m) \div d
<1> DEFINE x == acc * m
           q == x \div d
<1>1. x \in Int /\ -(half * half) <= x /\ x < half * half
  <2>1. /\ m \in Int /\ 0 <= m /\ m <= half - 1 /\ acc \in Int /\ -half <= acc /\ acc < half
    OBVIOUS
  <2>2. /\ acc * m \in Int /\ -(half * m) <= acc * m /\ acc * m <= half * m
        /\ half * m \in Int /\ half * m < half * half /\ half * half \in Int
    BY <2>1
  <2> QED BY <2>2
<1>2. d \in Nat /\ d >= half
  OBVIOUS
<1> HIDE DEF x
<1>3. q \in Int /\ d * q <= x /\ x < d * q + d
  BY <1>1, <1>2
<1> HIDE DEF q
<1>4. q < half
  <2>1. SUFFICES ASSUME half <= q PROVE FALSE
    BY <1>3
  <2>2. d * q \in Int /\ half * half <= d * q
    BY <1>2, <1>3, <2>1
  <2> QED BY <1>1, <1>3, <2>2
<1>5. -half <= q
  <2>1. SUFFICES ASSUME q + 1 <= -half PROVE FALSE
    BY <1>3
  <2>2. d * q + d = d * (q + 1) /\ d * q \in Int
    BY <1>2, <1>3
  <2>3. d * (q + 1) <= d * (-half) /\ d * (-half) = -(d * half) /\ half * half <= d * half
        /\ d * half \in Int /\ d * (q + 1) \in Int
    BY <1>2, <1>3, <2>1
  <2> QED BY <1>1, <1>3, <2>2, <2>3
<1>6. stored(q, 2 * half) = q
  <2>1. (2 * half) \div 2 = half
    OBVIOUS
  <2>2. q + half \in 0 .. 2 * half - 1
    BY <1>3, <1>4, <1>5
  <2>3. (q + half) % (2 * half) = q + half
    BY <2>2
  <2> QED BY <1>3, <2>1, <2>3 DEF stored
<1> QED BY <1>6 DEF q, x

(* Requantisation does not wrap: with an accumulator and a multiplier of   *)
(* AccBits bits, the multiplier not negative, and a shift of at least      *)
(* AccBits - 1, the shifted product fits the accumulator, so that          *)
(* requant_relu clamps the exact quotient.                                 *)
THEOREM RequantIsExact ==
    ASSUME NEW acc \in Acc, NEW rq, rq.multiplier \in Acc, rq.multiplier >= 0,
           rq.shift \in Nat, AccBits - 1 <= rq.shift
    PROVE  RequantExact(acc, rq)
<1> DEFINE half == pow2(AccBits - 1)
           m == rq.multiplier
           d == pow2(rq.shift)
<1>0. /\ half \in Nat /\ half > 0 /\ AccRange = 2 * half
      /\ acc \in -half .. half - 1 /\ m \in 0 .. half - 1
      /\ d \in Nat /\ half <= d
  <2>1. AccBits - 1 \in Nat /\ (AccBits - 1) + 1 = AccBits
    BY ArithmeticAssumption
  <2>2. half \in Nat /\ half > 0 /\ d \in Nat
    BY <2>1, Pow2Positive
  <2>3. pow2((AccBits - 1) + 1) = 2 * half
    BY <2>1, Pow2Step
  <2>4. half <= d
    BY <2>1, Pow2Grows
  <2>5. acc \in -half .. half - 1 /\ m \in -half .. half - 1 /\ m >= 0
    BY DEF Acc
  <2> HIDE DEF half, m, d
  <2>6. m \in 0 .. half - 1
    BY <2>2, <2>5
  <2> QED BY <2>1, <2>2, <2>3, <2>4, <2>5, <2>6 DEF AccRange
<1> HIDE DEF half, m, d
<1>1. stored((acc * m) \div d, 2 * half) = (acc * m) \div d
  BY <1>0, QuotientFits
<1>2. stored(scaled(acc, rq) \div pow2(rq.shift), AccRange) = (acc * rq.multiplier) \div pow2(rq.shift)
  BY <1>0, <1>1 DEF scaled, m, d
<1> QED BY <1>2 DEF RequantExact, requant_relu

(* The arithmetic loses nothing, whatever the operands (mac_pair and       *)
(* requant_relu of the engine).                                            *)
THEOREM ArithmeticCorrect ==
    ASSUME op = NoOp \/ op \in PackedOps \/ op \in RequantOps
    PROVE  ArithmeticIsExact
<1>1. CASE op = NoOp
  BY <1>1 DEF NoOp, ArithmeticIsExact
<1>2. CASE op \in PackedOps
  <2>1. op.name = "mac_pair" /\ op.a \in Int8
    BY <1>2 DEF PackedOps
  <2> QED BY <2>1, OperandsAssumption, PackedProductsExact DEF ArithmeticIsExact
<1>3. CASE op \in RequantOps
  <2>1. op.name = "requant" /\ op.acc \in Acc /\ op.multiplier \in Acc
    BY <1>3, OperandsAssumption DEF RequantOps
  <2>2. ASSUME op.multiplier >= 0, NEW shift \in AccBits - 1 .. 2 * AccBits
        PROVE  RequantExact(op.acc, [multiplier |-> op.multiplier, shift |-> shift])
    <3> DEFINE rq == [multiplier |-> op.multiplier, shift |-> shift]
    <3>1. shift \in Nat /\ AccBits - 1 <= shift
      BY ArithmeticAssumption
    <3>2. rq.multiplier = op.multiplier /\ rq.shift = shift
      OBVIOUS
    <3> HIDE DEF rq
    <3>3. RequantExact(op.acc, rq)
      BY <2>1, <2>2, <3>1, <3>2, RequantIsExact
    <3> QED BY <3>3 DEF rq
  <2> QED BY <2>1, <2>2 DEF ArithmeticIsExact
<1> QED BY <1>1, <1>2, <1>3

-----------------------------------------------------------------------------
LEMMA KernelType ==
    ASSUME NEW m \in Models, NEW n \in 1 .. 3, NEW c \in Upto(Channels[n + 1]),
           NEW i \in Upto(Channels[n]), NEW ky \in Upto(K), NEW kx \in Upto(K)
    PROVE  m[n].kernel[<<c, i, ky, kx>>] \in Int8
<1>1. <<c, i, ky, kx>> \in Upto(Channels[n + 1]) \X Upto(Channels[n]) \X Upto(K) \X Upto(K)
  OBVIOUS
<1> QED BY <1>1, ModelType

(* The sums of the reference for one value: over <<channel, row, column>>  *)
(* of the kernel                                                           *)
taps(m, n, map, pad, y, x, c) ==
    [t \in Upto(Channels[n]) \X Upto(K) \X Upto(K) |->
        m[n].kernel[<<c, t[1], t[2], t[3]>>] * at(map, <<y + t[2] - pad, x + t[3] - pad, t[1]>>)]

LEMMA TapsSummable ==
    ASSUME NEW m \in Models, NEW n \in 1 .. 3, NEW map, \A p \in DOMAIN map : map[p] \in Int, NEW pad \in Int,
           NEW y \in Int, NEW x \in Int, NEW c \in Upto(Channels[n + 1])
    PROVE  /\ Summable(taps(m, n, map, pad, y, x, c))
           /\ DOMAIN taps(m, n, map, pad, y, x, c) = Upto(Channels[n]) \X Upto(K) \X Upto(K)
<1> DEFINE S == Upto(Channels[n]) \X Upto(K) \X Upto(K)
           g == taps(m, n, map, pad, y, x, c)
<1>1. Channels[n] \in Nat /\ K \in Nat
  BY EngineConstants DEF K
<1>2. IsFiniteSet(S)
  BY <1>1, FiniteBox
<1>3. \A p : at(map, p) \in Int
  BY DEF at
<1>4. ASSUME NEW t \in S PROVE m[n].kernel[<<c, t[1], t[2], t[3]>>] \in Int
  <2>1. t[1] \in Upto(Channels[n]) /\ t[2] \in Upto(K) /\ t[3] \in Upto(K)
    BY <1>4
  <2>2. m[n].kernel[<<c, t[1], t[2], t[3]>>] \in Int8
    BY <2>1, KernelType
  <2> QED BY <2>2 DEF Int8
<1>5. \A t \in S : g[t] \in Int
  <2>1. SUFFICES ASSUME NEW t \in S PROVE g[t] \in Int
    OBVIOUS
  <2>2. g[t] = m[n].kernel[<<c, t[1], t[2], t[3]>>] * at(map, <<y + t[2] - pad, x + t[3] - pad, t[1]>>)
    BY DEF taps
  <2> QED BY <1>3, <1>4, <2>2
<1>6. DOMAIN g = S /\ g = [t \in S |-> g[t]]
  BY DEF taps
<1> HIDE DEF g, S
<1>7. g \in [S -> Int]
  BY <1>5, <1>6
<1> QED BY <1>2, <1>6, <1>7 DEF Summable, g, S

(* dot27: the taps in the order of the image *)
LEMMA Dot27IsReference ==
    ASSUME model \in Models, image \in [Pixels(Size + 2, Channels[1]) -> Int8],
           NEW y \in Upto(Size), oy = y, NEW x \in Upto(Size), NEW c \in Upto(Channels[2])
    PROVE  dot27(x, c) = total(taps(model, 1, image, 0, y, x, c))
<1> DEFINE g == taps(model, 1, image, 0, y, x, c)
           T == Upto(K) \X Upto(K) \X Upto(Channels[1])
           S == Upto(Channels[1]) \X Upto(K) \X Upto(K)
           h == [t \in T |-> <<t[3], t[1], t[2]>>]
           k == [t \in T |-> g[h[t]]]
<1>1. Channels[1] \in Nat /\ Channels[2] \in Nat /\ K = 3 /\ Size \in Nat
  BY EngineConstants DEF K
<1>2. image \in [Pixels(Size + 2, Channels[1]) -> Int]
  BY DEF Int8
<1>3. x \in Int /\ y \in Int
  BY DEF Upto
<1>4. Summable(g) /\ DOMAIN g = S
  <2>1. 1 \in 1 .. 3 /\ 0 \in Int /\ c \in Upto(Channels[1 + 1])
    OBVIOUS
  <2>2. \A p \in DOMAIN image : image[p] \in Int
    BY <1>2
  <2>3. Summable(taps(model, 1, image, 0, y, x, c))
    BY <1>3, <2>1, <2>2, TapsSummable
  <2>4. DOMAIN g = S
    BY DEF taps
  <2> QED BY <2>3, <2>4
<1>5. IsFiniteSet(T)
  BY <1>1, FiniteBox
<1>6. h \in [T -> S] /\ (\A t, u \in T : h[t] = h[u] => t = u)
  OBVIOUS
<1>7. {h[t] : t \in T} = S
  <2>1. ASSUME NEW s \in S PROVE \E t \in T : h[t] = s
    <3>1. <<s[2], s[3], s[1]>> \in T /\ h[<<s[2], s[3], s[1]>>] = s
      OBVIOUS
    <3> QED BY <3>1
  <2> HIDE DEF T, S, h
  <2> QED BY <1>6, <2>1
<1>8. fold(k)[T] = fold(g)[S]
  <2> HIDE DEF g, h, T, S
  <2>1. h \in [T -> DOMAIN g]
    BY <1>4, <1>6
  <2>2. fold([t \in T |-> g[h[t]]])[T] = fold(g)[{h[t] : t \in T}]
    BY <1>4, <1>5, <1>6, <2>1, FoldImage
  <2> QED BY <1>7, <2>2
<1>9. ASSUME NEW t \in T
      PROVE  g[h[t]] = image[<<oy + t[1], x + t[2], t[3]>>] * weight(1, c, t[1], t[2], t[3])
  <2>1. h[t] = <<t[3], t[1], t[2]>> /\ h[t] \in S
    BY <1>6
  <2>2. g[h[t]] = model[1].kernel[<<c, t[3], t[1], t[2]>>]
                     * at(image, <<y + t[1] - 0, x + t[2] - 0, t[3]>>)
    <3> HIDE DEF T, h
    <3> QED BY <2>1 DEF taps
  <2>3. <<y + t[1], x + t[2], t[3]>> \in Pixels(Size + 2, Channels[1])
    BY <1>1 DEF Pixels, Upto
  <2>4. y + t[1] - 0 = y + t[1] /\ x + t[2] - 0 = x + t[2]
    BY <1>3 DEF Upto
  <2>5. at(image, <<y + t[1] - 0, x + t[2] - 0, t[3]>>) = image[<<y + t[1], x + t[2], t[3]>>]
    BY <2>3, <2>4 DEF at
  <2>6. weight(1, c, t[1], t[2], t[3]) = model[1].kernel[<<c, t[3], t[1], t[2]>>]
    BY DEF weight, oihw
  <2>7. image[<<y + t[1], x + t[2], t[3]>>] \in Int
    BY <1>2, <2>3
  <2>8. model[1].kernel[<<c, t[3], t[1], t[2]>>] \in Int
    <3>1. 1 \in 1 .. 3 /\ c \in Upto(Channels[1 + 1])
      OBVIOUS
    <3>2. t[3] \in Upto(Channels[1]) /\ t[1] \in Upto(K) /\ t[2] \in Upto(K)
      OBVIOUS
    <3>3. model[1].kernel[<<c, t[3], t[1], t[2]>>] \in Int8
      BY <3>1, <3>2, KernelType
    <3> QED BY <3>3 DEF Int8
  <2> QED BY <2>2, <2>5, <2>6, <2>7, <2>8
<1>10. dot27(x, c) = total(k)
  <2>1. k = [t \in T |-> image[<<oy + t[1], x + t[2], t[3]>>] * weight(1, c, t[1], t[2], t[3])]
    <3> HIDE DEF T, g, h
    <3> QED BY <1>9
  <2> QED BY <2>1 DEF dot27
<1>11. total(k) = fold(k)[T] /\ total(g) = fold(g)[S]
  <2>1. DOMAIN k = T
    OBVIOUS
  <2> HIDE DEF k, T, S, g
  <2> QED BY <1>4, <2>1, TotalIsFold
<1> QED BY <1>8, <1>10, <1>11

-----------------------------------------------------------------------------
(* Quotient and remainder make up the number. *)
LEMMA DivisionFacts ==
    ASSUME NEW v \in Nat, NEW d \in Nat, d > 0
    PROVE  /\ v \div d \in Nat /\ v % d \in 0 .. d - 1
           /\ v = (v \div d) * d + (v % d)
OBVIOUS

(* The two lanes that share a multiplication are channels of the layer. *)
LEMMA PairedLanes ==
    ASSUME NEW n \in {2, 3}, NEW c \in Upto(Channels[n + 1])
    PROVE  LET lo == c - ((c % OcPar) % 2)
           IN  lo \in Upto(Channels[n + 1]) /\ lo + 1 \in Upto(Channels[n + 1]) /\ c \in {lo, lo + 1}
<1> DEFINE C == Channels[n + 1]
           q == c \div OcPar
           r == c % OcPar
           blocks == C \div OcPar
           half == OcPar \div 2
<1>1. C \in Nat /\ C % OcPar = 0 /\ c \in Nat /\ c < C
  BY EngineConstants DEF Upto
<1>2. OcPar = 2 * half /\ half \in Nat /\ OcPar \in Nat /\ OcPar > 0
  BY EngineConstants
<1>3. q \in Nat /\ r \in 0 .. OcPar - 1 /\ c = q * OcPar + r
  BY <1>1, <1>2, DivisionFacts
<1>4. blocks \in Nat /\ C = blocks * OcPar
  <2>1. blocks \in Nat /\ C = blocks * OcPar + (C % OcPar)
    BY <1>1, <1>2, DivisionFacts
  <2> HIDE DEF blocks, C
  <2> QED BY <1>1, <1>2, <2>1
<1> DEFINE b == r % 2
<1> HIDE DEF C, q, r, blocks, half
<1>5. q < blocks
  <2>1. SUFFICES ASSUME blocks <= q PROVE FALSE
    BY <1>3, <1>4
  <2>2. blocks * OcPar <= q * OcPar /\ q * OcPar \in Int
    BY <1>2, <1>3, <1>4, <2>1
  <2> QED BY <1>1, <1>3, <1>4, <2>2
<1>6. q * OcPar + OcPar <= C
  <2>1. (q + 1) * OcPar <= blocks * OcPar
    BY <1>2, <1>3, <1>4, <1>5
  <2>2. (q + 1) * OcPar = q * OcPar + OcPar
    BY <1>2, <1>3
  <2> QED BY <1>4, <2>1, <2>2
<1>7. b \in {0, 1} /\ b <= r /\ r - b + 1 < OcPar
  BY <1>2, <1>3
<1> HIDE DEF b
<1>8. q * OcPar \in Nat
  BY <1>2, <1>3
<1>9. c - b \in 0 .. C - 1 /\ c - b + 1 \in 0 .. C - 1 /\ c \in {c - b, c - b + 1}
  BY <1>1, <1>2, <1>3, <1>6, <1>7, <1>8
<1> QED BY <1>9 DEF b, r, C, Upto

(* Either lane of a packed product is the plain one. *)
LEMMA ProductIsExact ==
    ASSUME model \in Models, NEW n \in {2, 3}, NEW a \in Int8, NEW c \in Upto(Channels[n + 1]),
           NEW ic \in Upto(Channels[n]), NEW ky \in Upto(K), NEW kx \in Upto(K)
    PROVE  /\ product(n, a, c, ky, kx, ic) = a * model[n].kernel[<<c, ic, ky, kx>>]
           /\ model[n].kernel[<<c, ic, ky, kx>>] \in Int
<1> DEFINE lo == c - ((c % OcPar) % 2)
           wlo == weight(n, lo, ky, kx, ic)
           whi == weight(n, lo + 1, ky, kx, ic)
<1>1. lo \in Upto(Channels[n + 1]) /\ lo + 1 \in Upto(Channels[n + 1]) /\ c \in {lo, lo + 1}
  BY PairedLanes
<1> HIDE DEF lo
<1>2. n \in 1 .. 3 /\ n # 1
  OBVIOUS
<1>3. wlo = model[n].kernel[<<lo, ic, ky, kx>>] /\ whi = model[n].kernel[<<lo + 1, ic, ky, kx>>]
  BY <1>2 DEF weight, wpack
<1>4. wlo \in Int8 /\ whi \in Int8
  BY <1>1, <1>2, <1>3, KernelType
<1> HIDE DEF wlo, whi
<1>5. mac_pair(a, wlo, whi) = [lo |-> a * wlo, hi |-> a * whi]
  BY <1>4, PackedProductsExact DEF PairExact
<1>6. product(n, a, c, ky, kx, ic) = IF c = lo THEN a * wlo ELSE a * whi
  BY <1>5 DEF product, lo, wlo, whi
<1>7. wlo \in Int /\ whi \in Int
  BY <1>4 DEF Int8
<1>8. CASE c = lo
  BY <1>3, <1>6, <1>7, <1>8
<1>9. CASE c # lo /\ c = lo + 1
  BY <1>3, <1>6, <1>7, <1>9
<1> QED BY <1>1, <1>8, <1>9

(* The bounds test pads as the reference does. *)
LEMMA PaddingIsReference ==
    ASSUME NEW n \in {2, 3}, fmap[n - 1] \in [Pixels(size(n), Channels[n]) -> 0 .. ActMax],
           NEW iy \in Int, NEW ix \in Int, NEW ic \in Upto(Channels[n])
    PROVE  px(n, iy, ix, ic) = at(fmap[n - 1], <<iy, ix, ic>>) /\ px(n, iy, ix, ic) \in Int8
<1>1. <<iy, ix, ic>> \in Pixels(size(n), Channels[n]) <=> in_bounds(n, iy, ix)
  BY DEF Pixels, in_bounds
<1>2. px(n, iy, ix, ic) = at(fmap[n - 1], <<iy, ix, ic>>)
  BY <1>1 DEF px, at
<1>3. in_bounds(n, iy, ix) => fmap[n - 1][<<iy, ix, ic>>] \in 0 .. ActMax
  BY <1>1
<1>4. px(n, iy, ix, ic) \in 0 .. ActMax
  BY <1>3, EngineConstants DEF px
<1>5. 0 .. ActMax \subseteq Int8
  BY EngineConstants DEF Int8
<1> QED BY <1>2, <1>4, <1>5

(* Input channel s[1] belongs to lane s[1] % IcPar. *)
LEMMA LaneIndices ==
    ASSUME NEW n \in {2, 3}, NEW i \in Upto(IcPar)
    PROVE  LET S == Upto(Channels[n]) \X Upto(K) \X Upto(K)
               T == Upto(K) \X Upto(K) \X Upto(Channels[n] \div IcPar)
               h == [t \in T |-> <<t[3] * IcPar + i, t[1], t[2]>>]
           IN  /\ h \in [T -> S]
               /\ \A t, u \in T : h[t] = h[u] => t = u
               /\ {h[t] : t \in T} = {s \in S : s[1] % IcPar = i}
<1> DEFINE C == Channels[n]
           blocks == C \div IcPar
           S == Upto(C) \X Upto(K) \X Upto(K)
           T == Upto(K) \X Upto(K) \X Upto(blocks)
           h == [t \in T |-> <<t[3] * IcPar + i, t[1], t[2]>>]
<1>1. C \in Nat /\ C % IcPar = 0 /\ IcPar \in Nat /\ IcPar > 0 /\ i \in 0 .. IcPar - 1
  BY EngineConstants DEF Upto
<1>2. blocks \in Nat /\ C = blocks * IcPar
  <2>1. blocks \in Nat /\ C = blocks * IcPar + (C % IcPar)
    BY <1>1, DivisionFacts
  <2> HIDE DEF blocks, C
  <2> QED BY <1>1, <2>1
<1> HIDE DEF C, blocks
<1>3. ASSUME NEW b \in Upto(blocks)
      PROVE  b * IcPar + i \in Upto(C) /\ (b * IcPar + i) % IcPar = i /\ (b * IcPar + i) \div IcPar = b
  <2>1. b \in Nat /\ b + 1 <= blocks
    BY <1>2 DEF Upto
  <2>2. (b + 1) * IcPar <= blocks * IcPar /\ (b + 1) * IcPar = b * IcPar + IcPar /\ b * IcPar \in Nat
    BY <1>1, <1>2, <2>1
  <2>3. b * IcPar + i \in Upto(C)
    BY <1>1, <1>2, <2>2 DEF Upto
  <2>4. (b * IcPar + i) % IcPar = i /\ (b * IcPar + i) \div IcPar = b
    BY <1>1, <2>1
  <2> QED BY <2>3, <2>4
<1>4. ASSUME NEW v \in Upto(C), v % IcPar = i
      PROVE  v \div IcPar \in Upto(blocks) /\ v = (v \div IcPar) * IcPar + i
  <2> DEFINE q == v \div IcPar
  <2>1. v \in Nat /\ v < C
    BY <1>1 DEF Upto
  <2>2. q \in Nat /\ v = q * IcPar + i
    BY <1>1, <1>4, <2>1, DivisionFacts
  <2> HIDE DEF q
  <2>3. q < blocks
    <3>1. SUFFICES ASSUME blocks <= q PROVE FALSE
      BY <1>2, <2>2
    <3>2. blocks * IcPar <= q * IcPar /\ q * IcPar \in Int
      BY <1>1, <1>2, <2>2, <3>1
    <3> QED BY <1>1, <1>2, <2>1, <2>2, <3>2
  <2> QED BY <1>2, <2>2, <2>3 DEF q, Upto
<1>5. h \in [T -> S]
  BY <1>3
<1>6. ASSUME NEW t \in T, NEW u \in T, h[t] = h[u] PROVE t = u
  <2>1. t[3] * IcPar + i = u[3] * IcPar + i /\ t[1] = u[1] /\ t[2] = u[2]
    BY <1>6
  <2>2. t[3] = u[3]
    BY <1>3, <2>1
  <2> QED BY <2>1, <2>2
<1>7. ASSUME NEW t \in T PROVE h[t] \in S /\ h[t][1] % IcPar = i
  BY <1>3
<1>8. ASSUME NEW s \in S, s[1] % IcPar = i PROVE \E t \in T : h[t] = s
  <2> DEFINE t == <<s[2], s[3], s[1] \div IcPar>>
  <2>1. t \in T
    BY <1>4, <1>8
  <2>2. h[t] = <<t[3] * IcPar + i, t[1], t[2]>>
    BY <2>1
  <2>3. h[t] = s
    BY <1>4, <1>8, <2>2
  <2> QED BY <2>1, <2>3
<1>9. {h[t] : t \in T} = {s \in S : s[1] % IcPar = i}
  <2> HIDE DEF h, S, T
  <2> QED BY <1>7, <1>8
<1> QED BY <1>5, <1>6, <1>9 DEF C, blocks

(* reduce8: the lanes of the input channels *)
LEMMA Reduce8IsReference ==
    ASSUME model \in Models, NEW n \in {2, 3},
           fmap[n - 1] \in [Pixels(size(n), Channels[n]) -> 0 .. ActMax],
           NEW y \in Int, oy = y, NEW x \in Int, NEW c \in Upto(Channels[n + 1])
    PROVE  reduce8(n, x, c) = total(taps(model, n, fmap[n - 1], 1, y, x, c))
<1> DEFINE g == taps(model, n, fmap[n - 1], 1, y, x, c)
           S == Upto(Channels[n]) \X Upto(K) \X Upto(K)
           T == Upto(K) \X Upto(K) \X Upto(Channels[n] \div IcPar)
           I == Upto(IcPar)
           h(i) == [t \in T |-> <<t[3] * IcPar + i, t[1], t[2]>>]
           laneOf == [s \in S |-> s[1] % IcPar]
           lane == [i \in I |-> fold(g)[{s \in S : laneOf[s] = i}]]
<1>1. /\ Channels[n] \in Nat /\ K = 3 /\ IcPar \in Nat /\ IcPar > 0
      /\ Channels[n] \div IcPar \in Nat /\ n \in 1 .. 3
  <2>1. Channels[n] \in Nat /\ K = 3 /\ IcPar \in Nat /\ IcPar > 0
    BY EngineConstants DEF K
  <2>2. Channels[n] \div IcPar \in Nat
    BY <2>1, DivisionFacts
  <2> QED BY <2>1, <2>2
<1>2. Summable(g) /\ DOMAIN g = S
  <2>1. \A p \in DOMAIN fmap[n - 1] : fmap[n - 1][p] \in Int
    BY EngineConstants
  <2>2. Summable(taps(model, n, fmap[n - 1], 1, y, x, c))
    BY <1>1, <2>1, TapsSummable
  <2>3. DOMAIN g = S
    BY DEF taps
  <2> QED BY <2>2, <2>3
<1>3. IsFiniteSet(T) /\ IsFiniteSet(I)
  <2>1. IsFiniteSet(T)
    BY <1>1, FiniteBox
  <2>2. IsFiniteSet(0 .. IcPar - 1)
    <3>1. 0 \in Int /\ IcPar - 1 \in Int
      BY <1>1
    <3> QED BY <3>1, FS_Interval
  <2> QED BY <2>1, <2>2 DEF Upto
<1>4. ASSUME NEW t \in T, NEW i \in I
      PROVE  g[h(i)[t]] = product(n, px(n, oy - 1 + t[1], x - 1 + t[2], t[3] * IcPar + i),
                                  c, t[1], t[2], t[3] * IcPar + i)
  <2> DEFINE ic == t[3] * IcPar + i
             iy == oy - 1 + t[1]
             ix == x - 1 + t[2]
             a == px(n, iy, ix, ic)
             w == model[n].kernel[<<c, ic, t[1], t[2]>>]
  <2>1. h(i)[t] = <<ic, t[1], t[2]>> /\ h(i)[t] \in S
    <3>1. h(i) \in [T -> S]
      BY LaneIndices
    <3> QED BY <3>1
  <2>2. ic \in Upto(Channels[n]) /\ t[1] \in Upto(K) /\ t[2] \in Upto(K)
    BY <2>1
  <2>3. iy \in Int /\ ix \in Int /\ iy = y + t[1] - 1 /\ ix = x + t[2] - 1
    BY <1>1, <2>2 DEF Upto
  <2>4. g[<<ic, t[1], t[2]>>] = w * at(fmap[n - 1], <<y + t[1] - 1, x + t[2] - 1, ic>>)
    <3> HIDE DEF ic
    <3> QED BY <2>2 DEF taps
  <2> HIDE DEF ic, iy, ix
  <2>5. a = at(fmap[n - 1], <<iy, ix, ic>>) /\ a \in Int8
    BY <2>2, <2>3, PaddingIsReference
  <2>6. product(n, a, c, t[1], t[2], ic) = a * w /\ w \in Int
    BY <2>2, <2>5, ProductIsExact
  <2>7. a \in Int
    BY <2>5 DEF Int8
  <2>8. g[<<ic, t[1], t[2]>>] = w * a
    BY <2>3, <2>4, <2>5
  <2> HIDE DEF a, w, g
  <2>9. w * a = a * w
    BY <2>6, <2>7
  <2> QED BY <2>1, <2>6, <2>8, <2>9 DEF a, ic, iy, ix
<1>5. ASSUME NEW i \in I PROVE partial(n, x, c, i) = lane[i]
  <2> DEFINE k == [t \in T |-> g[h(i)[t]]]
  <2>1. /\ h(i) \in [T -> S]
        /\ \A t, u \in T : h(i)[t] = h(i)[u] => t = u
        /\ {h(i)[t] : t \in T} = {s \in S : s[1] % IcPar = i}
    BY LaneIndices
  <2>2. fold(k)[T] = fold(g)[{h(i)[t] : t \in T}]
    <3> DEFINE f == h(i)
    <3> HIDE DEF f, g, S, T
    <3>1. /\ f \in [T -> DOMAIN g] /\ \A t, u \in T : f[t] = f[u] => t = u
      BY <1>2, <2>1 DEF f
    <3>2. fold([t \in T |-> g[f[t]]])[T] = fold(g)[{f[t] : t \in T}]
      BY <1>2, <1>3, <3>1, FoldImage
    <3> QED BY <3>2 DEF f
  <2>3. {s \in S : laneOf[s] = i} = {s \in S : s[1] % IcPar = i}
    OBVIOUS
  <2>4. lane[i] = fold(k)[T]
    <3>1. lane[i] = fold(g)[{s \in S : laneOf[s] = i}]
      OBVIOUS
    <3> HIDE DEF g, k, lane, laneOf, h, T, S
    <3> QED BY <2>1, <2>2, <2>3, <3>1
  <2>5. k = [t \in T |-> product(n, px(n, oy - 1 + t[1], x - 1 + t[2], t[3] * IcPar + i),
                                 c, t[1], t[2], t[3] * IcPar + i)]
    <3> HIDE DEF g, T, h
    <3> QED BY <1>4
  <2>6. partial(n, x, c, i) = total(k)
    BY <2>5 DEF partial
  <2>7. total(k) = fold(k)[T]
    <3>1. DOMAIN k = T
      OBVIOUS
    <3> HIDE DEF k, T
    <3> QED BY <3>1, TotalIsFold
  <2> QED BY <2>4, <2>6, <2>7
<1>6. laneOf \in [S -> I]
  <2>1. \A v \in Upto(Channels[n]) : v % IcPar \in I
    BY <1>1 DEF Upto
  <2> QED BY <2>1
<1>7. fold(lane)[I] = fold(g)[S]
  <2> HIDE DEF g, S, I, laneOf
  <2>1. laneOf \in [DOMAIN g -> I]
    BY <1>2, <1>6
  <2>2. fold([i \in I |-> fold(g)[{s \in DOMAIN g : laneOf[s] = i}]])[I] = fold(g)[DOMAIN g]
    BY <1>2, <1>3, <2>1, FoldLanes
  <2> QED BY <1>2, <2>2
<1>8. reduce8(n, x, c) = total(lane)
  <2>1. lane = [i \in I |-> partial(n, x, c, i)]
    <3> HIDE DEF g, S, laneOf
    <3>1. \A i \in I : partial(n, x, c, i) = fold(g)[{s \in S : laneOf[s] = i}]
      BY <1>5
    <3> QED BY <3>1
  <2> HIDE DEF lane
  <2> QED BY <2>1 DEF reduce8
<1>9. total(lane) = fold(lane)[I] /\ total(g) = fold(g)[S]
  <2>1. DOMAIN lane = I
    OBVIOUS
  <2> HIDE DEF lane, I, g, S
  <2> QED BY <1>2, <2>1, TotalIsFold
<1> QED BY <1>7, <1>8, <1>9

-----------------------------------------------------------------------------
(* The map that layer n is to compute, before pooling *)
Ref(n) == IF n = 1 THEN Conv(model, 1, image, 0) ELSE Conv(model, n, fmap[n - 1], 1)

Buffers == [n \in 1 .. 3 |-> Upto(2) \X Upto(size(n)) \X Upto(Channels[n + 1])]
Pooled  == [n \in 1 .. 3 |-> Pixels(size(n) \div 2, Channels[n + 1])]

LayerDone(n) == fmap[n] = Pool(n, Ref(n))

(* Rows of the running layer that are pooled, and the row that waits *)
RowsDone ==
    /\ \A p \in Pooled[layer] : p[1] < oy \div 2 => fmap[layer][p] = Pool(layer, Ref(layer))[p]
    /\ oy % 2 = 1 => \A x \in Upto(size(layer)), c \in Upto(Channels[layer + 1]) :
                        row_buf[layer][<<0, x, c>>] = Ref(layer)[<<oy - 1, x, c>>]

EngineType ==
    /\ layer \in 0 .. 3 /\ runs \in Nat
    /\ image \in Images /\ model \in Models
    /\ layer # 0 => oy \in Upto(size(layer))
    /\ row_buf = [n \in 1 .. 3 |-> row_buf[n]] /\ \A n \in 1 .. 3 : row_buf[n] \in [Buffers[n] -> 0 .. ActMax]
    /\ fmap = [n \in 1 .. 3 |-> fmap[n]] /\ \A n \in 1 .. 3 : fmap[n] \in [Pooled[n] -> 0 .. ActMax]

(* Layers before the running one are done for this image: what an earlier  *)
(* image left in the buffers is overwritten before it is read.             *)
EngineInv ==
    /\ EngineType
    /\ \A n \in 1 .. 3 : (n < layer \/ (layer = 0 /\ runs > 0)) => LayerDone(n)
    /\ layer # 0 => RowsDone

LEMMA ConvAt ==
    ASSUME NEW m, NEW n, NEW map, NEW pad, NEW y \in Upto(size(n)), NEW x \in Upto(size(n)),
           NEW c \in Upto(Channels[n + 1])
    PROVE  Conv(m, n, map, pad)[<<y, x, c>>] =
             requant_relu(stored(m[n].bias[c] + total(taps(m, n, map, pad, y, x, c)), AccRange), m[n].rq)
<1>1. <<y, x, c>> \in Pixels(size(n), Channels[n + 1])
  BY DEF Pixels
<1> QED BY <1>1 DEF Conv, taps

LEMMA TotalInt ==
    ASSUME NEW g, Summable(g) PROVE total(g) \in Int
BY TotalIsFold, FoldInt

LEMMA ConvolveIsReference ==
    ASSUME EngineType, NEW n \in 1 .. 3, layer = n, NEW x \in Upto(size(n)), NEW c \in Upto(Channels[n + 1])
    PROVE  convolve(n, x, c) = Ref(n)[<<oy, x, c>>] /\ convolve(n, x, c) \in 0 .. ActMax
<1>1. oy \in Upto(size(n)) /\ model \in Models /\ model[n].bias[c] \in Int
  <2>1. oy \in Upto(size(n)) /\ model \in Models
    BY DEF EngineType
  <2> QED BY <2>1, ModelType
<1>2. \A map, pad, sum : sum = total(taps(model, n, map, pad, oy, x, c)) /\ sum \in Int
          /\ convolve(n, x, c) = requant_relu(stored(model[n].bias[c] + sum, AccRange), model[n].rq)
          /\ Ref(n) = Conv(model, n, map, pad)
        => convolve(n, x, c) = Ref(n)[<<oy, x, c>>] /\ convolve(n, x, c) \in 0 .. ActMax
  <2>1. SUFFICES ASSUME NEW map, NEW pad, NEW sum \in Int,
                        sum = total(taps(model, n, map, pad, oy, x, c)),
                        convolve(n, x, c) = requant_relu(stored(model[n].bias[c] + sum, AccRange), model[n].rq),
                        Ref(n) = Conv(model, n, map, pad)
                 PROVE  convolve(n, x, c) = Ref(n)[<<oy, x, c>>] /\ convolve(n, x, c) \in 0 .. ActMax
    OBVIOUS
  <2>2. model[n].bias[c] + sum \in Int
    BY <1>1
  <2>3. convolve(n, x, c) \in 0 .. ActMax
    BY <1>1, <2>1, <2>2, ActivationRange
  <2>4. Conv(model, n, map, pad)[<<oy, x, c>>] =
          requant_relu(stored(model[n].bias[c] + total(taps(model, n, map, pad, oy, x, c)), AccRange), model[n].rq)
    BY <1>1, ConvAt
  <2> QED BY <2>1, <2>3, <2>4
<1>3. CASE n = 1
  <2> DEFINE g == taps(model, 1, image, 0, oy, x, c)
  <2>1. image \in [Pixels(Size + 2, Channels[1]) -> Int8]
    BY EngineAssumption DEF EngineType
  <2>2. x \in Upto(Size) /\ oy \in Upto(Size) /\ c \in Upto(Channels[2]) /\ c \in Upto(Channels[1 + 1])
    BY <1>1, <1>3, LayerSizes
  <2>3. dot27(x, c) = total(g)
    BY <1>1, <2>1, <2>2, Dot27IsReference
  <2>4. total(g) \in Int
    <3>1. \A p \in DOMAIN image : image[p] \in Int
      BY <2>1 DEF Int8
    <3>2. 1 \in 1 .. 3 /\ 0 \in Int /\ oy \in Int /\ x \in Int
      BY <2>2 DEF Upto
    <3>3. Summable(taps(model, 1, image, 0, oy, x, c))
      BY <1>1, <2>2, <3>1, <3>2, TapsSummable
    <3> QED BY <3>3, TotalInt
  <2>5. /\ convolve(n, x, c) = requant_relu(stored(model[n].bias[c] + total(g), AccRange), model[n].rq)
        /\ Ref(n) = Conv(model, n, image, 0)
    BY <1>3, <2>3 DEF convolve, Ref
  <2> QED BY <1>2, <1>3, <2>4, <2>5
<1>4. CASE n \in {2, 3}
  <2> DEFINE g == taps(model, n, fmap[n - 1], 1, oy, x, c)
  <2>1. fmap[n - 1] \in [Pixels(size(n), Channels[n]) -> 0 .. ActMax]
    <3>1. n - 1 \in 1 .. 3 /\ (n - 1) + 1 = n /\ size(n) = size(n - 1) \div 2
      BY <1>4, LayerSizes
    <3>2. fmap[n - 1] \in [Pooled[n - 1] -> 0 .. ActMax]
      BY <3>1 DEF EngineType
    <3> QED BY <3>1, <3>2 DEF Pooled
  <2>2. oy \in Int /\ x \in Int
    BY <1>1 DEF Upto
  <2>3. reduce8(n, x, c) = total(g)
    BY <1>1, <1>4, <2>1, <2>2, Reduce8IsReference
  <2>4. total(g) \in Int
    <3>1. \A p \in DOMAIN fmap[n - 1] : fmap[n - 1][p] \in Int
      BY <2>1, EngineConstants
    <3> DEFINE map == fmap[n - 1]
    <3>2. Summable(taps(model, n, map, 1, oy, x, c))
      <4> HIDE DEF map
      <4>1. \A p \in DOMAIN map : map[p] \in Int
        BY <3>1 DEF map
      <4>2. 1 \in Int /\ model \in Models
        BY <1>1
      <4> QED BY <2>2, <4>1, <4>2, TapsSummable
    <3> QED BY <3>2, TotalInt
  <2>5. /\ convolve(n, x, c) = requant_relu(stored(model[n].bias[c] + total(g), AccRange), model[n].rq)
        /\ Ref(n) = Conv(model, n, fmap[n - 1], 1)
    BY <1>4, <2>3 DEF convolve, Ref
  <2> QED BY <1>2, <2>4, <2>5
<1> QED BY <1>3, <1>4

LEMMA EngineInitInv == EngineInit(Images, Models) => EngineInv
<1>1. SUFFICES ASSUME EngineInit(Images, Models) PROVE EngineInv
  OBVIOUS
<1>2. ActMax \in 0 .. ActMax
  BY EngineConstants
<1>3. EngineType
  BY <1>1, <1>2 DEF EngineInit, EngineType, Buffers, Pooled
<1> QED BY <1>1, <1>3 DEF EngineInit, EngineInv

LEMMA ApStartInv ==
    ASSUME EngineInv, NEW im \in Images, ApStart(im) PROVE EngineInv'
<1>1. EngineType'
  <2>1. size(1) \in Nat /\ size(1) > 0
    BY LayerSizes
  <2>2. 0 \in Upto(size(1))
    BY <2>1 DEF Upto
  <2> QED BY <2>2 DEF EngineInv, EngineType, ApStart
<1>2. RowsDone'
  <2>1. layer' = 1 /\ oy' = 0
    BY DEF ApStart
  <2>2. \A p \in Pooled[1] : ~(p[1] < 0 \div 2)
    <3>1. 1 \in 1 .. 3 /\ 0 \div 2 = 0
      OBVIOUS
    <3> QED BY <3>1 DEF Pooled, Pixels, Upto
  <2>3. 0 % 2 # 1
    OBVIOUS
  <2> QED BY <2>1, <2>2, <2>3 DEF RowsDone
<1>3. layer' = 1
  BY DEF ApStart
<1> QED BY <1>1, <1>2, <1>3 DEF EngineInv

(* What a step computes: the row in the buffer, and the pooled pair *)
LEMMA RowBuffer ==
    ASSUME EngineType, NEW n \in 1 .. 3, layer = n
    PROVE  LET buf == [p \in DOMAIN row_buf[n] |->
                         IF p[1] = oy % 2 THEN convolve(n, p[2], p[3]) ELSE row_buf[n][p]]
           IN  /\ buf \in [Buffers[n] -> 0 .. ActMax]
               /\ \A x \in Upto(size(n)), c \in Upto(Channels[n + 1]) :
                     /\ buf[<<oy % 2, x, c>>] = Ref(n)[<<oy, x, c>>]
                     /\ oy % 2 = 1 => buf[<<0, x, c>>] = row_buf[n][<<0, x, c>>]
<1> DEFINE buf == [p \in DOMAIN row_buf[n] |->
                     IF p[1] = oy % 2 THEN convolve(n, p[2], p[3]) ELSE row_buf[n][p]]
           B == Upto(2) \X Upto(size(n)) \X Upto(Channels[n + 1])
<1>1. Buffers[n] = B
  BY DEF Buffers
<1>2. row_buf[n] \in [B -> 0 .. ActMax]
  BY <1>1 DEF EngineType
<1>3. \A x \in Upto(size(n)), c \in Upto(Channels[n + 1]) :
          convolve(n, x, c) = Ref(n)[<<oy, x, c>>] /\ convolve(n, x, c) \in 0 .. ActMax
  BY ConvolveIsReference
<1>4. buf = [p \in B |-> IF p[1] = oy % 2 THEN convolve(n, p[2], p[3]) ELSE row_buf[n][p]]
  BY <1>2
<1> HIDE DEF buf
<1>5. buf \in [B -> 0 .. ActMax]
  BY <1>2, <1>3, <1>4
<1>6. oy % 2 \in Upto(2) /\ 0 \in Upto(2)
  BY DEF EngineType, Upto
<1>7. ASSUME NEW x \in Upto(size(n)), NEW c \in Upto(Channels[n + 1])
      PROVE  /\ buf[<<oy % 2, x, c>>] = Ref(n)[<<oy, x, c>>]
             /\ oy % 2 = 1 => buf[<<0, x, c>>] = row_buf[n][<<0, x, c>>]
  <2>1. <<oy % 2, x, c>> \in B /\ <<0, x, c>> \in B
    BY <1>6
  <2>2. buf[<<oy % 2, x, c>>] = convolve(n, x, c)
    BY <1>4, <2>1
  <2>3. oy % 2 = 1 => buf[<<0, x, c>>] = row_buf[n][<<0, x, c>>]
    BY <1>4, <2>1
  <2> QED BY <1>3, <2>2, <2>3
<1> QED BY <1>1, <1>5, <1>7 DEF buf

(* The buffer holds rows y - 1 and y of a map. *)
HoldsPair(n, buf, R, y) ==
    \A x \in Upto(size(n)), c \in Upto(Channels[n + 1]) :
        buf[<<1, x, c>>] = R[<<y, x, c>>] /\ buf[<<0, x, c>>] = R[<<y - 1, x, c>>]

(* The maximum over a pair of rows of the buffer *)
LEMMA PoolOfBuffer ==
    ASSUME NEW n \in 1 .. 3, NEW R, NEW y \in Upto(size(n)), y % 2 = 1, NEW buf,
           buf \in [Buffers[n] -> 0 .. ActMax], HoldsPair(n, buf, R, y),
           NEW p \in Pooled[n], p[1] = y \div 2
    PROVE  Max2x2(buf, p[2], p[3]) = Pool(n, R)[p] /\ Max2x2(buf, p[2], p[3]) \in 0 .. ActMax
<1> DEFINE S == {buf[<<r, 2 * p[2] + d, p[3]>>] : r, d \in {0, 1}}
           Q == {R[<<2 * p[1] + r, 2 * p[2] + d, p[3]>>] : r, d \in {0, 1}}
<1>1. Pooled[n] = Pixels(size(n) \div 2, Channels[n + 1])
  BY DEF Pooled
<1>2. /\ p[2] \in Upto(size(n) \div 2) /\ p[3] \in Upto(Channels[n + 1])
  BY <1>1 DEF Pixels
<1>3. size(n) \in Nat /\ size(n) = 2 * (size(n) \div 2)
  BY LayerSizes
<1>4. \A d \in {0, 1} : 2 * p[2] + d \in Upto(size(n))
  BY <1>2, <1>3 DEF Upto
<1>5. 2 * p[1] + 0 = y - 1 /\ 2 * p[1] + 1 = y
  BY <1>3 DEF Upto
<1>6. \A d \in {0, 1} : /\ buf[<<0, 2 * p[2] + d, p[3]>>] = R[<<2 * p[1] + 0, 2 * p[2] + d, p[3]>>]
                         /\ buf[<<1, 2 * p[2] + d, p[3]>>] = R[<<2 * p[1] + 1, 2 * p[2] + d, p[3]>>]
  BY <1>2, <1>4, <1>5 DEF HoldsPair
<1>7. \A r, d \in {0, 1} : buf[<<r, 2 * p[2] + d, p[3]>>] = R[<<2 * p[1] + r, 2 * p[2] + d, p[3]>>]
  <2>1. SUFFICES ASSUME NEW r \in {0, 1}, NEW d \in {0, 1}
                 PROVE  buf[<<r, 2 * p[2] + d, p[3]>>] = R[<<2 * p[1] + r, 2 * p[2] + d, p[3]>>]
    OBVIOUS
  <2>2. CASE r = 0
    BY <1>6, <2>2, Zenon
  <2>3. CASE r = 1
    BY <1>6, <2>3, Zenon
  <2> QED BY <2>2, <2>3
<1>8. S = Q
  BY <1>7
<1>9. S \in SUBSET (0 .. ActMax) /\ S # {}
  <2>1. \A r, d \in {0, 1} : <<r, 2 * p[2] + d, p[3]>> \in Buffers[n]
    BY <1>2, <1>4 DEF Buffers, Upto
  <2>2. \A r, d \in {0, 1} : buf[<<r, 2 * p[2] + d, p[3]>>] \in 0 .. ActMax
    BY <2>1
  <2> QED BY <2>2
<1>10. Max(S) \in 0 .. ActMax
  <2> HIDE DEF S
  <2> QED BY <1>9, MaxActivation
<1>11. Pool(n, R)[p] = Max(Q)
  <2>1. Pool(n, R)[p] = Max(block(R, p))
    BY <1>1 DEF Pool
  <2>2. block(R, p) = Q
    BY DEF block
  <2> QED BY <2>1, <2>2
<1>12. Max2x2(buf, p[2], p[3]) = Max(S)
  BY DEF Max2x2
<1> HIDE DEF S, Q
<1> QED BY <1>8, <1>10, <1>11, <1>12

LEMMA RowInv ==
    ASSUME EngineInv, NEW n \in 1 .. 3, Row(n) PROVE EngineInv'
<1> DEFINE R == Ref(n)
           N == size(n)
           buf == [p \in DOMAIN row_buf[n] |->
                     IF p[1] = oy % 2 THEN convolve(n, p[2], p[3]) ELSE row_buf[n][p]]
           map == IF oy % 2 = 1
                  THEN [p \in Pooled[n] |->
                          IF p[1] = oy \div 2 THEN Max2x2(buf, p[2], p[3]) ELSE fmap[n][p]]
                  ELSE fmap[n]
<1>1. /\ EngineType /\ layer = n /\ RowsDone /\ UNCHANGED <<image, model, runs>>
      /\ \A k \in 1 .. 3 : k < n => LayerDone(k)
      /\ row_buf' = [row_buf EXCEPT ![n] = buf]
      /\ IF oy + 1 < N THEN oy' = oy + 1 /\ layer' = n ELSE oy' = 0 /\ layer' = (n + 1) % 4
  BY DEF EngineInv, Row
<1>2. /\ oy \in Nat /\ oy < N /\ N \in Nat /\ N > 0 /\ N = 2 * (N \div 2) /\ oy \in Upto(N)
      /\ fmap = [k \in 1 .. 3 |-> fmap[k]] /\ row_buf = [k \in 1 .. 3 |-> row_buf[k]]
      /\ \A k \in 1 .. 3 : row_buf[k] \in [Buffers[k] -> 0 .. ActMax]
      /\ \A k \in 1 .. 3 : fmap[k] \in [Pooled[k] -> 0 .. ActMax]
  <2>1. oy \in Upto(N)
    BY <1>1 DEF EngineType
  <2>2. N \in Nat /\ N > 0 /\ N = 2 * (N \div 2)
    BY LayerSizes
  <2> HIDE DEF N
  <2>3. oy \in Nat /\ oy < N
    BY <2>1, <2>2 DEF Upto
  <2> QED BY <1>1, <2>1, <2>2, <2>3 DEF EngineType
<1>3. fmap' = [fmap EXCEPT ![n] = map]
  <2>1. DOMAIN fmap[n] = Pooled[n]
    BY <1>2
  <2>2. fmap' = IF oy % 2 = 1
                THEN [fmap EXCEPT ![n] = [p \in DOMAIN fmap[n] |->
                        IF p[1] = oy \div 2 THEN Max2x2(buf, p[2], p[3]) ELSE fmap[n][p]]]
                ELSE fmap
    BY DEF Row, pairComplete
  <2>3. fmap = [fmap EXCEPT ![n] = fmap[n]]
    BY <1>2
  <2> HIDE DEF buf
  <2> QED BY <2>1, <2>2, <2>3
<1>4. /\ buf \in [Buffers[n] -> 0 .. ActMax]
      /\ \A x \in Upto(N), c \in Upto(Channels[n + 1]) :
            /\ buf[<<oy % 2, x, c>>] = R[<<oy, x, c>>]
            /\ oy % 2 = 1 => buf[<<0, x, c>>] = row_buf[n][<<0, x, c>>]
  BY <1>1, RowBuffer
<1> HIDE DEF buf
<1>5. ASSUME oy % 2 = 1, NEW p \in Pooled[n], p[1] = oy \div 2
      PROVE  Max2x2(buf, p[2], p[3]) = Pool(n, R)[p] /\ Max2x2(buf, p[2], p[3]) \in 0 .. ActMax
  <2>1. \A x \in Upto(N), c \in Upto(Channels[n + 1]) :
           buf[<<1, x, c>>] = R[<<oy, x, c>>] /\ buf[<<0, x, c>>] = R[<<oy - 1, x, c>>]
    <3>1. \A x \in Upto(N), c \in Upto(Channels[n + 1]) : row_buf[n][<<0, x, c>>] = R[<<oy - 1, x, c>>]
      BY <1>1, <1>5 DEF RowsDone
    <3> HIDE DEF R
    <3> QED BY <1>4, <1>5, <3>1
  <2> HIDE DEF R
  <2>2. oy \in Upto(size(n)) /\ buf \in [Buffers[n] -> 0 .. ActMax]
    BY <1>2, <1>4
  <2>3. \A y : y = oy => Max2x2(buf, p[2], p[3]) = Pool(n, R)[p] /\ Max2x2(buf, p[2], p[3]) \in 0 .. ActMax
    <3>1. SUFFICES ASSUME NEW y \in Upto(size(n)), y = oy
                   PROVE  Max2x2(buf, p[2], p[3]) = Pool(n, R)[p] /\ Max2x2(buf, p[2], p[3]) \in 0 .. ActMax
      BY <2>2
    <3>2. y % 2 = 1 /\ p[1] = y \div 2
      BY <1>5, <3>1
    <3>3. HoldsPair(n, buf, R, y)
      BY <2>1, <3>1 DEF HoldsPair
    <3> QED BY <2>2, <3>2, <3>3, PoolOfBuffer
  <2> QED BY <2>3
<1>6. map \in [Pooled[n] -> 0 .. ActMax]
  BY <1>2, <1>5
<1>7. \A p \in Pooled[n] : p[1] < (oy + 1) \div 2 => map[p] = Pool(n, R)[p]
  <2>1. SUFFICES ASSUME NEW p \in Pooled[n], p[1] < (oy + 1) \div 2 PROVE map[p] = Pool(n, R)[p]
    OBVIOUS
  <2>2. p[1] \in Nat
    BY <1>2 DEF Pooled, Pixels, Upto
  <2>3. p[1] < oy \div 2 => fmap[n][p] = Pool(n, R)[p]
    BY <1>1 DEF RowsDone
  <2>4. CASE oy % 2 = 1
    <3>1. p[1] = oy \div 2 \/ p[1] < oy \div 2
      BY <1>2, <2>1, <2>2, <2>4
    <3>2. map[p] = IF p[1] = oy \div 2 THEN Max2x2(buf, p[2], p[3]) ELSE fmap[n][p]
      BY <2>4
    <3> HIDE DEF map, R
    <3> QED BY <1>5, <2>3, <2>4, <3>1, <3>2
  <2>5. CASE oy % 2 # 1
    <3>1. p[1] < oy \div 2
      BY <1>2, <2>1, <2>2, <2>5
    <3>2. map = fmap[n]
      BY <2>5
    <3> HIDE DEF map, R
    <3> QED BY <2>3, <3>1, <3>2
  <2> QED BY <2>4, <2>5
<1> HIDE DEF map
<1>8. /\ fmap'[n] = map /\ fmap' = [k \in 1 .. 3 |-> fmap'[k]] /\ \A k \in 1 .. 3 : k # n => fmap'[k] = fmap[k]
      /\ row_buf'[n] = buf /\ row_buf' = [k \in 1 .. 3 |-> row_buf'[k]] /\ \A k \in 1 .. 3 : k # n => row_buf'[k] = row_buf[k]
  BY <1>1, <1>2, <1>3
<1>9. \A k \in 1 .. 3 : k <= n => Ref(k)' = Ref(k)
  <2>1. SUFFICES ASSUME NEW k \in 1 .. 3, k <= n PROVE Ref(k)' = Ref(k)
    OBVIOUS
  <2>2. k # 1 => fmap'[k - 1] = fmap[k - 1]
    BY <1>8, <2>1
  <2> QED BY <1>1, <2>2 DEF Ref
<1>10. EngineType'
  <2>1. layer' \in 0 .. 3 /\ (layer' # 0 => oy' \in Upto(size(layer')))
    <3>1. CASE oy + 1 < N
      BY <1>1, <1>2, <3>1 DEF Upto
    <3>2. CASE ~(oy + 1 < N)
      <4>1. layer' \in 0 .. 3 /\ oy' = 0
        BY <1>1, <3>2
      <4>2. layer' # 0 => size(layer') \in Nat /\ size(layer') > 0
        BY <4>1, LayerSizes
      <4> QED BY <4>1, <4>2 DEF Upto
    <3> QED BY <3>1, <3>2
  <2>2. \A k \in 1 .. 3 : row_buf'[k] \in [Buffers[k] -> 0 .. ActMax] /\ fmap'[k] \in [Pooled[k] -> 0 .. ActMax]
    BY <1>2, <1>4, <1>6, <1>8
  <2> QED BY <1>1, <1>8, <2>1, <2>2 DEF EngineType
<1>11. \A k \in 1 .. 3 : k < n => LayerDone(k)'
  <2>1. SUFFICES ASSUME NEW k \in 1 .. 3, k < n PROVE fmap'[k] = Pool(k, Ref(k)')
    BY DEF LayerDone
  <2>2. fmap'[k] = fmap[k] /\ Ref(k)' = Ref(k)
    BY <1>8, <1>9, <2>1
  <2> QED BY <1>1, <2>1, <2>2 DEF LayerDone
<1>12. CASE oy + 1 < N
  <2>1. layer' = n /\ oy' = oy + 1
    BY <1>1, <1>12
  <2>2. Ref(n)' = R
    BY <1>9
  <2>3. \A p \in Pooled[n] : p[1] < oy' \div 2 => fmap'[n][p] = Pool(n, R)[p]
    BY <1>7, <1>8, <2>1
  <2>4. oy' % 2 = 1 => \A x \in Upto(N), c \in Upto(Channels[n + 1]) :
                          row_buf'[n][<<0, x, c>>] = R[<<oy' - 1, x, c>>]
    <3>1. oy' % 2 = 1 => oy % 2 = 0 /\ oy' - 1 = oy
      BY <1>2, <2>1
    <3> QED BY <1>4, <1>8, <3>1
  <2>5. RowsDone'
    <3> HIDE DEF R
    <3> QED BY <2>1, <2>2, <2>3, <2>4 DEF RowsDone
  <2> QED BY <1>10, <1>11, <2>1, <2>5 DEF EngineInv
<1>13. CASE ~(oy + 1 < N)
  <2>1. oy + 1 = N /\ (oy + 1) \div 2 = N \div 2
    BY <1>2, <1>13
  <2>2. \A p \in Pooled[n] : map[p] = Pool(n, R)[p]
    <3>1. \A p \in Pooled[n] : p[1] < N \div 2
      BY <1>2 DEF Pooled, Pixels, Upto
    <3> QED BY <1>7, <2>1, <3>1
  <2>3. map = Pool(n, R)
    <3>1. DOMAIN Pool(n, R) = Pooled[n] /\ Pool(n, R) = [p \in Pooled[n] |-> Pool(n, R)[p]]
      BY DEF Pool, Pooled
    <3>2. map = [p \in Pooled[n] |-> map[p]]
      BY <1>6
    <3> HIDE DEF R
    <3> QED BY <2>2, <3>1, <3>2
  <2>4. LayerDone(n)'
    <3>1. fmap'[n] = Pool(n, Ref(n)')
      BY <1>8, <1>9, <2>3
    <3> QED BY <3>1 DEF LayerDone
  <2>5. \A k \in 1 .. 3 : k <= n => LayerDone(k)'
    BY <1>11, <2>4
  <2>6. layer' = (n + 1) % 4 /\ oy' = 0
    BY <1>1, <1>13
  <2>7. \A k \in 1 .. 3 : (k < layer' \/ layer' = 0) => k <= n
    BY <2>6
  <2>8. layer' # 0 => RowsDone'
    <3>1. SUFFICES ASSUME layer' # 0 PROVE RowsDone'
      OBVIOUS
    <3>2. layer' \in 1 .. 3 /\ 0 \div 2 = 0 /\ 0 % 2 # 1
      BY <2>6, <3>1
    <3>3. \A p \in Pooled[layer'] : ~(p[1] < 0)
      BY <3>2 DEF Pooled, Pixels, Upto
    <3> QED BY <2>6, <3>2, <3>3 DEF RowsDone
  <2> QED BY <1>10, <2>5, <2>7, <2>8 DEF EngineInv
<1> QED BY <1>12, <1>13

LEMMA EngineInvariant == EngineSpec => []EngineInv
<1>1. EngineInv /\ [EngineNext]_engineVars => EngineInv'
  <2>1. SUFFICES ASSUME EngineInv, [EngineNext]_engineVars PROVE EngineInv'
    OBVIOUS
  <2>2. CASE \E im \in Images : ApStart(im)
    BY <2>1, <2>2, ApStartInv
  <2>3. CASE \E n \in 1 .. 3 : Row(n)
    BY <2>1, <2>3, RowInv
  <2>4. CASE UNCHANGED engineVars
    <3>1. \A n : Ref(n)' = Ref(n)
      BY <2>4 DEF engineVars, Ref
    <3> QED BY <2>1, <2>4, <3>1 DEF engineVars, EngineInv, EngineType, LayerDone, RowsDone
  <2> QED BY <2>1, <2>2, <2>3, <2>4 DEF EngineNext
<1> QED BY <1>1, EngineInitInv, PTL DEF EngineSpec

(* For every size, number of channels and lanes, every model and every     *)
(* sequence of images: after a run the output buffer of classifier_top     *)
(* holds the three convolutions and poolings of the image of this run.     *)
THEOREM EngineComputesReference == EngineSpec => []OutputIsReference
<1>1. EngineInv => OutputIsReference
  <2>1. SUFFICES ASSUME EngineInv, layer = 0, runs > 0
                 PROVE  /\ fmap[1] = Pool(1, Conv(model, 1, image, 0))
                        /\ \A n \in {2, 3} : fmap[n] = Pool(n, Conv(model, n, fmap[n - 1], 1))
    BY DEF OutputIsReference
  <2>2. \A n \in 1 .. 3 : fmap[n] = Pool(n, Ref(n))
    BY <2>1 DEF EngineInv, LayerDone
  <2>3. Ref(1) = Conv(model, 1, image, 0)
    BY DEF Ref
  <2>4. \A n \in {2, 3} : n \in 1 .. 3 /\ Ref(n) = Conv(model, n, fmap[n - 1], 1)
    BY DEF Ref
  <2> QED BY <2>2, <2>3, <2>4
<1> QED BY <1>1, EngineInvariant, PTL
=============================================================================
