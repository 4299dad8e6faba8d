---------------------------- MODULE FoldTheorems ----------------------------
(***************************************************************************)
(* Folds over a finite set, one element after the other, in the order that *)
(* `pick` gives.  FoldLeft and MapThenSumSet of the community modules are  *)
(* folds in this sense: INSTANCE this module WITH the operator they are    *)
(* given.  The first argument of op is whatever else the operator reads.   *)
(* That a set of naturals that has an element has a least one is a premise *)
(* of these theorems, for the module that cites them to prove: a module    *)
(* that INSTANCEs this one many times then has no library many times.      *)
(***************************************************************************)
EXTENDS Integers, TLAPS

CONSTANTS op(_, _, _), pick(_)

(* The function that MapThenFoldSet defines by recursion. *)
Folds(ctx, base, S, f) ==
  f = [s \in SUBSET S |-> IF s = {} THEN base ELSE op(ctx, f[s \ {pick(s)}], pick(s))]

-----------------------------------------------------------------------------
(* A measure of the subsets of S, b at most, that every element taken away
   makes less. *)
Measures(S, h, b) == \A s \in SUBSET S : /\ h[s] \in 0 .. b
                                         /\ s # {} => h[s \ {pick(s)}] < h[s]

(* Subsets of measure m at most, and a fold of these. *)
Small(S, h, m) == {s \in SUBSET S : h[s] <= m}
FoldsSmall(ctx, base, S, h, m, f) ==
  f = [s \in Small(S, h, m) |->
         IF s = {} THEN base ELSE op(ctx, f[s \ {pick(s)}], pick(s))]

(* A fold of the subsets of measure m at most extends to m + 1. *)
LEMMA FoldExtends ==
  ASSUME NEW ctx, NEW base, NEW S, NEW b \in Nat, NEW h, Measures(S, h, b), NEW m \in Nat,
         NEW f, FoldsSmall(ctx, base, S, h, m, f)
  PROVE  \E g : FoldsSmall(ctx, base, S, h, m + 1, g)
<1> DEFINE g == [s \in Small(S, h, m + 1) |->
                   IF s = {} THEN base ELSE op(ctx, f[s \ {pick(s)}], pick(s))]
<1>1. ASSUME NEW s \in Small(S, h, m + 1), s # {}
      PROVE  s \ {pick(s)} \in Small(S, h, m) /\ s \ {pick(s)} \in Small(S, h, m + 1)
  <2>1. s \in SUBSET S /\ h[s] <= m + 1
    BY DEF Small
  <2> DEFINE r == s \ {pick(s)}
  <2>2. r \in SUBSET S
    BY <2>1
  <2>3. h[s] \in 0 .. b /\ h[r] < h[s]
    BY <2>1, <1>1 DEF Measures
  <2> HIDE DEF r
  <2>4. h[r] \in 0 .. b
    BY <2>2 DEF Measures
  <2>5. h[r] <= m /\ h[r] <= m + 1
    BY <2>1, <2>3, <2>4
  <2>6. r \in Small(S, h, m) /\ r \in Small(S, h, m + 1)
    BY <2>2, <2>5 DEF Small
  <2> QED
    BY <2>6 DEF r
<1>2. ASSUME NEW s \in Small(S, h, m)
      PROVE  g[s] = f[s]
  <2>1. s \in Small(S, h, m + 1)
    <3>1. s \in SUBSET S /\ h[s] <= m
      BY DEF Small
    <3>2. h[s] \in 0 .. b
      BY <3>1 DEF Measures
    <3> QED
      BY <3>1, <3>2 DEF Small
  <2>2. g[s] = IF s = {} THEN base ELSE op(ctx, f[s \ {pick(s)}], pick(s))
    BY <2>1
  <2>3. f[s] = IF s = {} THEN base ELSE op(ctx, f[s \ {pick(s)}], pick(s))
    BY DEF FoldsSmall
  <2> QED
    BY <2>2, <2>3
<1>3. ASSUME NEW s \in Small(S, h, m + 1)
      PROVE  g[s] = IF s = {} THEN base ELSE op(ctx, g[s \ {pick(s)}], pick(s))
  <2>1. CASE s = {}
    BY <2>1
  <2>2. CASE s # {}
    <3>1. g[s \ {pick(s)}] = f[s \ {pick(s)}]
      BY <2>2, <1>1, <1>2
    <3>2. g[s] = op(ctx, f[s \ {pick(s)}], pick(s))
      BY <2>2
    <3> QED
      BY <2>2, <3>1, <3>2
  <2> QED
    BY <2>1, <2>2
<1>4. g = [s \in Small(S, h, m + 1) |-> g[s]]
  OBVIOUS
<1> HIDE DEF g
<1>5. [s \in Small(S, h, m + 1) |-> g[s]]
        = [s \in Small(S, h, m + 1) |->
             IF s = {} THEN base ELSE op(ctx, g[s \ {pick(s)}], pick(s))]
  BY <1>3
<1>6. FoldsSmall(ctx, base, S, h, m + 1, g)
  BY <1>4, <1>5 DEF FoldsSmall
<1> QED
  BY <1>6

(* Every fold of a set with a measure has a value: otherwise there would be
   a least measure up to which it has none. *)
THEOREM MeasuredFold ==
  ASSUME \A B \in SUBSET Nat : B # {} => \E m \in B : \A k \in B : m <= k,
         NEW ctx, NEW base, NEW S, NEW b \in Nat, NEW h, Measures(S, h, b)
  PROVE  \E f : Folds(ctx, base, S, f)
<1> DEFINE Bad == {m \in Nat : ~\E f : FoldsSmall(ctx, base, S, h, m, f)}
<1>1. ASSUME NEW m \in Nat PROVE \E f : FoldsSmall(ctx, base, S, h, m, f)
  <2>1. SUFFICES ASSUME Bad # {} PROVE FALSE
    OBVIOUS
  <2>2. PICK k \in Bad : \A j \in Bad : k <= j
    <3>1. Bad \in SUBSET Nat
      OBVIOUS
    <3> HIDE DEF Bad
    <3> QED
      BY <2>1, <3>1
  <2>3. CASE k = 0
    <3>1. ASSUME NEW s \in Small(S, h, 0) PROVE s = {}
      <4>1. s \in SUBSET S /\ h[s] <= 0
        BY DEF Small
      <4> DEFINE r == s \ {pick(s)}
      <4>2. r \in SUBSET S
        BY <4>1
      <4>3. h[s] \in 0 .. b /\ (s # {} => h[r] < h[s])
        BY <4>1 DEF Measures
      <4> HIDE DEF r
      <4>4. h[r] \in 0 .. b
        BY <4>2 DEF Measures
      <4> QED
        BY <4>1, <4>3, <4>4
    <3> DEFINE g == [s \in Small(S, h, 0) |-> base]
    <3>2. \A s \in Small(S, h, 0) :
            g[s] = IF s = {} THEN base ELSE op(ctx, g[s \ {pick(s)}], pick(s))
      BY <3>1
    <3>3. g = [s \in Small(S, h, 0) |-> g[s]]
      OBVIOUS
    <3> HIDE DEF g
    <3>4. [s \in Small(S, h, 0) |-> g[s]]
            = [s \in Small(S, h, 0) |->
                 IF s = {} THEN base ELSE op(ctx, g[s \ {pick(s)}], pick(s))]
      BY <3>2
    <3>5. FoldsSmall(ctx, base, S, h, 0, g)
      BY <3>3, <3>4 DEF FoldsSmall
    <3> QED
      BY <3>5, <2>3
  <2>4. CASE k # 0
    <3>1. k - 1 \in Nat /\ ~(k <= k - 1) /\ (k - 1) + 1 = k
      BY <2>4
    <3>2. PICK f : FoldsSmall(ctx, base, S, h, k - 1, f)
      BY <3>1, <2>2
    <3>3. \E g : FoldsSmall(ctx, base, S, h, (k - 1) + 1, g)
      BY <3>1, <3>2, FoldExtends
    <3> QED
      BY <3>1, <3>3
  <2> QED
    BY <2>3, <2>4
<1>2. Small(S, h, b) = SUBSET S
  <2>1. ASSUME NEW s \in SUBSET S PROVE h[s] <= b
    <3>1. h[s] \in 0 .. b
      BY DEF Measures
    <3> QED
      BY <3>1
  <2> QED
    BY <2>1 DEF Small
<1>3. PICK f : FoldsSmall(ctx, base, S, h, b, f)
  BY <1>1
<1>4. Folds(ctx, base, S, f)
  BY <1>2, <1>3 DEF Folds, FoldsSmall
<1> QED
  BY <1>4

(* What a fold does with an empty set, and with one that is not. *)
LEMMA FoldStep ==
  ASSUME NEW ctx, NEW base, NEW S, NEW f, Folds(ctx, base, S, f)
  PROVE  /\ f[{}] = base
         /\ \A s \in SUBSET S : s # {} => f[s] = op(ctx, f[s \ {pick(s)}], pick(s))
BY DEF Folds

(* The element with which FoldLeft begins from behind. *)
Largest(s) == CHOOSE x \in s : \A y \in s : x >= y

(* A fold that begins with the largest takes the elements of 1 .. n in
   their order. *)
LEMMA FoldInOrder ==
  ASSUME NEW ctx, NEW base, NEW n \in Nat, NEW f, Folds(ctx, base, 1 .. n, f),
         \A s : pick(s) = Largest(s)
  PROVE  /\ f[1 .. 0] = base
         /\ \A k \in 1 .. n : f[1 .. k] = op(ctx, f[1 .. k - 1], k)
<1>1. 1 .. 0 = {}
  OBVIOUS
<1>2. ASSUME NEW k \in 1 .. n
      PROVE  f[1 .. k] = op(ctx, f[1 .. k - 1], k)
  <2> DEFINE top(x) == x \in 1 .. k /\ \A y \in 1 .. k : x >= y
  <2>1. \A x : top(x) <=> x = k
    OBVIOUS
  <2>2. pick(1 .. k) = k
    <3>1. pick(1 .. k) = CHOOSE x : top(x)
      BY DEF Largest
    <3>2. top(CHOOSE x : top(x))
      BY <2>1
    <3> QED
      BY <2>1, <3>1, <3>2
  <2>3. 1 .. k # {} /\ 1 .. k \in SUBSET (1 .. n) /\ (1 .. k) \ {k} = 1 .. k - 1
    OBVIOUS
  <2>4. f[1 .. k] = op(ctx, f[(1 .. k) \ {pick(1 .. k)}], pick(1 .. k))
    <3>1. \A s \in SUBSET (1 .. n) : s # {} => f[s] = op(ctx, f[s \ {pick(s)}], pick(s))
      BY DEF Folds
    <3> DEFINE s == 1 .. k
    <3>2. s \in SUBSET (1 .. n) /\ s # {}
      BY <2>3
    <3> HIDE DEF s
    <3>3. f[s] = op(ctx, f[s \ {pick(s)}], pick(s))
      BY <3>1, <3>2
    <3> QED
      BY <3>3 DEF s
  <2> QED
    BY <2>2, <2>3, <2>4
<1> QED
  BY <1>1, <1>2, FoldStep

(* The values that a fold goes through. *)
Trace(ctx, base, n, g) ==
  /\ g[0] = base
  /\ \A k \in 1 .. n : g[k] = op(ctx, g[k - 1], k)

(* Such a fold over 1 .. n passes through n + 1 values, one after the
   other. *)
LEMMA FoldTrace ==
  ASSUME NEW ctx, NEW base, NEW n \in Nat, NEW f, Folds(ctx, base, 1 .. n, f),
         \A s : pick(s) = Largest(s)
  PROVE  \E g : Trace(ctx, base, n, g) /\ g[n] = f[1 .. n]
<1> DEFINE g == [k \in 0 .. n |-> f[1 .. k]]
<1>1. f[1 .. 0] = base /\ \A k \in 1 .. n : f[1 .. k] = op(ctx, f[1 .. k - 1], k)
  BY FoldInOrder
<1>2. \A k \in 0 .. n : g[k] = f[1 .. k]
  OBVIOUS
<1>3. 0 \in 0 .. n /\ n \in 0 .. n /\ \A k \in 1 .. n : k \in 0 .. n /\ k - 1 \in 0 .. n
  OBVIOUS
<1> HIDE DEF g
<1>4. Trace(ctx, base, n, g) /\ g[n] = f[1 .. n]
  BY <1>1, <1>2, <1>3 DEF Trace
<1> QED
  BY <1>4

(* A set of elements of 1 .. n that is not empty has a largest one. *)
LEMMA LargestPicks ==
  ASSUME \A B \in SUBSET Nat : B # {} => \E m \in B : \A k \in B : m <= k,
         NEW n \in Nat, NEW s \in SUBSET (1 .. n), s # {}
  PROVE  Largest(s) \in s /\ \A y \in s : Largest(s) >= y
<1> DEFINE B == {k \in Nat : n - k \in s}
<1>1. PICK x \in s : TRUE
  OBVIOUS
<1>2. n - x \in B
  <2>1. n - x \in Nat /\ n - (n - x) = x
    OBVIOUS
  <2> QED
    BY <2>1
<1>3. PICK m \in B : \A k \in B : m <= k
  <2>1. B \in SUBSET Nat
    OBVIOUS
  <2> HIDE DEF B
  <2> QED
    BY <1>2, <2>1
<1>4. n - m \in s /\ m \in Nat
  OBVIOUS
<1>5. ASSUME NEW y \in s PROVE n - m >= y
  <2>1. n - y \in Nat /\ n - (n - y) = y /\ y \in Nat
    OBVIOUS
  <2>2. m <= n - y
    BY <1>3, <2>1
  <2> QED
    BY <1>4, <2>1, <2>2
<1> QED
  BY <1>4, <1>5 DEF Largest

(* FoldLeft over a sequence of n elements has the function its definition
   chooses, and passes through n + 1 values. *)
THEOREM SequenceFold ==
  ASSUME \A B \in SUBSET Nat : B # {} => \E m \in B : \A k \in B : m <= k,
         NEW ctx, NEW base, NEW n \in Nat, \A s : pick(s) = Largest(s)
  PROVE  \E f : Folds(ctx, base, 1 .. n, f) /\ \E g : Trace(ctx, base, n, g) /\ g[n] = f[1 .. n]
<1> DEFINE h == [s \in SUBSET (1 .. n) |-> IF s = {} THEN 0 ELSE Largest(s)]
<1>1. ASSUME NEW s \in SUBSET (1 .. n), s # {}
      PROVE  pick(s) = Largest(s) /\ Largest(s) \in s /\ \A y \in s : Largest(s) >= y
  BY <1>1, LargestPicks
<1>2. Measures(1 .. n, h, n)
  <2>1. ASSUME NEW s \in SUBSET (1 .. n) PROVE h[s] \in 0 .. n
    <3>1. CASE s = {}
      BY <3>1
    <3>2. CASE s # {}
      <4>1. h[s] = Largest(s) /\ Largest(s) \in 1 .. n
        BY <3>2, <1>1
      <4> HIDE DEF h
      <4> QED
        BY <4>1
    <3> QED
      BY <3>1, <3>2
  <2>2. ASSUME NEW s \in SUBSET (1 .. n), s # {} PROVE h[s \ {pick(s)}] < h[s]
    <3> DEFINE r == s \ {pick(s)}
    <3>1. r \in SUBSET (1 .. n) /\ h[s] = Largest(s) /\ Largest(s) \in 1 .. n
      BY <2>2, <1>1
    <3>2. h[r] < h[s]
      <4>1. CASE r = {}
        BY <3>1, <4>1
      <4>2. CASE r # {}
        <5>1. h[r] = Largest(r) /\ Largest(r) \in r
          BY <3>1, <4>2, <1>1
        <5>2. Largest(r) \in s /\ Largest(r) # Largest(s) /\ Largest(s) >= Largest(r)
          BY <5>1, <2>2, <1>1
        <5>3. Largest(r) \in 1 .. n
          BY <3>1, <5>1
        <5> HIDE DEF r, h
        <5>4. Largest(r) < Largest(s)
          <6> DEFINE x == Largest(r)
                     y == Largest(s)
          <6>1. x \in 1 .. n /\ y \in 1 .. n /\ x # y /\ y >= x
            BY <3>1, <5>2, <5>3
          <6> HIDE DEF x, y
          <6>2. x < y
            BY <6>1
          <6> QED
            BY <6>2 DEF x, y
        <5> QED
          BY <3>1, <5>1, <5>4
      <4> QED
        BY <4>1, <4>2
    <3> QED
      BY <3>2
  <2> HIDE DEF h
  <2> QED
    BY <2>1, <2>2 DEF Measures
<1> HIDE DEF h
<1>3. PICK f : Folds(ctx, base, 1 .. n, f)
  BY <1>2, MeasuredFold
<1>4. \E g : Trace(ctx, base, n, g) /\ g[n] = f[1 .. n]
  BY ONLY <1>3, FoldTrace, n \in Nat, \A s : pick(s) = Largest(s)
<1> QED
  BY <1>3, <1>4

(* The values FoldLeft passes through, each from the one before. *)
THEOREM SequenceTrace ==
  ASSUME NEW ctx, NEW base, NEW n \in Nat, \A s : pick(s) = Largest(s),
         NEW f, Folds(ctx, base, 1 .. n, f)
  PROVE  \E g : Trace(ctx, base, n, g) /\ g[n] = f[1 .. n]
BY FoldTrace

(* What holds of 0, and passes from k - 1 to k, holds of n. *)
THEOREM Climb ==
  ASSUME \A B \in SUBSET Nat : B # {} => \E m \in B : \A k \in B : m <= k,
         NEW n \in Nat, NEW G, 0 \in G, \A k \in 1 .. n : k - 1 \in G => k \in G
  PROVE  n \in G
<1> DEFINE Bad == {k \in Nat : k \in 0 .. n /\ k \notin G}
<1>1. SUFFICES ASSUME Bad # {} PROVE FALSE
  OBVIOUS
<1>2. PICK k \in Bad : \A j \in Bad : k <= j
  <2>1. Bad \in SUBSET Nat
    OBVIOUS
  <2> HIDE DEF Bad
  <2> QED
    BY <1>1, <2>1
<1>3. k \in 1 .. n /\ k - 1 \in Nat /\ k - 1 \in 0 .. n /\ ~(k <= k - 1)
  OBVIOUS
<1>4. k - 1 \in G
  BY <1>2, <1>3
<1> QED
  BY <1>3, <1>4

(* What every step keeps holds of the whole fold. *)
Keeps(ctx, n, Q) == \A k \in 1 .. n : \A x \in Q : op(ctx, x, k) \in Q

(* What holds of the base and survives every element holds of what FoldLeft
   returns. *)
THEOREM SequenceKeeps ==
  ASSUME \A B \in SUBSET Nat : B # {} => \E m \in B : \A k \in B : m <= k,
         NEW ctx, NEW base, NEW n \in Nat, \A s : pick(s) = Largest(s),
         NEW Q, base \in Q, Keeps(ctx, n, Q)
  PROVE  (CHOOSE f : Folds(ctx, base, 1 .. n, f))[1 .. n] \in Q
<1> DEFINE f == CHOOSE f : Folds(ctx, base, 1 .. n, f)
<1>1. \E h : Folds(ctx, base, 1 .. n, h)
  BY SequenceFold
<1>2. Folds(ctx, base, 1 .. n, f)
  BY <1>1
<1> HIDE DEF f
<1>3. PICK g : Trace(ctx, base, n, g) /\ g[n] = f[1 .. n]
  BY <1>2, SequenceTrace
<1> DEFINE G == {k \in 0 .. n : g[k] \in Q}
<1>4. 0 \in G
  BY <1>3 DEF Trace
<1>5. ASSUME NEW k \in 1 .. n, k - 1 \in G PROVE k \in G
  <2>1. k \in 0 .. n /\ g[k - 1] \in Q
    BY <1>5
  <2>2. g[k] = op(ctx, g[k - 1], k)
    BY <1>3 DEF Trace
  <2> DEFINE x == g[k - 1]
  <2>3. g[k] = op(ctx, x, k) /\ x \in Q
    BY <2>1, <2>2
  <2> HIDE DEF x
  <2>4. g[k] \in Q
    BY <2>3 DEF Keeps
  <2> QED
    BY <2>1, <2>4
<1> HIDE DEF G
<1>6. n \in G
  BY <1>4, <1>5, Climb
<1> QED
  BY <1>3, <1>6 DEF G, f

(* Where every step is a choice with one outcome. *)
Chooses(ctx, base, n, f) ==
  f = [k \in 0 .. n |->
         IF k = 0 THEN base ELSE CHOOSE y \in {op(ctx, x, k) : x \in {f[k - 1]}} : TRUE]

(* Such a function has the values of the steps, one after the other. *)
LEMMA ChoosesTrace ==
  ASSUME NEW ctx, NEW base, NEW n \in Nat, NEW f, Chooses(ctx, base, n, f)
  PROVE  Trace(ctx, base, n, f)
<1>1. 0 \in 0 .. n /\ \A k \in 1 .. n : k \in 0 .. n /\ k # 0
  OBVIOUS
<1>2. f[0] = base
  BY <1>1 DEF Chooses
<1>3. ASSUME NEW k \in 1 .. n PROVE f[k] = op(ctx, f[k - 1], k)
  <2> DEFINE z == op(ctx, f[k - 1], k)
  <2>1. f[k] = CHOOSE y \in {op(ctx, x, k) : x \in {f[k - 1]}} : TRUE
    BY <1>1 DEF Chooses
  <2>2. {op(ctx, x, k) : x \in {f[k - 1]}} = {z}
    OBVIOUS
  <2> HIDE DEF z
  <2>3. (CHOOSE y \in {z} : TRUE) = z
    OBVIOUS
  <2>4. f[k] = z
    BY <2>1, <2>2, <2>3
  <2> QED
    BY <2>4 DEF z
<1> QED
  BY <1>2, <1>3 DEF Trace

(* There is one. *)
LEMMA ChoosesExists ==
  ASSUME \A B \in SUBSET Nat : B # {} => \E m \in B : \A k \in B : m <= k,
         NEW ctx, NEW base, NEW n \in Nat
  PROVE  \E f : Chooses(ctx, base, n, f)
<1> DEFINE G == {m \in 0 .. n : \E f : Chooses(ctx, base, m, f)}
<1>1. 0 \in G
  <2> DEFINE f == [k \in 0 .. 0 |-> base]
  <2>1. f = [k \in 0 .. 0 |-> IF k = 0 THEN base
                              ELSE CHOOSE y \in {op(ctx, x, k) : x \in {f[k - 1]}} : TRUE]
    OBVIOUS
  <2> HIDE DEF f
  <2> QED
    BY <2>1 DEF Chooses
<1>2. ASSUME NEW m \in 1 .. n, m - 1 \in G PROVE m \in G
  <2>1. PICK f : Chooses(ctx, base, m - 1, f)
    BY <1>2
  <2>2. m - 1 \in Nat /\ m \in 0 .. n
    OBVIOUS
  <2> DEFINE step(h, k) == IF k = 0 THEN base
                           ELSE CHOOSE y \in {op(ctx, x, k) : x \in {h[k - 1]}} : TRUE
             g == [k \in 0 .. m |-> step(f, k)]
  <2>3. ASSUME NEW k \in 0 .. m - 1 PROVE k \in 0 .. m /\ f[k] = step(f, k)
    BY <2>1 DEF Chooses
  <2>4. ASSUME NEW k \in 0 .. m - 1 PROVE g[k] = f[k]
    BY <2>3
  <2>5. ASSUME NEW k \in 0 .. m PROVE step(g, k) = step(f, k)
    <3>1. CASE k = 0
      BY <3>1
    <3>2. CASE k # 0
      <4>1. k - 1 \in 0 .. m - 1
        BY <3>2
      <4>2. g[k - 1] = f[k - 1]
        BY <4>1, <2>4
      <4> HIDE DEF g
      <4> QED
        BY <3>2, <4>2
    <3> QED
      BY <3>1, <3>2
  <2>6. g = [k \in 0 .. m |-> step(f, k)]
    OBVIOUS
  <2> HIDE DEF g
  <2>7. g = [k \in 0 .. m |-> step(g, k)]
    <3> HIDE DEF step
    <3> QED
      BY <2>5, <2>6
  <2> QED
    BY <2>2, <2>7 DEF Chooses
<1> HIDE DEF G
<1>3. n \in G
  BY <1>1, <1>2, Climb
<1> QED
  BY <1>3 DEF G

(* What Each of module Elimination returns is the last of such values. *)
THEOREM EachTrace ==
  ASSUME \A B \in SUBSET Nat : B # {} => \E m \in B : \A k \in B : m <= k,
         NEW ctx, NEW base, NEW n \in Nat
  PROVE  \E g : Trace(ctx, base, n, g) /\ g[n] = (CHOOSE f : Chooses(ctx, base, n, f))[n]
<1> DEFINE f == CHOOSE f : Chooses(ctx, base, n, f)
<1>1. Chooses(ctx, base, n, f)
  BY ChoosesExists
<1> HIDE DEF f
<1>2. Trace(ctx, base, n, f) /\ f[n] = f[n]
  BY <1>1, ChoosesTrace
<1> QED
  BY <1>2 DEF f
=============================================================================
