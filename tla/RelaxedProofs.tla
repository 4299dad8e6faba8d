--------------------------- MODULE RelaxedProofs ----------------------------
(***************************************************************************)
(* About module RelaxedSolver: what is left of the clauses says as much as *)
(* what the user gave, however the two searches take turns, so a solution  *)
(* of the local search is a model, and each answer is the promised one.    *)
(***************************************************************************)
EXTENDS RelaxedSolver, LocalSearchProofs

(* Literals, and what follows from clauses. *)

(* Literals and assignments. *)
LEMMA LitFacts ==
  ASSUME NEW p \in Lits
  PROVE  /\ p \in Nat /\ Var(p) \in Vars /\ Neg(p) \in Lits /\ Var(Neg(p)) = Var(p)
         /\ Neg(Neg(p)) = p /\ Neg(p) # p /\ sign(p) \in {0, 1} /\ sign(Neg(p)) = 1 - sign(p)
BY NVarsAssumption DEF Lits, Vars, Var, Neg, sign

(* An assignment makes a literal or its negation true. *)
LEMMA MakesNeg ==
  ASSUME NEW p \in Lits, NEW m \in Assignments
  PROVE  Makes(m, Neg(p)) <=> ~Makes(m, p)
<1>1. /\ Var(p) \in Vars /\ Var(Neg(p)) = Var(p) /\ sign(p) \in {0, 1}
      /\ sign(Neg(p)) = 1 - sign(p)
  BY LitFacts
<1>2. m[Var(p)] \in BOOLEAN
  BY <1>1 DEF Assignments
<1>3. CASE sign(p) = 0
  <2>1. sign(Neg(p)) = 1
    BY <1>1, <1>3
  <2> QED
    BY <1>1, <1>2, <1>3, <2>1 DEF Makes
<1>4. CASE sign(p) = 1
  <2>1. sign(Neg(p)) = 0
    BY <1>1, <1>4
  <2> QED
    BY <1>1, <1>2, <1>4, <2>1 DEF Makes
<1> QED
  BY <1>1, <1>3, <1>4

(* Two literals of one variable are equal or contradict each other. *)
LEMMA SameVar ==
  ASSUME NEW p \in Lits, NEW q \in Lits, Var(p) = Var(q)
  PROVE  q = p \/ q = Neg(p)
BY NVarsAssumption DEF Lits, Var, Neg, sign

MakesAll(m, S) == \A p \in S : Makes(m, p)

(* It does not make both true. *)
LEMMA NoContradiction ==
  ASSUME NEW m \in Assignments, NEW S \in SUBSET Lits, MakesAll(m, S)
  PROVE  ~Contradicts(S)
BY MakesNeg DEF MakesAll, Contradicts

-----------------------------------------------------------------------------
(* The function that Closure defines by recursion. *)
Forced(cs, T) == {p \in UNION cs : \E c \in cs : p \in c /\ \A q \in c \ {p} : Neg(q) \in T}
NextClose(cs, f, T) == IF Forced(cs, T) \subseteq T THEN T ELSE f[T \cup Forced(cs, T)]
Closes(cs, f) == f = [T \in SUBSET Lits |-> NextClose(cs, f, T)]

(* Closure, by the function it is defined with. *)
LEMMA ClosureIs ==
  ASSUME NEW cs, NEW S
  PROVE  Closure(cs, S) = (CHOOSE f : Closes(cs, f))[S]
BY DEF Closure, Forced, NextClose, Closes

(* Sets of literals that all but at most m are in. *)
Near(m) == {T \in SUBSET Lits : Cardinality(Lits \ T) <= m}
ClosesNear(cs, m, f) == f = [T \in Near(m) |-> NextClose(cs, f, T)]

(* There are finitely many literals. *)
LEMMA LitsFinite ==
  ASSUME NEW T \in SUBSET Lits
  PROVE  /\ IsFiniteSet(T) /\ IsFiniteSet(Lits \ T) /\ Cardinality(Lits \ T) \in Nat
         /\ Cardinality(Lits \ T) <= Cardinality(Lits) /\ Cardinality(Lits) \in Nat
<1>1. IsFiniteSet(Lits)
  BY NVarsAssumption, FS_Interval DEF Lits
<1>2. Lits \ T \in SUBSET Lits
  OBVIOUS
<1>3. IsFiniteSet(T) /\ IsFiniteSet(Lits \ T) /\ Cardinality(Lits \ T) <= Cardinality(Lits)
  BY <1>1, <1>2, FS_Subset
<1> QED
  BY <1>1, <1>3, FS_CardinalityType

(* Each round of propagation leaves fewer literals that are not forced. *)
LEMMA Nearer ==
  ASSUME NEW cs \in SUBSET SUBSET Lits, NEW m \in Nat, NEW T \in Near(m), ~(Forced(cs, T) \subseteq T)
  PROVE  m > 0 /\ T \cup Forced(cs, T) \in Near(m - 1)
<1> DEFINE U == T \cup Forced(cs, T)
           A == Lits \ T
           B == Lits \ U
<1>1. T \in SUBSET Lits /\ Cardinality(A) <= m
  BY DEF Near
<1>2. U \in SUBSET Lits
  BY <1>1 DEF Forced
<1>3. B \subseteq A /\ B # A
  <2>1. PICK p \in Forced(cs, T) : p \notin T
    OBVIOUS
  <2>2. p \in U /\ p \in Lits
    BY <1>2, <2>1
  <2> QED
    BY <2>1, <2>2
<1>4. IsFiniteSet(A) /\ Cardinality(A) \in Nat /\ Cardinality(B) \in Nat
  BY <1>1, <1>2, LitsFinite
<1> HIDE DEF A, U
<1> DEFINE a == Cardinality(A)
           b == Cardinality(B)
<1>5. b < a
  <2> HIDE DEF B
  <2>1. Cardinality(B) <= Cardinality(A) /\ (Cardinality(B) = Cardinality(A) => B = A)
    BY <1>3, <1>4, FS_Subset
  <2> QED
    BY <1>3, <1>4, <2>1
<1>6. b <= m - 1 /\ m > 0
  <2>1. a \in Nat /\ b \in Nat /\ a <= m
    BY <1>1, <1>4
  <2> HIDE DEF a, b
  <2> QED
    BY <1>5, <2>1
<1> QED
  BY <1>2, <1>6 DEF Near, U

(* So propagation ends: the recursive function of Closure exists. *)
LEMMA CloseExists ==
  ASSUME NEW cs \in SUBSET SUBSET Lits
  PROVE  \E f : Closes(cs, f)
<1> DEFINE n == Cardinality(Lits)
           G == {m \in 0 .. n : \E f : ClosesNear(cs, m, f)}
<1>1. n \in Nat
  BY LitsFinite
<1> HIDE DEF n
<1>2. 0 \in G
  <2> DEFINE f == [T \in Near(0) |-> T]
  <2>1. ASSUME NEW T \in Near(0) PROVE NextClose(cs, f, T) = T
    <3>1. Forced(cs, T) \subseteq T
      <4>1. SUFFICES ASSUME ~(Forced(cs, T) \subseteq T) PROVE FALSE
        OBVIOUS
      <4>2. 0 > 0
        BY <4>1, Nearer
      <4> QED
        BY <4>2
    <3> QED
      BY <3>1 DEF NextClose
  <2>2. f = [T \in Near(0) |-> NextClose(cs, f, T)]
    <3> HIDE DEF f
    <3>1. f = [T \in Near(0) |-> T]
      BY DEF f
    <3> QED
      BY <2>1, <3>1
  <2> HIDE DEF f
  <2> QED
    BY <1>1, <2>2 DEF ClosesNear
<1>3. ASSUME NEW m \in 1 .. n, m - 1 \in G PROVE m \in G
  <2>1. PICK f : ClosesNear(cs, m - 1, f)
    BY <1>3
  <2> DEFINE g == [T \in Near(m) |-> NextClose(cs, f, T)]
  <2>2. m \in Nat /\ m \in 0 .. n
    BY <1>1
  <2>3. \A T \in Near(m - 1) : T \in Near(m) /\ f[T] = NextClose(cs, f, T)
    <3>1. ASSUME NEW T \in Near(m - 1) PROVE T \in Near(m)
      <4>1. T \in SUBSET Lits /\ Cardinality(Lits \ T) <= m - 1
        BY DEF Near
      <4>2. Cardinality(Lits \ T) \in Nat
        BY <4>1, LitsFinite
      <4>3. Cardinality(Lits \ T) <= m
        BY <2>2, <4>1, <4>2
      <4> QED
        BY <4>1, <4>3 DEF Near
    <3>2. f = [T \in Near(m - 1) |-> NextClose(cs, f, T)]
      BY <2>1 DEF ClosesNear
    <3> QED
      BY <3>1, <3>2
  <2>4. \A T \in Near(m - 1) : g[T] = f[T]
    BY <2>3
  <2>5. ASSUME NEW T \in Near(m) PROVE NextClose(cs, g, T) = NextClose(cs, f, T)
    <3>1. CASE Forced(cs, T) \subseteq T
      BY <3>1 DEF NextClose
    <3>2. CASE ~(Forced(cs, T) \subseteq T)
      <4>1. T \cup Forced(cs, T) \in Near(m - 1)
        BY <2>2, <3>2, Nearer
      <4>2. g[T \cup Forced(cs, T)] = f[T \cup Forced(cs, T)]
        BY <2>4, <4>1
      <4> HIDE DEF g
      <4> QED
        BY <4>2 DEF NextClose
    <3> QED
      BY <3>1, <3>2
  <2>6. g = [T \in Near(m) |-> NextClose(cs, f, T)]
    OBVIOUS
  <2> HIDE DEF g
  <2>7. g = [T \in Near(m) |-> NextClose(cs, g, T)]
    BY <2>5, <2>6
  <2> QED
    BY <2>2, <2>7 DEF ClosesNear
<1> HIDE DEF G
<1>4. n \in G
  BY <1>1, <1>2, <1>3, Climb
<1>5. Near(n) = SUBSET Lits
  BY LitsFinite DEF Near, n
<1> QED
  BY <1>4, <1>5 DEF G, ClosesNear, Closes

-----------------------------------------------------------------------------
(* What holds of a set of literals, and of it with all that is forced, holds
   of its closure. *)
Grows(cs, Q) == \A T \in SUBSET Lits : T \in Q => T \cup Forced(cs, T) \in Q

(* What holds of the literals assumed, and survives each round, holds of
   all that follow. *)
LEMMA ClosureIn ==
  ASSUME NEW cs \in SUBSET SUBSET Lits, NEW S \in SUBSET Lits, NEW Q, S \in Q, Grows(cs, Q)
  PROVE  Closure(cs, S) \in Q
<1> DEFINE f == CHOOSE f : Closes(cs, f)
           n == Cardinality(Lits)
           G == {m \in 0 .. n : \A T \in Near(m) : T \in Q => f[T] \in Q}
<1>1. Closes(cs, f)
  BY CloseExists
<1>2. Closure(cs, S) = f[S]
  BY ClosureIs
<1> HIDE DEF f
<1>3. n \in Nat
  BY LitsFinite
<1> HIDE DEF n
<1>4. ASSUME NEW T \in SUBSET Lits PROVE f[T] = NextClose(cs, f, T)
  BY <1>1 DEF Closes
<1>5. ASSUME NEW m \in 0 .. n, NEW T \in Near(m), T \in Q,
             m > 0 => \A U \in Near(m - 1) : U \in Q => f[U] \in Q
      PROVE  f[T] \in Q
  <2>1. T \in SUBSET Lits /\ m \in Nat
    BY <1>3 DEF Near
  <2>2. CASE Forced(cs, T) \subseteq T
    <3>1. f[T] = T
      BY <1>4, <2>1, <2>2 DEF NextClose
    <3> QED
      BY <1>5, <3>1
  <2>3. CASE ~(Forced(cs, T) \subseteq T)
    <3> DEFINE U == T \cup Forced(cs, T)
    <3>1. m > 0 /\ U \in Near(m - 1)
      BY <2>1, <2>3, Nearer
    <3>2. U \in Q
      BY <1>5, <2>1 DEF Grows
    <3>3. f[T] = f[U]
      BY <1>4, <2>1, <2>3 DEF NextClose
    <3> HIDE DEF U
    <3> QED
      BY <1>5, <3>1, <3>2, <3>3
  <2> QED
    BY <2>2, <2>3
<1>6. 0 \in G
  <2>1. 0 \in 0 .. n /\ ~(0 > 0)
    BY <1>3
  <2>2. ASSUME NEW T \in Near(0), T \in Q PROVE f[T] \in Q
    BY <1>5, <2>1, <2>2
  <2> QED
    BY <2>1, <2>2
<1>7. ASSUME NEW m \in 1 .. n, m - 1 \in G PROVE m \in G
  <2>1. m \in 0 .. n
    BY <1>3
  <2>2. \A U \in Near(m - 1) : U \in Q => f[U] \in Q
    BY <1>7
  <2>3. ASSUME NEW T \in Near(m), T \in Q PROVE f[T] \in Q
    BY <1>5, <2>1, <2>2, <2>3
  <2> QED
    BY <2>1, <2>3
<1> HIDE DEF G
<1>8. n \in G
  BY <1>3, <1>6, <1>7, Climb
<1>9. S \in Near(n)
  BY LitsFinite DEF Near, n
<1> QED
  BY <1>2, <1>8, <1>9 DEF G

(* The closure has what it begins with, adds literals of the clauses only,
   and what it adds follows. *)
LEMMA ClosureFacts ==
  ASSUME NEW cs \in SUBSET SUBSET Lits, NEW S \in SUBSET Lits
  PROVE  /\ S \subseteq Closure(cs, S) /\ Closure(cs, S) \subseteq S \cup UNION cs
         /\ \A m \in Assignments :
              Satisfies(m, cs) /\ MakesAll(m, S) => MakesAll(m, Closure(cs, S))
<1>1. S \subseteq Closure(cs, S) /\ Closure(cs, S) \subseteq S \cup UNION cs
  <2> DEFINE Q == {T \in SUBSET Lits : S \subseteq T /\ T \subseteq S \cup UNION cs}
  <2>1. S \in Q
    OBVIOUS
  <2>2. \A T \in SUBSET Lits : T \in Q => T \cup Forced(cs, T) \in Q
    BY DEF Forced
  <2> HIDE DEF Q
  <2>3. Closure(cs, S) \in Q
    BY <2>1, <2>2, ClosureIn DEF Grows
  <2> QED
    BY <2>3 DEF Q
<1>2. ASSUME NEW m \in Assignments, Satisfies(m, cs), MakesAll(m, S)
      PROVE  MakesAll(m, Closure(cs, S))
  <2> DEFINE Q == {T \in SUBSET Lits : MakesAll(m, T)}
  <2>1. S \in Q
    BY <1>2
  <2>2. ASSUME NEW T \in SUBSET Lits, T \in Q PROVE T \cup Forced(cs, T) \in Q
    <3>1. ASSUME NEW p \in Forced(cs, T) PROVE Makes(m, p) /\ p \in Lits
      <4>1. PICK c \in cs : p \in c /\ \A q \in c \ {p} : Neg(q) \in T
        BY <3>1 DEF Forced
      <4>2. PICK q \in c : Makes(m, q)
        BY <1>2 DEF Satisfies, SatisfiesClause
      <4>3. p \in Lits /\ q \in Lits
        BY <4>1, <4>2
      <4>4. ASSUME q # p PROVE FALSE
        <5>1. Makes(m, Neg(q))
          BY <2>2, <4>1, <4>2, <4>4 DEF MakesAll
        <5> QED
          BY <4>2, <4>3, <5>1, MakesNeg
      <4> QED
        BY <4>2, <4>3, <4>4
    <3> QED
      BY <2>2, <3>1 DEF MakesAll
  <2> HIDE DEF Q
  <2>3. Grows(cs, Q)
    BY <2>2 DEF Grows
  <2>4. Closure(cs, S) \in Q
    BY <2>1, <2>3, ClosureIn
  <2> QED
    BY <2>4 DEF Q
<1> QED
  BY <1>1, <1>2

-----------------------------------------------------------------------------
(* The view. *)

(* A step of each fold keeps what is true of every view. *)
ExtendOp(seq, view, k) == Extend(view, seq[k])
Extends == INSTANCE FoldTheorems WITH op <- ExtendOp, pick <- Top
ExtendAll(view, seq) == FoldLeft(Extend, view, seq)

(* What holds of a view and survives each literal holds after all of them. *)
LEMMA ExtendKeeps ==
  ASSUME NEW n \in Nat, NEW seq, DOMAIN seq = 1 .. n, NEW view, NEW Q, view \in Q,
         Extends!Keeps(seq, n, Q)
  PROVE  ExtendAll(view, seq) \in Q
<1> DEFINE f == CHOOSE f : Extends!Folds(seq, view, 1 .. n, f)
<1>1. \A S : Top(S) = Extends!Largest(S)
  BY DEF Top, Extends!Largest
<1>2. ExtendAll(view, seq) = f[1 .. n]
  BY DEF ExtendAll, ExtendOp, Top, Extends!Folds, FoldLeft, MapThenFoldSet, Max
<1>3. f[1 .. n] \in Q
  BY <1>1, Least, Extends!SequenceKeeps
<1> QED
  BY <1>2, <1>3

ImplyOp(seq, view, k) == Imply(view, seq[k])
Implies == INSTANCE FoldTheorems WITH op <- ImplyOp, pick <- Top
ImplyAll(view, seq) == FoldLeft(Imply, view, seq)

(* The same for the clauses that are visited. *)
LEMMA ImplyKeeps ==
  ASSUME NEW n \in Nat, NEW seq, DOMAIN seq = 1 .. n, NEW view, NEW Q, view \in Q,
         Implies!Keeps(seq, n, Q)
  PROVE  ImplyAll(view, seq) \in Q
<1> DEFINE f == CHOOSE f : Implies!Folds(seq, view, 1 .. n, f)
<1>1. \A S : Top(S) = Implies!Largest(S)
  BY DEF Top, Implies!Largest
<1>2. ImplyAll(view, seq) = f[1 .. n]
  BY DEF ImplyAll, ImplyOp, Top, Implies!Folds, FoldLeft, MapThenFoldSet, Max
<1>3. f[1 .. n] \in Q
  BY <1>1, Least, Implies!SequenceKeeps
<1> QED
  BY <1>2, <1>3

-----------------------------------------------------------------------------
(* Sequences of clauses. *)

(* Clauses that have at least two literals, no two of one variable. *)
ProperClauses(L) == {c \in Seq(L) : Distinct(c) /\ ~Contradicts(ToSet(c)) /\ Len(c) > 1}
Learnts(L) == [lits : ProperClauses(L), simplified : BOOLEAN]

(* More literals, more clauses. *)
LEMMA ProperMore ==
  ASSUME NEW K, NEW L, K \subseteq L
  PROVE  Seq(K) \subseteq Seq(L) /\ ProperClauses(K) \subseteq ProperClauses(L)
         /\ Learnts(K) \subseteq Learnts(L)
BY DEF ProperClauses, Learnts

(* A larger set has more sequences. *)
LEMMA SeqMore ==
  ASSUME NEW K, NEW L, K \subseteq L
  PROVE  Seq(K) \subseteq Seq(L)
OBVIOUS

(* The elements of a sequence. *)
LEMMA ToSetIn ==
  ASSUME NEW S, NEW seq \in Seq(S)
  PROVE  ToSet(seq) \subseteq S /\ DOMAIN seq = 1 .. Len(seq) /\ Len(seq) \in Nat
         /\ \A k \in DOMAIN seq : seq[k] \in S
BY DEF ToSet

(* A set of two literals or more without a contradiction makes a clause. *)
LEMMA SortedProper ==
  ASSUME NEW L \in SUBSET Lits, NEW S \in SUBSET L, ~Contradicts(S), Cardinality(S) > 1
  PROVE  Sorted(S) \in ProperClauses(L) /\ ToSet(Sorted(S)) = S
<1>1. Sorted(S) \in Seq(S) /\ ToSet(Sorted(S)) = S /\ Distinct(Sorted(S))
  BY SortedFacts
<1>2. Len(Sorted(S)) = Cardinality(S)
  BY <1>1, DistinctLength
<1>3. Sorted(S) \in Seq(L)
  BY <1>1, SeqMore
<1> QED
  BY <1>1, <1>2, <1>3 DEF ProperClauses

(* What is selected is a sequence of the same elements. *)
LEMMA SelectedIn ==
  ASSUME NEW S, NEW seq \in Seq(S), NEW T
  PROVE  Selected(seq, T) \in Seq(S) /\ ToSet(Selected(seq, T)) = ToSet(seq) \cap T
<1>1. Selected(seq, T) \in Seq(ToSet(seq) \cap T) /\ ToSet(Selected(seq, T)) = ToSet(seq) \cap T
  BY SelectedFacts
<1>2. ToSet(seq) \cap T \subseteq S
  BY ToSetIn
<1> QED
  BY <1>1, <1>2, SeqMore

(* Two sequences, one after the other. *)
LEMMA JoinedFacts ==
  ASSUME NEW S, NEW a \in Seq(S), NEW b \in Seq(S)
  PROVE  a \o b \in Seq(S) /\ ToSet(a \o b) = ToSet(a) \cup ToSet(b)
<1> DEFINE m == Len(a)
           n == Len(b)
           c == a \o b
<1>1. /\ m \in Nat /\ n \in Nat /\ DOMAIN a = 1 .. m /\ DOMAIN b = 1 .. n
      /\ c \in Seq(S) /\ DOMAIN c = 1 .. m + n
      /\ \A k \in 1 .. m + n : c[k] = IF k <= m THEN a[k] ELSE b[k - m]
  OBVIOUS
<1> HIDE DEF m, n, c
<1>2. ASSUME NEW x \in ToSet(c) PROVE x \in ToSet(a) \cup ToSet(b)
  <2>1. PICK k \in 1 .. m + n : x = c[k]
    BY <1>1 DEF ToSet
  <2>2. CASE k <= m
    <3>1. k \in 1 .. m
      BY <2>2
    <3> QED
      BY <1>1, <2>1, <2>2, <3>1 DEF ToSet
  <2>3. CASE ~(k <= m)
    <3>1. k - m \in 1 .. n
      BY <1>1, <2>3
    <3> QED
      BY <1>1, <2>1, <2>3, <3>1 DEF ToSet
  <2> QED
    BY <2>2, <2>3
<1>3. ASSUME NEW x \in ToSet(a) PROVE x \in ToSet(c)
  <2>1. PICK k \in 1 .. m : x = a[k]
    BY <1>1 DEF ToSet
  <2>2. k \in 1 .. m + n /\ k <= m
    BY <1>1
  <2> QED
    BY <1>1, <2>1, <2>2 DEF ToSet
<1>4. ASSUME NEW x \in ToSet(b) PROVE x \in ToSet(c)
  <2>1. PICK k \in 1 .. n : x = b[k]
    BY <1>1 DEF ToSet
  <2>2. k + m \in 1 .. m + n /\ ~(k + m <= m) /\ (k + m) - m = k
    BY <1>1
  <2> DEFINE j == k + m
  <2> HIDE DEF j
  <2>3. j \in 1 .. m + n /\ ~(j <= m) /\ j - m = k
    BY <2>2 DEF j
  <2>4. c[j] = b[k]
    BY <1>1, <2>3
  <2> QED
    BY <1>1, <2>1, <2>3, <2>4 DEF ToSet
<1> QED
  BY <1>1, <1>2, <1>3, <1>4 DEF c

(* Clauses as sets, whichever sequence they are in. *)
LEMMA AsSetFacts ==
  ASSUME NEW cs
  PROVE  AsSet(cs) = {ToSet(c) : c \in ToSet(cs)}
BY DEF AsSet, ToSet

(* Clauses as sets of literals. *)
LEMMA AsSetLits ==
  ASSUME NEW L \in SUBSET Lits, NEW cs \in Seq(ProperClauses(L))
  PROVE  AsSet(cs) \in SUBSET SUBSET L
<1>1. ToSet(cs) \subseteq ProperClauses(L)
  BY ToSetIn
<1>2. \A c \in ProperClauses(L) : ToSet(c) \subseteq L
  BY ToSetIn DEF ProperClauses
<1> QED
  BY <1>1, <1>2, AsSetFacts

-----------------------------------------------------------------------------
(* The largest of some numbers. *)
LEMMA LargestOf ==
  ASSUME NEW n \in Nat, NEW S \in SUBSET (0 .. n), S # {}
  PROVE  Max(S) \in S /\ \A y \in S : Max(S) >= y
<1> DEFINE B == {k \in Nat : n - k \in S}
<1>1. PICK x \in S : TRUE
  OBVIOUS
<1>2. n - x \in B
  <2>1. n - x \in Nat /\ n - (n - x) = x
    BY <1>1
  <2> DEFINE d == n - x
  <2> HIDE DEF d
  <2>2. d \in Nat /\ n - d = x
    BY <2>1 DEF d
  <2>3. d \in B
    BY <1>1, <2>2
  <2> QED
    BY <2>3 DEF d
<1>3. B \in SUBSET Nat /\ B # {}
  BY <1>2
<1>4. PICK k \in B : \A j \in B : k <= j
  <2> HIDE DEF B
  <2>1. \E k \in B : \A j \in B : k <= j
    BY <1>3, Least
  <2> QED
    BY <2>1
<1>5. n - k \in S /\ k \in Nat
  BY <1>4
<1>6. \A y \in S : n - k >= y
  <2> TAKE y \in S
  <2> DEFINE d == n - y
  <2>1. d \in Nat /\ n - d = y /\ y \in Nat
    OBVIOUS
  <2>2. d \in B
    <3> HIDE DEF d
    <3> QED
      BY <2>1
  <2>3. k <= d
    BY <1>4, <2>2
  <2> QED
    BY <1>5, <2>1, <2>3
<1> QED
  BY <1>5, <1>6 DEF Max

(* transLit creates the variables it must, and no more than there are. *)
LEMMA TransLitFacts ==
  ASSUME nVars \in 0 .. NVars, NEW ps \in Seq(Lits)
  PROVE  /\ transLit(ps) \in 0 .. NVars /\ nVars <= transLit(ps)
         /\ \A p \in ToSet(ps) : Var(p) < transLit(ps)
<1> DEFINE S == {nVars} \cup {Var(p) + 1 : p \in ToSet(ps)}
<1>1. \A p \in ToSet(ps) : Var(p) \in 0 .. NVars - 1
  BY ToSetIn, LitFacts DEF Vars
<1>2. NVars \in Nat /\ S \in SUBSET (0 .. NVars) /\ S # {} /\ nVars \in S
  BY <1>1, NVarsAssumption
<1>3. transLit(ps) = Max(S)
  BY DEF transLit
<1>4. \A p \in ToSet(ps) : Var(p) + 1 \in S
  OBVIOUS
<1> DEFINE x == Max(S)
<1> HIDE DEF S
<1>5. x \in S /\ \A y \in S : x >= y
  BY <1>2, LargestOf
<1> HIDE DEF x
<1>6. x \in 0 .. NVars /\ nVars <= x
  BY <1>2, <1>5
<1>7. ASSUME NEW p \in ToSet(ps) PROVE Var(p) < x
  <2>1. Var(p) + 1 \in S /\ Var(p) \in 0 .. NVars - 1
    BY <1>1, <1>4
  <2>2. x >= Var(p) + 1
    BY <1>5, <2>1
  <2> QED
    BY <1>6, <2>1, <2>2
<1> QED
  BY <1>3, <1>6, <1>7 DEF x

-----------------------------------------------------------------------------
(* The invariant. *)

(* The inductive invariant, part by part.  What the solver knows is well
   formed. *)
DbOK ==
  /\ script \in Seq(Calls) /\ given \in SUBSET SUBSET Lits
  /\ nVars \in 0 .. NVars /\ ok \in BOOLEAN
  /\ clauses \in Seq(ProperClauses(UsedLits))
  /\ learnts \in [{"core", "tier2"} -> Seq(Learnts(UsedLits))]
  /\ facts \in SUBSET UsedLits /\ ~Contradicts(facts) /\ late \in SUBSET facts
  /\ assumptions \in Seq(UsedLits)

(* What is left of the clauses says as much as what the user gave, without
   the facts that came late too, and nothing that was learnt says more. *)
SoundFor(m) ==
  /\ ok /\ Satisfies(m, AsSet(clauses)) /\ MakesAll(m, Early) => Satisfies(m, given)
  /\ Satisfies(m, given) => ok /\ Satisfies(m, Database)
Sound == \A m \in Assignments : SoundFor(m)

RestartsOK ==
  /\ starts \in Nat /\ freeze_ls_restart_num \in Int
  /\ mediation_used \in BOOLEAN /\ can_call_ls \in BOOLEAN

Partial(soln) == soln \in [DOMAIN soln -> BOOLEAN] /\ DOMAIN soln \subseteq Used
SolnsOK ==
  /\ solved_by_ls \in BOOLEAN
  /\ Partial(ls_mediation_soln) /\ Partial(ls_best_soln)
  /\ ls_best_unsat_num \in 0 .. IntMax

BuildOK == trail \in SUBSET UsedLits /\ viewList \in Seq(UsedLits) /\ idx \in Nat

ControlOK ==
  /\ last_result \in {0, 10, 20}
  /\ pc \in {"idle", "solve", "vivify", "search", "build", "local"}
  /\ pc \notin {"idle", "solve"} => ok
  /\ pc \in {"idle", "solve", "vivify"} => late = {}

LocalOK ==
  /\ LocalInv
  /\ pc = "local" <=> Searching
  /\ pc \in {"build", "local"} => Instance # <<>>
  /\ pc = "local" => VarsIn(ls) = Used /\ ls.clauses = Instance

IInv == DbOK /\ Sound /\ RestartsOK /\ SolnsOK /\ BuildOK /\ ControlOK /\ LocalOK

-----------------------------------------------------------------------------
(* The database, in parts. *)

(* The literals of the variables in use. *)
LEMMA UsedFacts ==
  ASSUME nVars \in 0 .. NVars
  PROVE  /\ UsedLits \in SUBSET Lits /\ Used \in SUBSET Vars
         /\ \A p \in UsedLits : Var(p) \in Used /\ Neg(p) \in UsedLits
         /\ \A p \in Lits : p \in UsedLits <=> Var(p) \in Used
<1>1. \A p \in Lits : Var(p) \in Vars /\ Neg(p) \in Lits /\ Var(Neg(p)) = Var(p)
  BY LitFacts
<1>2. Used \in SUBSET Vars
  BY NVarsAssumption DEF Used, Vars
<1>3. \A p \in Lits : p \in UsedLits <=> Var(p) \in Used
  <2> TAKE p \in Lits
  <2>1. Var(p) \in 0 .. NVars - 1
    BY <1>1 DEF Vars
  <2> QED
    BY <2>1, NVarsAssumption DEF UsedLits, Used
<1>4. UsedLits \in SUBSET Lits
  BY DEF UsedLits
<1> QED
  BY <1>1, <1>2, <1>3, <1>4

-----------------------------------------------------------------------------
(* The clauses in three parts. *)
KeptOf(l) == l.core \o l.tier2
LitsOf(ds) == [k \in DOMAIN ds |-> ds[k].lits]
DatabaseOf(cs, l, fs) == AsSet(cs) \cup AsSet(LitsOf(KeptOf(l))) \cup {{p} : p \in fs}
MakesLearnts(m, l) ==
  \A t \in {"core", "tier2"} : \A d \in ToSet(l[t]) : SatisfiesClause(m, ToSet(d.lits))
Tiered(L) == [{"core", "tier2"} -> Seq(Learnts(L))]

(* The database of module RelaxedSolver is that of the parts. *)
LEMMA DatabaseIs == Database = DatabaseOf(clauses, learnts, facts)
BY DEF Database, DatabaseOf, KeptLits, Kept, LitsOf, KeptOf

(* Learnt clauses of both tiers. *)
LEMMA KeptFacts ==
  ASSUME NEW L \in SUBSET Lits, NEW l \in Tiered(L)
  PROVE  /\ KeptOf(l) \in Seq(Learnts(L)) /\ ToSet(KeptOf(l)) = ToSet(l.core) \cup ToSet(l.tier2)
         /\ LitsOf(KeptOf(l)) \in Seq(ProperClauses(L))
         /\ ToSet(LitsOf(KeptOf(l))) = {d.lits : d \in ToSet(KeptOf(l))}
<1>1. l.core \in Seq(Learnts(L)) /\ l.tier2 \in Seq(Learnts(L))
  BY DEF Tiered
<1> DEFINE K == KeptOf(l)
<1>2. K \in Seq(Learnts(L)) /\ ToSet(K) = ToSet(l.core) \cup ToSet(l.tier2)
  BY <1>1, JoinedFacts DEF KeptOf
<1> HIDE DEF K
<1>3. DOMAIN K = 1 .. Len(K) /\ Len(K) \in Nat /\ \A k \in DOMAIN K : K[k] \in Learnts(L)
  BY <1>2, ToSetIn
<1>4. \A k \in DOMAIN K : K[k].lits \in ProperClauses(L)
  BY <1>3 DEF Learnts
<1>5. LitsOf(K) \in Seq(ProperClauses(L))
  BY <1>3, <1>4 DEF LitsOf
<1>6. ToSet(LitsOf(K)) = {d.lits : d \in ToSet(K)}
  BY DEF ToSet, LitsOf
<1> QED
  BY <1>2, <1>5, <1>6 DEF K

(* The database is true when its parts are. *)
LEMMA DatabaseFacts ==
  ASSUME NEW L \in SUBSET Lits, NEW cs \in Seq(ProperClauses(L)), NEW l \in Tiered(L),
         NEW fs \in SUBSET L
  PROVE  /\ DatabaseOf(cs, l, fs) \in SUBSET SUBSET L
         /\ \A m : Satisfies(m, DatabaseOf(cs, l, fs))
                     <=> Satisfies(m, AsSet(cs)) /\ MakesLearnts(m, l) /\ MakesAll(m, fs)
         /\ \A t \in {"core", "tier2"} : \A d \in ToSet(l[t]) : ToSet(d.lits) \in DatabaseOf(cs, l, fs)
<1> DEFINE K == KeptOf(l)
           D == AsSet(LitsOf(K))
<1>1. /\ ToSet(K) = ToSet(l.core) \cup ToSet(l.tier2)
      /\ LitsOf(K) \in Seq(ProperClauses(L))
      /\ ToSet(LitsOf(K)) = {d.lits : d \in ToSet(K)}
  BY KeptFacts
<1>2. AsSet(cs) \in SUBSET SUBSET L /\ D \in SUBSET SUBSET L
  BY <1>1, AsSetLits
<1>3. D = {ToSet(d.lits) : d \in ToSet(K)}
  BY <1>1, AsSetFacts
<1> HIDE DEF D, K
<1>4. DatabaseOf(cs, l, fs) = AsSet(cs) \cup D \cup {{p} : p \in fs}
  BY DEF DatabaseOf, D, K
<1>5. \A m : Satisfies(m, D) <=> MakesLearnts(m, l)
  <2> TAKE m
  <2>1. Satisfies(m, D) <=> \A d \in ToSet(K) : SatisfiesClause(m, ToSet(d.lits))
    BY <1>3 DEF Satisfies
  <2>2. MakesLearnts(m, l) <=> \A d \in ToSet(K) : SatisfiesClause(m, ToSet(d.lits))
    BY <1>1 DEF MakesLearnts
  <2> QED
    BY <2>1, <2>2
<1>6. \A m : Satisfies(m, {{p} : p \in fs}) <=> MakesAll(m, fs)
  <2> TAKE m
  <2>1. \A p : SatisfiesClause(m, {p}) <=> Makes(m, p)
    BY DEF SatisfiesClause
  <2>2. Satisfies(m, {{p} : p \in fs}) <=> \A p \in fs : SatisfiesClause(m, {p})
    BY DEF Satisfies
  <2> QED
    BY <2>1, <2>2 DEF MakesAll
<1>7. \A m : Satisfies(m, DatabaseOf(cs, l, fs))
               <=> Satisfies(m, AsSet(cs)) /\ Satisfies(m, D) /\ Satisfies(m, {{p} : p \in fs})
  BY <1>4 DEF Satisfies
<1>8. \A t \in {"core", "tier2"} : \A d \in ToSet(l[t]) : ToSet(d.lits) \in D
  BY <1>1, <1>3
<1>9. DatabaseOf(cs, l, fs) \in SUBSET SUBSET L
  BY <1>2, <1>4
<1>10. \A t \in {"core", "tier2"} : \A d \in ToSet(l[t]) : ToSet(d.lits) \in DatabaseOf(cs, l, fs)
  BY <1>4, <1>8
<1> QED
  BY <1>5, <1>6, <1>7, <1>9, <1>10

(* What is sound may be said of each part. *)
LEMMA SoundParts ==
  ASSUME DbOK, NEW m
  PROVE  /\ Database \in SUBSET SUBSET UsedLits /\ UsedLits \in SUBSET Lits
         /\ Satisfies(m, Database)
              <=> Satisfies(m, AsSet(clauses)) /\ MakesLearnts(m, learnts) /\ MakesAll(m, facts)
<1>1. UsedLits \in SUBSET Lits
  BY UsedFacts DEF DbOK
<1>2. /\ clauses \in Seq(ProperClauses(UsedLits)) /\ learnts \in Tiered(UsedLits)
      /\ facts \in SUBSET UsedLits
  BY DEF DbOK, Tiered
<1> QED
  BY <1>1, <1>2, DatabaseFacts, DatabaseIs

(* Without a new variable the same are in use. *)
LEMMA SameUsed ==
  ASSUME UNCHANGED nVars
  PROVE  UsedLits' = UsedLits /\ Used' = Used
BY DEF UsedLits, Used

(* What does not touch the clauses leaves all of it as it is. *)
LEMMA SameDb ==
  ASSUME DbOK, Sound, UNCHANGED <<dbVars, late, learnts>>
  PROVE  DbOK' /\ Sound' /\ Instance' = Instance /\ UsedLits' = UsedLits /\ Used' = Used
<1>1. UNCHANGED <<script, given, nVars, ok, clauses, facts, late, assumptions, learnts>>
  BY DEF dbVars
<1>2. UsedLits' = UsedLits /\ Used' = Used
  BY <1>1, SameUsed
<1>3. DbOK'
  BY <1>1, <1>2 DEF DbOK
<1>4. Database' = Database
  BY <1>1 DEF Database, KeptLits, Kept
<1>5. Sound'
  BY <1>1, <1>4 DEF Sound, SoundFor, Early
<1>6. Instance' = Instance
  BY <1>1 DEF Instance, KeptLits, Kept, Early
<1> QED
  BY <1>2, <1>3, <1>5, <1>6

-----------------------------------------------------------------------------
(* A step after which the clauses and facts say no less, and neither they
   nor what was learnt say more. *)
NoLess ==
  \A m \in Assignments :
    ok' /\ Satisfies(m, AsSet(clauses')) /\ MakesAll(m, Early')
      => ok /\ Satisfies(m, AsSet(clauses)) /\ MakesAll(m, Early)
NoMore ==
  \A m \in Assignments :
    ok /\ Satisfies(m, Database)
      => ok' /\ Satisfies(m, AsSet(clauses')) /\ MakesLearnts(m, learnts') /\ MakesAll(m, facts')

(* The database after a step, by its parts. *)
LEMMA PartsNext ==
  ASSUME DbOK', NEW m
  PROVE  Satisfies(m, Database')
           <=> Satisfies(m, AsSet(clauses')) /\ MakesLearnts(m, learnts') /\ MakesAll(m, facts')
<1>1. Database' = DatabaseOf(clauses', learnts', facts')
  BY DEF Database, DatabaseOf, KeptLits, Kept, LitsOf, KeptOf
<1>2. /\ nVars' \in 0 .. NVars
      /\ clauses' \in Seq(ProperClauses(UsedLits')) /\ learnts' \in Tiered(UsedLits')
      /\ facts' \in SUBSET UsedLits'
  BY DEF DbOK, Tiered
<1>3. UsedLits' \in SUBSET Lits
  BY DEF UsedLits
<1> QED
  BY <1>1, <1>2, <1>3, DatabaseFacts

(* Such a step keeps the clauses sound. *)
LEMMA SoundNext ==
  ASSUME Sound, DbOK', given' = given, NoLess, NoMore
  PROVE  Sound'
<1> SUFFICES ASSUME NEW m \in Assignments
             PROVE  SoundFor(m)'
  BY DEF Sound
<1>1. SoundFor(m)
  BY DEF Sound
<1>2. ok' /\ Satisfies(m, AsSet(clauses')) /\ MakesAll(m, Early') => Satisfies(m, given')
  BY <1>1 DEF SoundFor, NoLess
<1>3. Satisfies(m, given') => ok' /\ Satisfies(m, Database')
  BY <1>1, PartsNext DEF SoundFor, NoMore
<1> QED
  BY <1>2, <1>3 DEF SoundFor

(* A clause whose negation propagation refutes follows. *)
LEMMA Refuted ==
  ASSUME NEW cs \in SUBSET SUBSET Lits, NEW fs \in SUBSET Lits, NEW c \in SUBSET Lits,
         Contradicts(Closure(cs, fs \cup {Neg(p) : p \in c})),
         NEW m \in Assignments, Satisfies(m, cs), MakesAll(m, fs)
  PROVE  SatisfiesClause(m, c)
<1> SUFFICES ASSUME ~SatisfiesClause(m, c) PROVE FALSE
  OBVIOUS
<1> DEFINE S == fs \cup {Neg(p) : p \in c}
<1>1. S \in SUBSET Lits
  BY LitFacts
<1>2. ASSUME NEW p \in c PROVE Makes(m, Neg(p))
  BY MakesNeg DEF SatisfiesClause
<1>3. MakesAll(m, S)
  BY <1>2 DEF MakesAll
<1> DEFINE T == Closure(cs, S)
<1>4. Contradicts(T)
  OBVIOUS
<1> HIDE DEF S
<1>5. /\ T \subseteq S \cup UNION cs
      /\ \A a \in Assignments : Satisfies(a, cs) /\ MakesAll(a, S) => MakesAll(a, T)
  BY <1>1, ClosureFacts
<1> HIDE DEF T
<1>6. MakesAll(m, T)
  BY <1>3, <1>5
<1>7. T \in SUBSET Lits
  BY <1>1, <1>5
<1> QED
  BY <1>4, <1>6, <1>7, NoContradiction

(* A clause of at most one literal, and what it makes true with what is
   true already. *)
LEMMA NewFacts ==
  ASSUME NEW L \in SUBSET Lits, NEW cs \in SUBSET SUBSET L, NEW fs \in SUBSET L,
         NEW c \in SUBSET L, ~(Cardinality(c) > 1)
  PROVE  LET new == Closure(cs, fs \cup c) IN
           /\ new \in SUBSET L /\ fs \subseteq new
           /\ \A m \in Assignments :
                /\ MakesAll(m, new) => MakesAll(m, fs) /\ (c # {} => SatisfiesClause(m, c))
                /\ Satisfies(m, cs) /\ MakesAll(m, fs) /\ SatisfiesClause(m, c)
                     => MakesAll(m, new) /\ ~Contradicts(new)
<1> DEFINE S == fs \cup c
           new == Closure(cs, S)
<1>1. S \in SUBSET Lits /\ cs \in SUBSET SUBSET Lits
  OBVIOUS
<1>2. /\ S \subseteq new /\ new \subseteq S \cup UNION cs
      /\ \A m \in Assignments : Satisfies(m, cs) /\ MakesAll(m, S) => MakesAll(m, new)
  BY <1>1, ClosureFacts
<1>3. ASSUME NEW p \in c, NEW q \in c PROVE p = q
  <2>1. IsFiniteSet(c) /\ Cardinality(c) \in Nat
    BY LitsFinite, FS_CardinalityType
  <2>2. Cardinality(c) # 0
    BY <1>3, <2>1, FS_EmptySet
  <2>3. Cardinality(c) = 1
    <3> DEFINE a == Cardinality(c)
    <3>1. a \in Nat /\ a # 0 /\ ~(a > 1)
      BY <2>1, <2>2
    <3> HIDE DEF a
    <3>2. a = 1
      BY <3>1
    <3> QED
      BY <3>2 DEF a
  <2>4. PICK x : c = {x}
    BY <2>1, <2>3, FS_Singleton
  <2> QED
    BY <1>3, <2>4
<1>4. new \in SUBSET L /\ fs \subseteq new
  BY <1>2
<1> HIDE DEF new
<1>5. ASSUME NEW m \in Assignments, MakesAll(m, new)
      PROVE  MakesAll(m, fs) /\ (c # {} => SatisfiesClause(m, c))
  BY <1>2, <1>5 DEF MakesAll, SatisfiesClause
<1>6. ASSUME NEW m \in Assignments, Satisfies(m, cs), MakesAll(m, fs), SatisfiesClause(m, c)
      PROVE  MakesAll(m, new) /\ ~Contradicts(new)
  <2>1. MakesAll(m, S)
    BY <1>3, <1>6 DEF MakesAll, SatisfiesClause
  <2>2. MakesAll(m, new)
    BY <1>2, <1>6, <2>1
  <2>3. new \in SUBSET Lits
    BY <1>4
  <2> QED
    BY <2>2, <2>3, NoContradiction
<1> QED
  BY <1>4, <1>5, <1>6 DEF new

-----------------------------------------------------------------------------
(* One learnt clause more. *)
Added(l, t, d) == [l EXCEPT ![t] = Append(@, d)]

(* One more learnt clause. *)
LEMMA AddedFacts ==
  ASSUME NEW L \in SUBSET Lits, NEW l \in Tiered(L), NEW t \in {"core", "tier2"},
         NEW d \in Learnts(L)
  PROVE  /\ Added(l, t, d) \in Tiered(L)
         /\ \A m : MakesLearnts(m, l) /\ SatisfiesClause(m, ToSet(d.lits))
                     => MakesLearnts(m, Added(l, t, d))
<1> DEFINE k == Added(l, t, d)
           a == Append(l[t], d)
<1>1. l[t] \in Seq(Learnts(L))
  BY DEF Tiered
<1>2. a \in Seq(Learnts(L)) /\ ToSet(a) \subseteq ToSet(l[t]) \cup {d}
  <2>1. a \in Seq(Learnts(L)) /\ DOMAIN a = 1 .. Len(l[t]) + 1 /\ Len(l[t]) \in Nat
        /\ DOMAIN l[t] = 1 .. Len(l[t])
        /\ \A i \in DOMAIN a : a[i] = IF i <= Len(l[t]) THEN l[t][i] ELSE d
    BY <1>1
  <2> HIDE DEF a
  <2>2. ASSUME NEW x \in ToSet(a) PROVE x \in ToSet(l[t]) \cup {d}
    <3>1. PICK i \in DOMAIN a : x = a[i]
      BY DEF ToSet
    <3>2. CASE i <= Len(l[t])
      <4>1. i \in DOMAIN l[t] /\ x = l[t][i]
        BY <2>1, <3>1, <3>2
      <4> QED
        BY <4>1 DEF ToSet
    <3> QED
      BY <2>1, <3>1, <3>2
  <2> QED
    BY <2>1, <2>2
<1>3. DOMAIN l = {"core", "tier2"} /\ \A u \in {"core", "tier2"} : l[u] \in Seq(Learnts(L))
  BY DEF Tiered
<1>4. DOMAIN k = {"core", "tier2"} /\ k = [u \in {"core", "tier2"} |-> k[u]]
      /\ \A u \in {"core", "tier2"} : k[u] = IF u = t THEN a ELSE l[u]
  BY <1>3 DEF Added
<1> HIDE DEF k, a
<1>5. \A u \in {"core", "tier2"} : k[u] \in Seq(Learnts(L))
  BY <1>2, <1>3, <1>4
<1>6. k \in Tiered(L)
  BY <1>4, <1>5 DEF Tiered
<1>7. ASSUME NEW m, MakesLearnts(m, l), SatisfiesClause(m, ToSet(d.lits))
      PROVE  MakesLearnts(m, k)
  <2>1. ASSUME NEW u \in {"core", "tier2"}, NEW x \in ToSet(k[u])
        PROVE  SatisfiesClause(m, ToSet(x.lits))
    <3>1. x \in ToSet(l[u]) \/ x = d
      BY <1>2, <1>4, <2>1
    <3> QED
      BY <1>7, <3>1 DEF MakesLearnts
  <2> QED
    BY <2>1 DEF MakesLearnts
<1> QED
  BY <1>6, <1>7 DEF k

(* Learnt clauses that are among those there were. *)
LEMMA FewerFacts ==
  ASSUME NEW L \in SUBSET Lits, NEW l \in Tiered(L), NEW k, NEW T,
         k = [t \in DOMAIN l |-> Selected(l[t], T[t])]
  PROVE  /\ k \in Tiered(L) /\ \A t \in {"core", "tier2"} : ToSet(k[t]) \subseteq ToSet(l[t])
         /\ \A m : MakesLearnts(m, l) => MakesLearnts(m, k)
<1>1. DOMAIN l = {"core", "tier2"} /\ \A t \in {"core", "tier2"} : l[t] \in Seq(Learnts(L))
  BY DEF Tiered
<1>2. ASSUME NEW t \in {"core", "tier2"}
      PROVE  k[t] \in Seq(Learnts(L)) /\ ToSet(k[t]) \subseteq ToSet(l[t])
  <2>1. k[t] = Selected(l[t], T[t])
    BY <1>1
  <2>2. Selected(l[t], T[t]) \in Seq(Learnts(L)) /\ ToSet(Selected(l[t], T[t])) = ToSet(l[t]) \cap T[t]
    BY <1>1, SelectedIn
  <2> QED
    BY <2>1, <2>2
<1>3. k = [t \in {"core", "tier2"} |-> k[t]]
  BY <1>1
<1>4. k \in Tiered(L)
  BY <1>2, <1>3 DEF Tiered
<1> QED
  BY <1>2, <1>4 DEF MakesLearnts

-----------------------------------------------------------------------------
(* Learning, and what removes clauses. *)

(* What a step of the search may change. *)
LEMMA DbNext ==
  ASSUME DbOK, UNCHANGED <<script, given, nVars, assumptions>>, ok' \in BOOLEAN,
         clauses' \in Seq(ProperClauses(UsedLits)), learnts' \in Tiered(UsedLits),
         facts' \in SUBSET UsedLits, ~Contradicts(facts'), late' \in SUBSET facts'
  PROVE  DbOK'
<1>1. UsedLits' = UsedLits
  BY SameUsed
<1> QED
  BY <1>1 DEF DbOK, Tiered

(* When level 0 is reached no fact is late. *)
LEMMA LevelZero ==
  ASSUME DbOK, Sound, UNCHANGED <<dbVars, learnts>>, late' = {}
  PROVE  DbOK' /\ Sound'
<1>1. UNCHANGED <<script, given, nVars, ok, clauses, facts, assumptions, learnts>>
  BY DEF dbVars
<1>2. DbOK'
  BY <1>1, DbNext DEF DbOK, Tiered
<1>3. NoLess
  BY <1>1 DEF NoLess, Early, MakesAll
<1>4. NoMore
  BY <1>1, SoundParts DEF NoMore
<1> QED
  BY <1>1, <1>2, <1>3, <1>4, SoundNext

(* The solver learns nothing that does not follow. *)
LEMMA LearnDb ==
  ASSUME DbOK, Sound, Learn
  PROVE  DbOK' /\ Sound'
<1> DEFINE L == UsedLits
<1>1. PICK n \in 1 .. MaxLits : \E c \in kSubset(n, Lits) :
         /\ VarsOf(c) \subseteq (0 .. nVars - 1) \ VarsOf(facts)
         /\ ~Contradicts(c) /\ c \notin Database
         /\ \A m \in Models(Database) : SatisfiesClause(m, c)
         /\ LET new == Closure(Database, facts \cup c) IN
              IF Cardinality(c) > 1
              THEN /\ \E tier \in {"core", "tier2"} :
                        learnts' = [learnts EXCEPT ![tier] =
                                      Append(@, [lits |-> Sorted(c), simplified |-> FALSE])]
                   /\ UNCHANGED facts
              ELSE ~Contradicts(new) /\ facts' = new /\ UNCHANGED learnts
  BY DEF Learn
<1>2. PICK c \in kSubset(n, Lits) :
         /\ VarsOf(c) \subseteq (0 .. nVars - 1) \ VarsOf(facts)
         /\ ~Contradicts(c) /\ c \notin Database
         /\ \A m \in Models(Database) : SatisfiesClause(m, c)
         /\ LET new == Closure(Database, facts \cup c) IN
              IF Cardinality(c) > 1
              THEN /\ \E tier \in {"core", "tier2"} :
                        learnts' = [learnts EXCEPT ![tier] =
                                      Append(@, [lits |-> Sorted(c), simplified |-> FALSE])]
                   /\ UNCHANGED facts
              ELSE ~Contradicts(new) /\ facts' = new /\ UNCHANGED learnts
  BY <1>1
<1>3. c \in SUBSET Lits /\ Cardinality(c) = n /\ n > 0
  BY <1>1, <1>2 DEF kSubset
<1>4. /\ UNCHANGED <<script, given, nVars, ok, clauses, assumptions>>
      /\ late' \in {{}, late \cup (facts' \ facts)}
  BY DEF Learn
<1>5. L \in SUBSET Lits /\ Database \in SUBSET SUBSET L /\ facts \in SUBSET L
      /\ clauses \in Seq(ProperClauses(L)) /\ learnts \in Tiered(L) /\ ok \in BOOLEAN
      /\ late \in SUBSET facts
  BY SoundParts DEF DbOK, Tiered
<1>6. c \in SUBSET L
  <2>1. \A p \in c : Var(p) \in Used
    BY <1>2 DEF VarsOf, Used
  <2> QED
    BY <1>3, <2>1, UsedFacts DEF DbOK
<1>7. ASSUME NEW m \in Assignments, Satisfies(m, Database)
      PROVE  SatisfiesClause(m, c) /\ MakesAll(m, facts) /\ Satisfies(m, AsSet(clauses))
             /\ MakesLearnts(m, learnts)
  <2>1. MakesAll(m, facts) /\ Satisfies(m, AsSet(clauses)) /\ MakesLearnts(m, learnts)
    BY <1>7, SoundParts
  <2>2. SatisfiesClause(m, c)
    BY <1>2, <1>7 DEF Models
  <2> QED
    BY <2>1, <2>2
<1> HIDE DEF L
<1>10. ASSUME facts \subseteq facts' PROVE late' \in SUBSET facts' /\ Early \subseteq Early'
  BY <1>4, <1>5, <1>10 DEF Early
<1>8. CASE Cardinality(c) > 1
  <2> DEFINE d == [lits |-> Sorted(c), simplified |-> FALSE]
  <2>1. PICK t \in {"core", "tier2"} : learnts' = Added(learnts, t, d)
    BY <1>2, <1>8 DEF Added
  <2>2. facts' = facts
    BY <1>2, <1>8
  <2>3. Sorted(c) \in ProperClauses(L) /\ ToSet(Sorted(c)) = c
    BY <1>2, <1>5, <1>6, <1>8, SortedProper
  <2>4. d \in Learnts(L) /\ ToSet(d.lits) = c
    BY <2>3 DEF Learnts
  <2> HIDE DEF d
  <2>5. /\ Added(learnts, t, d) \in Tiered(L)
        /\ \A m : MakesLearnts(m, learnts) /\ SatisfiesClause(m, ToSet(d.lits))
                    => MakesLearnts(m, Added(learnts, t, d))
    BY <1>5, <2>4, AddedFacts
  <2>6. DbOK'
    BY <1>4, <1>5, <1>10, <2>1, <2>2, <2>5, DbNext DEF DbOK, L
  <2>7. NoLess
    BY <1>4, <1>10, <2>2 DEF NoLess, MakesAll
  <2>8. NoMore
    BY <1>4, <1>7, <2>1, <2>2, <2>4, <2>5 DEF NoMore
  <2> QED
    BY <1>4, <2>6, <2>7, <2>8, SoundNext
<1>9. CASE ~(Cardinality(c) > 1)
  <2> DEFINE new == Closure(Database, facts \cup c)
  <2>1. facts' = new /\ ~Contradicts(new) /\ learnts' = learnts
    BY <1>2, <1>9
  <2>2. /\ new \in SUBSET L /\ facts \subseteq new
        /\ \A m \in Assignments :
             /\ MakesAll(m, new) => MakesAll(m, facts) /\ (c # {} => SatisfiesClause(m, c))
             /\ Satisfies(m, Database) /\ MakesAll(m, facts) /\ SatisfiesClause(m, c)
                  => MakesAll(m, new) /\ ~Contradicts(new)
    BY <1>5, <1>6, <1>9, NewFacts
  <2> HIDE DEF new
  <2>3. DbOK'
    BY <1>4, <1>5, <1>10, <2>1, <2>2, DbNext DEF L
  <2>4. NoLess
    BY <1>4, <1>10, <2>1, <2>2 DEF NoLess, MakesAll
  <2>5. NoMore
    BY <1>4, <1>7, <2>1, <2>2 DEF NoMore
  <2> QED
    BY <1>4, <2>3, <2>4, <2>5, SoundNext
<1> QED
  BY <1>8, <1>9

(* Clauses that are true at level 0 may go. *)
LEMMA simplifySteps ==
  ASSUME DbOK, Sound, simplify
  PROVE  DbOK' /\ Sound'
<1> DEFINE L == UsedLits
           open(c) == ToSet(c) \cap facts = {}
           C == {c \in ToSet(clauses) : open(c)}
           T == [t \in DOMAIN learnts |-> {d \in ToSet(learnts[t]) : open(d.lits)}]
<1>1. UNCHANGED <<script, given, nVars, ok, facts, assumptions>> /\ late' = {}
  BY DEF simplify
<1>2. clauses' = Selected(clauses, C)
      /\ learnts' = [t \in DOMAIN learnts |-> Selected(learnts[t], T[t])]
  BY DEF simplify
<1>3. L \in SUBSET Lits /\ facts \in SUBSET L /\ ~Contradicts(facts)
      /\ clauses \in Seq(ProperClauses(L)) /\ learnts \in Tiered(L) /\ ok \in BOOLEAN
  BY SoundParts DEF DbOK, Tiered
<1>4. clauses' \in Seq(ProperClauses(L)) /\ ToSet(clauses') = ToSet(clauses) \cap C
  BY <1>2, <1>3, SelectedIn
<1>5. learnts' \in Tiered(L) /\ \A m : MakesLearnts(m, learnts) => MakesLearnts(m, learnts')
  <2> HIDE DEF T, L
  <2> DEFINE l == learnts
             k == [t \in DOMAIN l |-> Selected(l[t], T[t])]
  <2>1. l \in Tiered(L) /\ L \in SUBSET Lits
    BY <1>3
  <2>2. k \in Tiered(L) /\ \A m : MakesLearnts(m, l) => MakesLearnts(m, k)
    <3> HIDE DEF l
    <3> QED
      BY <2>1, FewerFacts
  <2> QED
    BY <1>2, <2>2
<1>6. DbOK'
  BY <1>1, <1>3, <1>4, <1>5, DbNext
<1>7. AsSet(clauses) = {ToSet(c) : c \in ToSet(clauses)}
      /\ AsSet(clauses') = {ToSet(c) : c \in ToSet(clauses')}
  BY AsSetFacts
<1>8. NoLess
  <2>1. ASSUME NEW m \in Assignments, Satisfies(m, AsSet(clauses')), MakesAll(m, facts),
               NEW c \in ToSet(clauses)
        PROVE  SatisfiesClause(m, ToSet(c))
    <3>1. CASE open(c)
      BY <1>4, <1>7, <2>1, <3>1 DEF Satisfies
    <3>2. CASE ~open(c)
      BY <2>1, <3>2 DEF MakesAll, SatisfiesClause
    <3> QED
      BY <3>1, <3>2
  <2> QED
    BY <1>1, <1>7, <2>1 DEF NoLess, Satisfies, Early, MakesAll
<1>9. NoMore
  <2>1. ASSUME NEW m \in Assignments, Satisfies(m, AsSet(clauses))
        PROVE  Satisfies(m, AsSet(clauses'))
    BY <1>4, <1>7, <2>1 DEF Satisfies
  <2> QED
    BY <1>1, <1>5, <2>1, SoundParts DEF NoMore
<1> QED
  BY <1>1, <1>6, <1>8, <1>9, SoundNext

(* Clauses of tier 2 may go (reduceDB_Tier2). *)
LEMMA ReduceDb ==
  ASSUME DbOK, Sound, reduceDB_Tier2
  PROVE  DbOK' /\ Sound'
<1> DEFINE L == UsedLits
<1>1. PICK unused \in SUBSET ToSet(learnts.tier2) :
         learnts' = [learnts EXCEPT !.tier2 = Selected(@, ToSet(@) \ unused)]
  BY DEF reduceDB_Tier2
<1>2. UNCHANGED <<script, given, nVars, ok, clauses, facts, late, assumptions>>
  BY DEF reduceDB_Tier2, dbVars
<1>3. L \in SUBSET Lits /\ facts \in SUBSET L /\ ~Contradicts(facts)
      /\ clauses \in Seq(ProperClauses(L)) /\ learnts \in Tiered(L) /\ ok \in BOOLEAN
      /\ late \in SUBSET facts
  BY SoundParts DEF DbOK, Tiered
<1>4. learnts' \in Tiered(L) /\ \A m : MakesLearnts(m, learnts) => MakesLearnts(m, learnts')
  <2>1. DOMAIN learnts = {"core", "tier2"}
        /\ \A t \in {"core", "tier2"} : learnts[t] \in Seq(Learnts(L))
    BY <1>3 DEF Tiered
  <2> DEFINE l == learnts
             k == learnts'
             a == Selected(l.tier2, ToSet(l.tier2) \ unused)
  <2>2. a \in Seq(Learnts(L)) /\ ToSet(a) \subseteq ToSet(l.tier2)
    BY <2>1, SelectedIn
  <2>3. k = [l EXCEPT !.tier2 = a]
    BY <1>1
  <2> HIDE DEF a, k, L
  <2>4. k = [t \in {"core", "tier2"} |-> k[t]] /\ k.core = l.core /\ k.tier2 = a
    BY <2>1, <2>3
  <2>5. \A t \in {"core", "tier2"} : k[t] \in Seq(Learnts(L)) /\ ToSet(k[t]) \subseteq ToSet(l[t])
    BY <2>1, <2>2, <2>4
  <2>6. k \in Tiered(L)
    BY <2>4, <2>5 DEF Tiered
  <2>7. \A m : MakesLearnts(m, l) => MakesLearnts(m, k)
    BY <2>5 DEF MakesLearnts
  <2> QED
    BY <2>6, <2>7 DEF k
<1>5. DbOK'
  BY <1>2, <1>3, <1>4, DbNext
<1>6. NoLess
  BY <1>2 DEF NoLess, Early
<1>7. NoMore
  BY <1>2, <1>4, SoundParts DEF NoMore
<1> QED
  BY <1>2, <1>5, <1>6, <1>7, SoundNext

-----------------------------------------------------------------------------
(* simplifyLearnt. *)

(* AssumeFalse, literal by literal. *)
AssumeStep(others, s, p) ==
  IF s.stopped \/ Neg(p) \in s.true THEN s
  ELSE LET now == Closure(others, s.true \cup {Neg(p)}) IN
         [kept |-> s.kept \cup {p}, true |-> now, stopped |-> Contradicts(now)]
AssumeOp(arg, s, k) == AssumeStep(arg[1], s, arg[2][k])
Assumes == INSTANCE FoldTheorems WITH op <- AssumeOp, pick <- Top
AssumeFirst(fs) == [kept |-> {}, true |-> fs, stopped |-> FALSE]

(* simplifyLearnt assumes the literals of a clause to be false, one after
   the other. *)
LEMMA AssumeTrace ==
  ASSUME NEW n \in Nat, NEW ps, DOMAIN ps = 1 .. n, NEW others
  PROVE  \E g : /\ g[0] = AssumeFirst(facts)
                /\ \A k \in 1 .. n : g[k] = AssumeStep(others, g[k - 1], ps[k])
                /\ AssumeFalse(others, ps) = g[n]
<1> DEFINE arg == <<others, ps>>
           base == AssumeFirst(facts)
           f == CHOOSE f : Assumes!Folds(arg, base, 1 .. n, f)
<1>1. \A S : Top(S) = Assumes!Largest(S)
  BY DEF Top, Assumes!Largest
<1>2. AssumeFalse(others, ps) = f[1 .. n]
  BY DEF AssumeFalse, simplePropagate, AssumeOp, AssumeStep, AssumeFirst, Top, Assumes!Folds,
         FoldLeft, MapThenFoldSet, Max
<1>3. \E h : Assumes!Folds(arg, base, 1 .. n, h)
  BY <1>1, Least, Assumes!SequenceFold
<1>4. Assumes!Folds(arg, base, 1 .. n, f)
  BY <1>3
<1> HIDE DEF f
<1>5. PICK g : Assumes!Trace(arg, base, n, g) /\ g[n] = f[1 .. n]
  BY <1>1, <1>4, Assumes!SequenceTrace
<1>6. \A s, k : AssumeOp(arg, s, k) = AssumeStep(others, s, ps[k])
  BY DEF AssumeOp
<1> QED
  BY <1>2, <1>5, <1>6 DEF Assumes!Trace

-----------------------------------------------------------------------------
(* Up to the k-th literal: what holds while no literal that was kept does,
   and, unless the assumptions stopped, why each of the others was left out. *)
Holding(others, fs, s) ==
  \A m \in Assignments :
    Satisfies(m, others) /\ MakesAll(m, fs) /\ ~SatisfiesClause(m, s.kept) => MakesAll(m, s.true)
Assumed(others, fs, ps, k, s) ==
  /\ s.kept \subseteq ToSet(ps) /\ s.true \in SUBSET Lits
  /\ Holding(others, fs, s)
  /\ s.stopped \/ \A j \in 1 .. k : ps[j] \in s.kept \/ Neg(ps[j]) \in s.true

(* One literal more. *)
LEMMA AssumeKeeps ==
  ASSUME NEW others \in SUBSET SUBSET Lits, NEW fs, NEW ps \in Seq(Lits), NEW k \in 1 .. Len(ps),
         NEW s, Assumed(others, fs, ps, k - 1, s), NEW t, t = AssumeStep(others, s, ps[k])
  PROVE  Assumed(others, fs, ps, k, t)
<1> DEFINE p == ps[k]
           T == s.true \cup {Neg(p)}
           now == Closure(others, T)
<1>1. /\ s.kept \subseteq ToSet(ps) /\ s.true \in SUBSET Lits /\ Holding(others, fs, s)
      /\ s.stopped \/ \A j \in 1 .. k - 1 : ps[j] \in s.kept \/ Neg(ps[j]) \in s.true
  BY DEF Assumed
<1>2. Len(ps) \in Nat /\ DOMAIN ps = 1 .. Len(ps)
  OBVIOUS
<1>3. p \in Lits /\ p \in ToSet(ps)
  BY <1>2 DEF ToSet
<1>4. \A j \in 1 .. k : j \in 1 .. k - 1 \/ j = k
  OBVIOUS
<1>5. t = IF s.stopped \/ Neg(p) \in s.true THEN s
          ELSE [kept |-> s.kept \cup {p}, true |-> now, stopped |-> Contradicts(now)]
  BY DEF AssumeStep
<1>6. T \in SUBSET Lits /\ Neg(p) \in T /\ s.true \subseteq T
  BY <1>1, <1>3, LitFacts
<1>7. /\ T \subseteq now /\ now \subseteq T \cup UNION others
      /\ \A m \in Assignments : Satisfies(m, others) /\ MakesAll(m, T) => MakesAll(m, now)
  <2> HIDE DEF T
  <2> QED
    BY <1>6, ClosureFacts
<1>8. CASE s.stopped \/ Neg(p) \in s.true
  <2>1. t = s
    BY <1>5, <1>8
  <2>2. s.stopped \/ \A j \in 1 .. k : ps[j] \in s.kept \/ Neg(ps[j]) \in s.true
    BY <1>1, <1>4, <1>8
  <2> QED
    BY <1>1, <2>1, <2>2 DEF Assumed
<1>9. CASE ~(s.stopped \/ Neg(p) \in s.true)
  <2> HIDE DEF now
  <2>1. t.kept = s.kept \cup {p} /\ t.true = now
    BY <1>5, <1>9
  <2>2. t.kept \subseteq ToSet(ps) /\ t.true \in SUBSET Lits
    BY <1>1, <1>3, <1>6, <1>7, <2>1
  <2>3. Holding(others, fs, t)
    <3>1. SUFFICES ASSUME NEW m \in Assignments, Satisfies(m, others), MakesAll(m, fs),
                          ~SatisfiesClause(m, t.kept)
                   PROVE  MakesAll(m, t.true)
      BY DEF Holding
    <3>2. ~SatisfiesClause(m, s.kept) /\ ~Makes(m, p)
      BY <2>1, <3>1 DEF SatisfiesClause
    <3>3. MakesAll(m, s.true)
      BY <1>1, <3>1, <3>2 DEF Holding
    <3>4. Makes(m, Neg(p))
      BY <1>3, <3>2, MakesNeg
    <3>5. MakesAll(m, T)
      BY <3>3, <3>4 DEF MakesAll
    <3> QED
      BY <1>7, <2>1, <3>1, <3>5
  <2>4. \A j \in 1 .. k : ps[j] \in t.kept \/ Neg(ps[j]) \in t.true
    BY <1>1, <1>4, <1>6, <1>7, <1>9, <2>1
  <2> QED
    BY <2>2, <2>3, <2>4 DEF Assumed
<1> QED
  BY <1>8, <1>9

(* All of them: what is true follows from the other clauses and the
   literals that were assumed. *)
LEMMA AssumeFacts ==
  ASSUME NEW others \in SUBSET SUBSET Lits, facts \in SUBSET Lits, NEW ps \in Seq(Lits),
         NEW s, s = AssumeFalse(others, ps)
  PROVE  Assumed(others, facts, ps, Len(ps), s)
<1> DEFINE n == Len(ps)
<1>1. n \in Nat /\ DOMAIN ps = 1 .. n
  OBVIOUS
<1> HIDE DEF n
<1>2. PICK g : /\ g[0] = AssumeFirst(facts)
               /\ \A k \in 1 .. n : g[k] = AssumeStep(others, g[k - 1], ps[k])
               /\ AssumeFalse(others, ps) = g[n]
  <2>1. \E g : /\ g[0] = AssumeFirst(facts)
               /\ \A k \in 1 .. n : g[k] = AssumeStep(others, g[k - 1], ps[k])
               /\ AssumeFalse(others, ps) = g[n]
    BY ONLY <1>1, AssumeTrace
  <2> QED
    BY <2>1
<1> DEFINE G == {k \in 0 .. n : Assumed(others, facts, ps, k, g[k])}
<1>3. 0 \in G
  <2> DEFINE b == g[0]
  <2>1. b.kept = {} /\ b.true = facts /\ 0 \in 0 .. n /\ 1 .. 0 = {}
    BY <1>1, <1>2 DEF AssumeFirst
  <2> HIDE DEF b
  <2>2. Assumed(others, facts, ps, 0, b)
    BY <2>1 DEF Assumed, Holding
  <2> QED
    BY <2>1, <2>2 DEF b
<1>4. ASSUME NEW k \in 1 .. n, k - 1 \in G PROVE k \in G
  <2> DEFINE r == g[k - 1]
             t == g[k]
  <2>1. Assumed(others, facts, ps, k - 1, r) /\ k \in 0 .. n
    BY <1>4
  <2>2. t = AssumeStep(others, r, ps[k])
    BY <1>2
  <2> HIDE DEF r, t
  <2>3. k \in 1 .. Len(ps)
    BY DEF n
  <2>4. Assumed(others, facts, ps, k, t)
    BY <2>1, <2>2, <2>3, AssumeKeeps
  <2> QED
    BY <2>1, <2>4 DEF t
<1> HIDE DEF G
<1>5. n \in G
  BY <1>1, <1>3, <1>4, Climb
<1> QED
  BY <1>2, <1>5 DEF G, n

(* Every element of a set is in each of its sequences. *)
LEMMA SeqsFacts ==
  ASSUME NEW c \in SUBSET Lits, NEW ps \in SetToSeqs(c)
  PROVE  ps \in Seq(c) /\ ToSet(ps) = c
<1> DEFINE n == Cardinality(c)
           D == 1 .. n
<1>1. IsFiniteSet(c) /\ n \in Nat
  BY LitsFinite, FS_CardinalityType
<1>2. ps \in [D -> c] /\ \A i, j \in D : i # j => ps[i] # ps[j]
  BY DEF SetToSeqs
<1> HIDE DEF n
<1>3. ps \in Injection(D, c)
  BY <1>2 DEF Injection, IsInjective
<1>4. Cardinality(D) = n
  BY <1>1, FS_Interval
<1>5. ps \in Surjection(D, c)
  <2> HIDE DEF D
  <2>1. Cardinality(D) = Cardinality(c) <=> ps \in Surjection(D, c)
    BY <1>1, <1>3, FS_Injection
  <2> QED
    BY <1>4, <2>1 DEF n
<1>6. ps \in Seq(c) /\ DOMAIN ps = D
  BY <1>1, <1>2
<1> HIDE DEF D
<1>7. \A x \in c : \E i \in D : ps[i] = x
  BY <1>5 DEF Surjection
<1> QED
  BY <1>2, <1>6, <1>7 DEF ToSet

(* What is left of a learnt clause still follows, from the others and from
   the clause itself. *)
LEMMA ShorterFacts ==
  ASSUME NEW others \in SUBSET SUBSET Lits, facts \in SUBSET Lits, NEW c \in SUBSET Lits,
         NEW S \in simplifyLearnt(others, c)
  PROVE  /\ S \subseteq c
         /\ \A m \in Assignments :
              Satisfies(m, others) /\ MakesAll(m, facts) /\ SatisfiesClause(m, c)
                => SatisfiesClause(m, S)
<1>1. PICK ps \in SetToSeqs(c) :
         S \in LET s == AssumeFalse(others, ps) IN
                 IF s.stopped THEN simpleAnalyze(others, s.kept) ELSE {s.kept}
  BY DEF simplifyLearnt
<1>2. PICK s : s = AssumeFalse(others, ps)
  OBVIOUS
<1>3. S \in IF s.stopped THEN simpleAnalyze(others, s.kept) ELSE {s.kept}
  BY <1>1, <1>2
<1>4. ps \in Seq(c) /\ ToSet(ps) = c /\ ps \in Seq(Lits)
  <2>1. ps \in Seq(c) /\ ToSet(ps) = c
    BY SeqsFacts
  <2> QED
    BY <2>1, SeqMore
<1>5. Assumed(others, facts, ps, Len(ps), s)
  BY <1>2, <1>4, AssumeFacts
<1> DEFINE K == s.kept
           R == s.true
<1>6. /\ K \subseteq c /\ R \in SUBSET Lits
      /\ \A m \in Assignments :
           Satisfies(m, others) /\ MakesAll(m, facts) /\ ~SatisfiesClause(m, K) => MakesAll(m, R)
      /\ s.stopped \/ \A j \in 1 .. Len(ps) : ps[j] \in K \/ Neg(ps[j]) \in R
  BY <1>4, <1>5 DEF Assumed, Holding
<1>7. K \subseteq c
  BY <1>6
<1>8. CASE s.stopped
  <2>1. S \in simpleAnalyze(others, K)
    BY <1>3, <1>8
  <2> HIDE DEF K
  <2>2. S \in SUBSET K /\ Contradicts(Closure(others, facts \cup {Neg(p) : p \in S}))
    BY <2>1 DEF simpleAnalyze, simplePropagate
  <2>3. S \subseteq c
    BY <1>7, <2>2
  <2>4. S \in SUBSET Lits
    BY <2>3
  <2>5. ASSUME NEW m \in Assignments, Satisfies(m, others), MakesAll(m, facts)
        PROVE  SatisfiesClause(m, S)
    BY <2>2, <2>4, <2>5, Refuted
  <2> QED
    BY <2>3, <2>5
<1>9. CASE ~s.stopped
  <2>1. S = K
    BY <1>3, <1>9
  <2> HIDE DEF K, R
  <2>2. ASSUME NEW m \in Assignments, Satisfies(m, others), MakesAll(m, facts),
               SatisfiesClause(m, c), ~SatisfiesClause(m, S)
        PROVE  FALSE
    <3>1. MakesAll(m, R)
      BY <1>6, <2>1, <2>2
    <3>2. PICK p \in c : Makes(m, p)
      BY <2>2 DEF SatisfiesClause
    <3>3. PICK j \in 1 .. Len(ps) : ps[j] = p
      BY <1>4 DEF ToSet
    <3>4. p \notin K
      BY <2>1, <2>2, <3>2 DEF SatisfiesClause
    <3>5. Makes(m, Neg(p))
      BY <1>6, <1>9, <3>1, <3>3, <3>4 DEF MakesAll
    <3> QED
      BY <3>2, <3>5, MakesNeg
  <2> QED
    BY <1>7, <2>1, <2>2
<1> QED
  BY <1>8, <1>9

(* A smaller clause contradicts itself no more. *)
LEMMA SubsetContradicts ==
  ASSUME NEW c, NEW S \in SUBSET c, ~Contradicts(c)
  PROVE  ~Contradicts(S)
BY DEF Contradicts

(* The clause that is tried, without the literals that are false: the
   other clauses say the same with any S in its place that is found. *)
TrialRest(c) == [t \in DOMAIN learnts |-> Selected(learnts[t], ToSet(learnts[t]) \ {c})]
TrialOthers(c) == Database \ {ToSet(c.lits)}
TrialLits(c) == {p \in ToSet(c.lits) : Neg(p) \notin facts}
TrialNew(c, S) == Closure(TrialOthers(c), facts \cup S)

(* The clause on trial, and the other clauses. *)
LEMMA TrialFacts ==
  ASSUME DbOK, NEW t \in {"core", "tier2"}, NEW c \in ToSet(learnts[t])
  PROVE  /\ TrialRest(c) \in Tiered(UsedLits)
         /\ \A m : MakesLearnts(m, learnts) => MakesLearnts(m, TrialRest(c))
         /\ TrialOthers(c) \in SUBSET SUBSET UsedLits
         /\ \A m : Satisfies(m, Database) => Satisfies(m, TrialOthers(c)) /\ MakesAll(m, facts)
         /\ TrialLits(c) \in SUBSET UsedLits /\ ~Contradicts(TrialLits(c))
         /\ \A m \in Assignments : Satisfies(m, Database) => SatisfiesClause(m, TrialLits(c))
         /\ c.lits \in ProperClauses(UsedLits)
<1> DEFINE L == UsedLits
           T == [u \in DOMAIN learnts |-> ToSet(learnts[u]) \ {c}]
<1>1. L \in SUBSET Lits /\ Database \in SUBSET SUBSET L /\ facts \in SUBSET L
      /\ learnts \in Tiered(L) /\ clauses \in Seq(ProperClauses(L))
  BY SoundParts DEF DbOK, Tiered
<1>2. c \in Learnts(L)
  <2>1. learnts[t] \in Seq(Learnts(L))
    BY <1>1 DEF Tiered
  <2> QED
    BY <2>1, ToSetIn
<1>3. c.lits \in ProperClauses(L) /\ ToSet(c.lits) \in SUBSET L /\ ~Contradicts(ToSet(c.lits))
  <2>1. c.lits \in ProperClauses(L)
    BY <1>2 DEF Learnts
  <2>2. c.lits \in Seq(L) /\ ~Contradicts(ToSet(c.lits))
    BY <2>1 DEF ProperClauses
  <2>3. ToSet(c.lits) \subseteq L
    BY <2>2, ToSetIn
  <2> QED
    BY <2>1, <2>2, <2>3
<1>4. TrialRest(c) \in Tiered(L) /\ \A m : MakesLearnts(m, learnts) => MakesLearnts(m, TrialRest(c))
  <2> DEFINE l == learnts
             k == [u \in DOMAIN l |-> Selected(l[u], T[u])]
  <2>1. l \in Tiered(L) /\ L \in SUBSET Lits
    BY <1>1
  <2>2. TrialRest(c) = k
    BY DEF TrialRest
  <2>3. k \in Tiered(L) /\ \A m : MakesLearnts(m, l) => MakesLearnts(m, k)
    <3> HIDE DEF l, T, L
    <3> QED
      BY <2>1, FewerFacts
  <2> QED
    BY <2>2, <2>3
<1>5. TrialOthers(c) \in SUBSET SUBSET L
  BY <1>1 DEF TrialOthers
<1>6. \A m : Satisfies(m, Database) => Satisfies(m, TrialOthers(c)) /\ MakesAll(m, facts)
  <2>1. \A m : Satisfies(m, Database) => Satisfies(m, TrialOthers(c))
    BY DEF TrialOthers, Satisfies
  <2> QED
    BY <2>1, SoundParts
<1>7. TrialLits(c) \in SUBSET L /\ ~Contradicts(TrialLits(c))
  BY <1>3, SubsetContradicts DEF TrialLits
<1>8. ToSet(c.lits) \in Database
  <2>1. ToSet(c.lits) \in DatabaseOf(clauses, learnts, facts)
    BY <1>1, DatabaseFacts
  <2> QED
    BY <2>1, DatabaseIs
<1>9. ASSUME NEW m \in Assignments, Satisfies(m, Database)
      PROVE  SatisfiesClause(m, TrialLits(c))
  <2>1. PICK p \in ToSet(c.lits) : Makes(m, p)
    BY <1>8, <1>9 DEF Satisfies, SatisfiesClause
  <2>2. p \in Lits /\ MakesAll(m, facts)
    BY <1>1, <1>3, <1>6, <1>9
  <2>3. Neg(p) \notin facts
    BY <2>1, <2>2, MakesNeg DEF MakesAll
  <2> QED
    BY <2>1, <2>3 DEF TrialLits, SatisfiesClause
<1> QED
  BY <1>3, <1>4, <1>5, <1>6, <1>7, <1>9

-----------------------------------------------------------------------------
(* What Simplify does, in cases. *)
Forgets(c) == learnts' = TrialRest(c) /\ UNCHANGED <<facts, ok, pc, last_result>>
StoresIn(c, S, t) ==
  /\ Cardinality(S) > 1
  /\ learnts' = Added(TrialRest(c), t, [lits |-> Sorted(S), simplified |-> TRUE])
  /\ UNCHANGED <<facts, ok, pc, last_result>>
Decides(c, S) ==
  /\ ~(Cardinality(S) > 1)
  /\ learnts' = TrialRest(c)
  /\ \/ /\ ~Contradicts(TrialNew(c, S)) /\ facts' = TrialNew(c, S)
        /\ UNCHANGED <<ok, pc, last_result>>
     \/ /\ Contradicts(TrialNew(c, S)) /\ ok' = FALSE /\ facts' = facts
        /\ pc' = "idle" /\ last_result' = 20

(* What simplifyLearnt_core and simplifyLearnt_tier2 do to one clause, in
   cases. *)
LEMMA SimplifyCases ==
  ASSUME ok, NEW c, NEW Tiers \in SUBSET {"core", "tier2", "dropped"}, Simplify(c, Tiers)
  PROVE  /\ UNCHANGED <<script, given, nVars, clauses, assumptions, late, restartVars, solnVars,
                        buildVars, model, lsVars>>
         /\ \/ Forgets(c)
            \/ \E S \in simplifyLearnt(TrialOthers(c), TrialLits(c)) :
                 \/ Decides(c, S)
                 \/ \E t \in {"core", "tier2"} : StoresIn(c, S, t)
<1>1. UNCHANGED <<script, given, nVars, clauses, assumptions, late, restartVars, solnVars,
                  buildVars, model, lsVars>>
  BY DEF Simplify
<1>2. CASE ToSet(c.lits) \cap facts # {}
  <2>1. Forgets(c)
    BY <1>2 DEF Simplify, Forgets, TrialRest
  <2> QED
    BY <1>1, <2>1
<1>3. CASE ToSet(c.lits) \cap facts = {}
  <2> DEFINE Store(S, t) == learnts' = IF t = "dropped" THEN TrialRest(c)
               ELSE Added(TrialRest(c), t, [lits |-> Sorted(S), simplified |-> TRUE])
             Enqueue(S) == IF Contradicts(TrialNew(c, S)) THEN ok' = FALSE /\ UNCHANGED facts
                           ELSE facts' = TrialNew(c, S) /\ UNCHANGED ok
  <2>1. PICK S \in simplifyLearnt(TrialOthers(c), TrialLits(c)) :
           IF Cardinality(S) > 1
           THEN (\E t \in Tiers : Store(S, t)) /\ UNCHANGED <<facts, ok, pc, last_result>>
           ELSE /\ learnts' = TrialRest(c) /\ Enqueue(S)
                /\ pc' = IF ok' THEN pc ELSE "idle"
                /\ last_result' = IF ok' THEN last_result ELSE 20
    BY <1>3 DEF Simplify, TrialRest, TrialOthers, TrialLits, TrialNew, Added
  <2>2. CASE Cardinality(S) > 1
    <3>1. PICK t \in Tiers : Store(S, t)
      BY <2>1, <2>2
    <3>2. UNCHANGED <<facts, ok, pc, last_result>>
      BY <2>1, <2>2
    <3>3. CASE t = "dropped"
      <4>1. Forgets(c)
        BY <3>1, <3>2, <3>3 DEF Forgets
      <4> QED
        BY <1>1, <4>1
    <3>4. CASE t # "dropped"
      <4>1. t \in {"core", "tier2"} /\ StoresIn(c, S, t)
        BY <2>2, <3>1, <3>2, <3>4 DEF StoresIn
      <4> QED
        BY <1>1, <4>1
    <3> QED
      BY <3>3, <3>4
  <2>3. CASE ~(Cardinality(S) > 1)
    <3>1. Decides(c, S)
      BY <2>1, <2>3 DEF Decides
    <3> QED
      BY <1>1, <3>1
  <2> QED
    BY <2>2, <2>3
<1> QED
  BY <1>2, <1>3

(* In each of them the clauses stay sound: a clause that became shorter
   follows from the others. *)
LEMMA SimplifyDb ==
  ASSUME DbOK, Sound, ok, NEW t \in {"core", "tier2"}, NEW c \in ToSet(learnts[t]),
         NEW Tiers \in SUBSET {"core", "tier2", "dropped"}, Simplify(c, Tiers)
  PROVE  DbOK' /\ Sound'
<1> DEFINE L == UsedLits
           O == TrialOthers(c)
           R == TrialRest(c)
           C == TrialLits(c)
<1>1. L \in SUBSET Lits /\ facts \in SUBSET L /\ ~Contradicts(facts)
      /\ clauses \in Seq(ProperClauses(L)) /\ ok \in BOOLEAN /\ late \in SUBSET facts
  BY SoundParts DEF DbOK
<1>2. /\ R \in Tiered(L)
      /\ \A m : MakesLearnts(m, learnts) => MakesLearnts(m, R)
      /\ O \in SUBSET SUBSET L
      /\ \A m : Satisfies(m, Database) => Satisfies(m, O) /\ MakesAll(m, facts)
      /\ C \in SUBSET L /\ ~Contradicts(C)
      /\ \A m \in Assignments : Satisfies(m, Database) => SatisfiesClause(m, C)
  BY TrialFacts
<1>3. UNCHANGED <<script, given, nVars, clauses, assumptions, late>>
  BY SimplifyCases
<1>4. CASE Forgets(c)
  <2>1. learnts' = R /\ facts' = facts /\ ok' = ok
    BY <1>4 DEF Forgets
  <2>2. DbOK'
    BY <1>1, <1>2, <1>3, <2>1, DbNext
  <2>3. NoLess
    BY <1>3, <2>1 DEF NoLess, Early
  <2>4. NoMore
    BY <1>2, <1>3, <2>1, SoundParts DEF NoMore
  <2> QED
    BY <1>3, <2>2, <2>3, <2>4, SoundNext
<1>5. ASSUME NEW S \in simplifyLearnt(O, C)
      PROVE  /\ S \in SUBSET L /\ ~Contradicts(S)
             /\ \A m \in Assignments : Satisfies(m, Database) => SatisfiesClause(m, S)
  <2>1. O \in SUBSET SUBSET Lits /\ facts \in SUBSET Lits /\ C \in SUBSET Lits
    BY <1>1, <1>2
  <2>2. /\ S \subseteq C
        /\ \A m \in Assignments :
             Satisfies(m, O) /\ MakesAll(m, facts) /\ SatisfiesClause(m, C) => SatisfiesClause(m, S)
    <3> HIDE DEF O, C
    <3> QED
      BY <2>1, ShorterFacts
  <2>3. S \in SUBSET L /\ ~Contradicts(S)
    <3> HIDE DEF O, C, L
    <3> QED
      BY <1>2, <2>2, SubsetContradicts
  <2> QED
    BY <1>2, <2>2, <2>3
<1>6. CASE \E S \in simplifyLearnt(O, C) : Decides(c, S)
  <2>1. PICK S \in simplifyLearnt(O, C) : Decides(c, S)
    BY <1>6
  <2> DEFINE new == Closure(O, facts \cup S)
  <2>2. S \in SUBSET L /\ \A m \in Assignments : Satisfies(m, Database) => SatisfiesClause(m, S)
    BY <1>5
  <2>3. /\ ~(Cardinality(S) > 1) /\ learnts' = R
        /\ \/ ~Contradicts(new) /\ facts' = new /\ ok' = ok
           \/ Contradicts(new) /\ ok' = FALSE /\ facts' = facts
    BY <2>1 DEF Decides, TrialNew
  <2>4. /\ new \in SUBSET L /\ facts \subseteq new
        /\ \A m \in Assignments :
             /\ MakesAll(m, new) => MakesAll(m, facts) /\ (S # {} => SatisfiesClause(m, S))
             /\ Satisfies(m, O) /\ MakesAll(m, facts) /\ SatisfiesClause(m, S)
                  => MakesAll(m, new) /\ ~Contradicts(new)
    <3> HIDE DEF O, L
    <3> QED
      BY <1>1, <1>2, <2>2, <2>3, NewFacts
  <2> HIDE DEF new, O, R, C, L
  <2>5. /\ facts' \in SUBSET L /\ ~Contradicts(facts') /\ ok' \in BOOLEAN
        /\ late' \in SUBSET facts' /\ Early \subseteq Early'
    BY <1>1, <1>3, <2>3, <2>4 DEF Early
  <2>6. DbOK'
    BY <1>1, <1>2, <1>3, <2>3, <2>5, DbNext DEF L
  <2>7. NoLess
    BY <1>3, <2>3, <2>4, <2>5 DEF NoLess, MakesAll
  <2>8. NoMore
    <3> SUFFICES ASSUME NEW m \in Assignments, Satisfies(m, Database)
                 PROVE  /\ ok' /\ Satisfies(m, AsSet(clauses')) /\ MakesLearnts(m, learnts')
                        /\ MakesAll(m, facts')
      BY DEF NoMore
    <3>1. Satisfies(m, AsSet(clauses)) /\ MakesLearnts(m, learnts)
      BY SoundParts
    <3>2. MakesAll(m, new) /\ ~Contradicts(new)
      BY <1>2, <2>2, <2>4
    <3> QED
      BY <1>2, <1>3, <2>3, <3>1, <3>2
  <2> QED
    BY <1>3, <2>6, <2>7, <2>8, SoundNext
<1>7. CASE \E S \in simplifyLearnt(O, C) : \E u \in {"core", "tier2"} : StoresIn(c, S, u)
  <2>1. PICK S \in simplifyLearnt(O, C), u \in {"core", "tier2"} : StoresIn(c, S, u)
    BY <1>7
  <2> DEFINE d == [lits |-> Sorted(S), simplified |-> TRUE]
  <2>2. S \in SUBSET L /\ ~Contradicts(S)
        /\ \A m \in Assignments : Satisfies(m, Database) => SatisfiesClause(m, S)
    BY <1>5
  <2>3. Cardinality(S) > 1 /\ learnts' = Added(R, u, d) /\ facts' = facts /\ ok' = ok
    BY <2>1 DEF StoresIn
  <2> HIDE DEF O, R, C, L
  <2>4. Sorted(S) \in ProperClauses(L) /\ ToSet(Sorted(S)) = S
    BY <1>1, <2>2, <2>3, SortedProper
  <2>5. d \in Learnts(L) /\ ToSet(d.lits) = S
    BY <2>4 DEF Learnts
  <2> HIDE DEF d
  <2>6. /\ Added(R, u, d) \in Tiered(L)
        /\ \A m : MakesLearnts(m, R) /\ SatisfiesClause(m, ToSet(d.lits))
                    => MakesLearnts(m, Added(R, u, d))
    BY <1>1, <1>2, <2>5, AddedFacts
  <2>7. DbOK'
    BY <1>1, <1>3, <2>3, <2>6, DbNext DEF L
  <2>8. NoLess
    BY <1>3, <2>3 DEF NoLess, Early
  <2>9. NoMore
    <3> SUFFICES ASSUME NEW m \in Assignments, Satisfies(m, Database)
                 PROVE  /\ ok' /\ Satisfies(m, AsSet(clauses')) /\ MakesLearnts(m, learnts')
                        /\ MakesAll(m, facts')
      BY DEF NoMore
    <3>1. Satisfies(m, AsSet(clauses)) /\ MakesLearnts(m, learnts) /\ MakesAll(m, facts)
      BY SoundParts
    <3>2. MakesLearnts(m, R) /\ SatisfiesClause(m, ToSet(d.lits))
      BY <1>2, <2>2, <2>5, <3>1
    <3> QED
      BY <1>3, <2>3, <2>6, <3>1, <3>2
  <2> QED
    BY <1>3, <2>7, <2>8, <2>9, SoundNext
<1> QED
  BY <1>4, <1>6, <1>7, SimplifyCases

-----------------------------------------------------------------------------
(* The calls of a user. *)

(* A step at which the user gives one more clause. *)
NoLessWith(c) ==
  \A m \in Assignments :
    ok' /\ Satisfies(m, AsSet(clauses')) /\ MakesAll(m, Early')
      => /\ ok /\ Satisfies(m, AsSet(clauses)) /\ MakesAll(m, Early)
         /\ SatisfiesClause(m, c)
NoMoreWith(c) ==
  \A m \in Assignments :
    ok /\ Satisfies(m, Database) /\ SatisfiesClause(m, c)
      => ok' /\ Satisfies(m, AsSet(clauses')) /\ MakesLearnts(m, learnts') /\ MakesAll(m, facts')

(* A step that adds the clause c to what the user gave, and changes what is
   known by as much, keeps it sound. *)
LEMMA SoundWith ==
  ASSUME Sound, DbOK', NEW c, given' = given \cup {c}, NoLessWith(c), NoMoreWith(c)
  PROVE  Sound'
<1> SUFFICES ASSUME NEW m \in Assignments
             PROVE  SoundFor(m)'
  BY DEF Sound
<1>1. SoundFor(m)
  BY DEF Sound
<1>2. Satisfies(m, given') <=> Satisfies(m, given) /\ SatisfiesClause(m, c)
  BY DEF Satisfies
<1>3. ok' /\ Satisfies(m, AsSet(clauses')) /\ MakesAll(m, Early') => Satisfies(m, given')
  BY <1>1, <1>2 DEF SoundFor, NoLessWith
<1>4. Satisfies(m, given') => ok' /\ Satisfies(m, Database')
  BY <1>1, <1>2, PartsNext DEF SoundFor, NoMoreWith
<1> QED
  BY <1>3, <1>4 DEF SoundFor

(* More variables in use. *)
LEMMA MoreUsed ==
  ASSUME nVars \in 0 .. NVars, nVars' \in 0 .. NVars, nVars <= nVars'
  PROVE  /\ UsedLits \subseteq UsedLits' /\ UsedLits' \in SUBSET Lits
         /\ Used \subseteq Used'
         /\ ProperClauses(UsedLits) \subseteq ProperClauses(UsedLits')
         /\ Learnts(UsedLits) \subseteq Learnts(UsedLits')
         /\ Seq(UsedLits) \subseteq Seq(UsedLits')
         /\ Tiered(UsedLits) \subseteq Tiered(UsedLits')
<1>1. UsedLits' \in SUBSET Lits
  BY DEF UsedLits
<1>2. UsedLits \subseteq UsedLits'
  <2> SUFFICES ASSUME NEW p \in UsedLits PROVE p \in UsedLits'
    OBVIOUS
  <2>1. p \in Lits /\ Var(p) < nVars
    BY DEF UsedLits
  <2>2. Var(p) \in Int
    BY <2>1, LitFacts DEF Vars
  <2>3. Var(p) < nVars'
    BY <2>1, <2>2
  <2> QED
    BY <2>1, <2>3 DEF UsedLits
<1>3. Used \subseteq Used'
  <2> DEFINE a == nVars
             b == nVars'
  <2>1. a \in Int /\ b \in Int /\ a <= b
    BY NVarsAssumption
  <2> HIDE DEF a, b
  <2>2. 0 .. a - 1 \subseteq 0 .. b - 1
    BY <2>1
  <2> QED
    BY <2>2 DEF Used, a, b
<1> DEFINE K == UsedLits
           L == UsedLits'
<1> HIDE DEF K, L
<1>4. K \subseteq L
  BY <1>2 DEF K, L
<1>5. /\ Seq(K) \subseteq Seq(L) /\ ProperClauses(K) \subseteq ProperClauses(L)
      /\ Learnts(K) \subseteq Learnts(L)
  BY <1>4, ProperMore
<1>6. Seq(Learnts(K)) \subseteq Seq(Learnts(L))
  BY <1>5, SeqMore
<1>7. Tiered(K) \subseteq Tiered(L)
  BY <1>6 DEF Tiered
<1> QED
  BY <1>1, <1>2, <1>3, <1>5, <1>7 DEF K, L

(* The calls of a user. *)
LEMMA CallFacts ==
  ASSUME script \in Seq(Calls), script # <<>>
  PROVE  /\ Tail(script) \in Seq(Calls)
         /\ Head(script).call = "add" => Head(script).lits \in Seq(Lits)
         /\ Head(script).call = "solve" => Head(script).assumps \in Seq(Lits)
<1>1. Tail(script) \in Seq(Calls) /\ Head(script) \in Calls
  OBVIOUS
<1> DEFINE x == Head(script)
<1>2. \/ x \in [call : {"add"}, lits : Seq(Lits)]
      \/ x \in [call : {"solve"}, assumps : Seq(Lits)]
  BY <1>1 DEF Calls
<1> HIDE DEF x
<1>3. CASE x \in [call : {"add"}, lits : Seq(Lits)]
  BY <1>1, <1>3 DEF x
<1>4. CASE x \in [call : {"solve"}, assumps : Seq(Lits)]
  BY <1>1, <1>4 DEF x
<1> QED
  BY <1>2, <1>3, <1>4

-----------------------------------------------------------------------------
(* What a clause of the user becomes. *)
LEMMA ShortenedFacts ==
  ASSUME NEW ps \in Seq(Lits), NEW L \in SUBSET Lits, ToSet(ps) \subseteq L, facts \in SUBSET Lits
  PROVE  LET c == Shortened(ps) S == ToSet(c) IN
           /\ c \in Seq(L) /\ S \subseteq ToSet(ps) /\ Distinct(c) /\ Len(c) = Cardinality(S)
           /\ S \in SUBSET L /\ Len(c) \in Nat /\ (c = <<>> <=> S = {})
           /\ \A m \in Assignments : SatisfiesClause(m, S) => SatisfiesClause(m, ToSet(ps))
           /\ \A m \in Assignments :
                MakesAll(m, facts) /\ SatisfiesClause(m, ToSet(ps)) => SatisfiesClause(m, S)
<1> DEFINE K == {p \in ToSet(ps) : Neg(p) \notin facts}
           c == Shortened(ps)
           S == ToSet(c)
<1>1. c = Sorted(K) /\ K \in SUBSET Lits
  <2>1. ToSet(ps) \subseteq Lits
    BY ToSetIn
  <2> QED
    BY <2>1 DEF Shortened
<1>2. c \in Seq(K) /\ S = K /\ Distinct(c)
  BY <1>1, SortedFacts
<1>3. Len(c) = Cardinality(S)
  BY <1>2, DistinctLength
<1>4. c \in Seq(L) /\ S \in SUBSET L
  <2>1. K \subseteq L
    OBVIOUS
  <2> HIDE DEF K, c
  <2> QED
    BY <1>2, <2>1, SeqMore
<1>5. Len(c) \in Nat /\ (c = <<>> <=> S = {})
  <2>1. c \in Seq(L)
    BY <1>4
  <2> HIDE DEF c, K
  <2>2. DOMAIN c = 1 .. Len(c) /\ Len(c) \in Nat
    BY <2>1
  <2>3. ASSUME c # <<>> PROVE S # {}
    <3>1. 1 \in DOMAIN c
      BY <2>1, <2>3
    <3> QED
      BY <3>1 DEF ToSet
  <2>4. ASSUME c = <<>> PROVE S = {}
    BY <2>4 DEF ToSet
  <2> QED
    BY <2>2, <2>3, <2>4
<1>6. ASSUME NEW m \in Assignments, MakesAll(m, facts), SatisfiesClause(m, ToSet(ps))
      PROVE  SatisfiesClause(m, S)
  <2>1. PICK p \in ToSet(ps) : Makes(m, p)
    BY <1>6 DEF SatisfiesClause
  <2>2. p \in Lits
    BY <2>1, ToSetIn
  <2>3. Neg(p) \notin facts
    BY <1>6, <2>1, <2>2, MakesNeg DEF MakesAll
  <2> QED
    BY <1>2, <2>1, <2>3 DEF SatisfiesClause
<1>7. \A m \in Assignments : SatisfiesClause(m, S) => SatisfiesClause(m, ToSet(ps))
  BY <1>2 DEF SatisfiesClause
<1> QED
  BY <1>2, <1>3, <1>4, <1>5, <1>6, <1>7

(* What a call may change. *)
LEMMA DbGrown ==
  ASSUME DbOK, script' \in Seq(Calls), given' \in SUBSET SUBSET Lits, nVars' \in 0 .. NVars,
         ok' \in BOOLEAN, clauses' \in Seq(ProperClauses(UsedLits')),
         learnts' \in Tiered(UsedLits'), facts' \in SUBSET UsedLits', ~Contradicts(facts'), late' \in SUBSET facts',
         assumptions' \in Seq(UsedLits')
  PROVE  DbOK'
BY DEF DbOK, Tiered

(* add, in cases. *)
Skips(ps) == (~ok \/ Redundant(ps)) /\ UNCHANGED <<ok, clauses, facts>>
Stores(ps) ==
  /\ ok /\ ~Redundant(ps) /\ Len(Shortened(ps)) > 1
  /\ clauses' = Append(clauses, Shortened(ps)) /\ UNCHANGED <<ok, facts>>
Fixes(ps) ==
  LET c == Shortened(ps) new == Closure(Database, facts \cup ToSet(c)) IN
    /\ ok /\ ~Redundant(ps) /\ ~(Len(c) > 1) /\ UNCHANGED clauses
    /\ ok' = (c # <<>> /\ ~Contradicts(new))
    /\ facts' = IF ok' THEN new ELSE facts

(* addClause_ does one of them. *)
LEMMA addClauseCases ==
  ASSUME NEW ps, addClause_(ps)
  PROVE  Skips(ps) \/ Stores(ps) \/ Fixes(ps)
BY DEF addClause_, Skips, Stores, Fixes

(* add keeps the clauses sound, though literals that are false and clauses
   that are true are not kept. *)
LEMMA addDb ==
  ASSUME DbOK, Sound, add, late = {}
  PROVE  DbOK' /\ Sound' /\ Used \subseteq Used' /\ UsedLits \subseteq UsedLits'
<1> DEFINE ps == Head(script).lits
           L == UsedLits'
           S == ToSet(ps)
           c == Shortened(ps)
           C == ToSet(c)
<1>1. /\ script # <<>> /\ Head(script).call = "add" /\ script' = Tail(script)
      /\ given' = given \cup {S} /\ nVars' = transLit(ps) /\ addClause_(ps)
      /\ UNCHANGED <<assumptions, learnts>> /\ late' = {} /\ Early = facts /\ Early' = facts'
  BY DEF add, Called, Call, Early
<1>2. ps \in Seq(Lits) /\ script' \in Seq(Calls)
  BY <1>1, CallFacts DEF DbOK
<1>3. nVars' \in 0 .. NVars /\ nVars <= nVars' /\ \A p \in S : Var(p) < nVars'
  BY <1>1, <1>2, TransLitFacts DEF DbOK
<1>4. /\ UsedLits \subseteq L /\ L \in SUBSET Lits /\ Used \subseteq Used'
      /\ Learnts(UsedLits) \subseteq Learnts(L) /\ ProperClauses(UsedLits) \subseteq ProperClauses(L)
      /\ Seq(UsedLits) \subseteq Seq(L) /\ Tiered(UsedLits) \subseteq Tiered(L)
  BY <1>3, MoreUsed DEF DbOK
<1>5. S \subseteq L
  <2>1. S \subseteq Lits
    BY <1>2, ToSetIn
  <2> QED
    BY <1>3, <2>1 DEF UsedLits
<1>6. /\ clauses \in Seq(ProperClauses(L)) /\ learnts' \in Tiered(L) /\ assumptions' \in Seq(L)
      /\ facts \in SUBSET L /\ ~Contradicts(facts) /\ facts \in SUBSET Lits /\ ok \in BOOLEAN
      /\ Database \in SUBSET SUBSET L
  <2>1. Seq(ProperClauses(UsedLits)) \subseteq Seq(ProperClauses(L))
    BY <1>4, SeqMore
  <2>2. Database \in SUBSET SUBSET UsedLits
    BY SoundParts
  <2>3. Database \in SUBSET SUBSET L
    BY <1>4, <2>2
  <2>4. /\ clauses \in Seq(ProperClauses(UsedLits)) /\ learnts \in Tiered(UsedLits)
        /\ facts \in SUBSET UsedLits /\ ~Contradicts(facts) /\ assumptions \in Seq(UsedLits)
        /\ ok \in BOOLEAN
    BY DEF DbOK, Tiered
  <2>5. clauses \in Seq(ProperClauses(L)) /\ learnts \in Tiered(L) /\ assumptions \in Seq(L)
    BY <1>4, <2>1, <2>4
  <2> QED
    BY <1>1, <1>4, <2>3, <2>4, <2>5
<1>7. given' \in SUBSET SUBSET Lits
  BY <1>1, <1>4, <1>5 DEF DbOK
<1>8. /\ c \in Seq(L) /\ C \subseteq S /\ Distinct(c) /\ Len(c) = Cardinality(C)
      /\ C \in SUBSET L /\ Len(c) \in Nat /\ (c = <<>> <=> C = {})
      /\ \A m \in Assignments : SatisfiesClause(m, C) => SatisfiesClause(m, S)
      /\ \A m \in Assignments :
           MakesAll(m, facts) /\ SatisfiesClause(m, S) => SatisfiesClause(m, C)
  BY <1>2, <1>4, <1>5, <1>6, ShortenedFacts
<1> HIDE DEF L, S, C, c
<1>9. CASE Skips(ps)
  <2>1. (~ok \/ Redundant(ps)) /\ UNCHANGED <<ok, clauses, facts>>
    BY <1>9 DEF Skips
  <2>2. DbOK'
    BY <1>1, <1>2, <1>3, <1>6, <1>7, <2>1, DbGrown DEF L
  <2>3. ASSUME NEW m \in Assignments, ok, MakesAll(m, facts) PROVE SatisfiesClause(m, S)
    <3>1. CASE Contradicts(S)
      <4>1. PICK p \in S : Neg(p) \in S
        BY <3>1 DEF Contradicts
      <4>2. p \in Lits
        BY <1>4, <1>5, <4>1
      <4> QED
        BY <4>1, <4>2, MakesNeg DEF SatisfiesClause
    <3>2. CASE S \cap facts # {}
      BY <2>3, <3>2 DEF MakesAll, SatisfiesClause
    <3> QED
      BY <2>1, <2>3, <3>1, <3>2 DEF Redundant, S
  <2>4. NoLessWith(S)
    BY <1>1, <2>1, <2>3 DEF NoLessWith
  <2>5. NoMoreWith(S)
    BY <1>1, <2>1, SoundParts DEF NoMoreWith
  <2> QED
    BY <1>1, <1>4, <2>2, <2>4, <2>5, SoundWith DEF L
<1>10. CASE Stores(ps)
  <2>1. /\ ok /\ ~Redundant(ps) /\ Len(c) > 1
        /\ clauses' = Append(clauses, c) /\ UNCHANGED <<ok, facts>>
    BY <1>10 DEF Stores, c
  <2>2. ~Contradicts(C)
    <3>1. ~Contradicts(S)
      BY <2>1 DEF Redundant, S
    <3> QED
      BY <1>8, <3>1, SubsetContradicts
  <2>3. c \in ProperClauses(L)
    BY <1>8, <2>1, <2>2 DEF ProperClauses, C
  <2>4. clauses' \in Seq(ProperClauses(L)) /\ ToSet(clauses') = ToSet(clauses) \cup {c}
    <3> DEFINE d == <<c>>
    <3>1. d \in Seq(ProperClauses(L)) /\ DOMAIN d = {1} /\ d[1] = c
      BY <2>3
    <3>2. clauses' = clauses \o d
      BY <1>6, <2>1
    <3> HIDE DEF d
    <3>3. ToSet(d) = {c}
      BY <3>1 DEF ToSet
    <3>4. clauses \o d \in Seq(ProperClauses(L)) /\ ToSet(clauses \o d) = ToSet(clauses) \cup ToSet(d)
      BY <1>6, <3>1, JoinedFacts
    <3> QED
      BY <3>2, <3>3, <3>4
  <2>5. AsSet(clauses') = AsSet(clauses) \cup {C}
    <3>1. AsSet(clauses') = {ToSet(x) : x \in ToSet(clauses')}
          /\ AsSet(clauses) = {ToSet(x) : x \in ToSet(clauses)}
      BY AsSetFacts
    <3> QED
      BY <2>4, <3>1 DEF C
  <2>6. \A m : Satisfies(m, AsSet(clauses')) <=> Satisfies(m, AsSet(clauses)) /\ SatisfiesClause(m, C)
    BY <2>5 DEF Satisfies
  <2>7. DbOK'
    BY <1>1, <1>2, <1>3, <1>6, <1>7, <2>1, <2>4, DbGrown DEF L
  <2>8. NoLessWith(S)
    BY <1>1, <1>8, <2>1, <2>6 DEF NoLessWith
  <2>9. NoMoreWith(S)
    BY <1>1, <1>8, <2>1, <2>6, SoundParts DEF NoMoreWith
  <2> QED
    BY <1>1, <1>4, <2>7, <2>8, <2>9, SoundWith DEF L
<1>11. CASE Fixes(ps)
  <2> DEFINE new == Closure(Database, facts \cup C)
  <2>1. /\ ok /\ ~Redundant(ps) /\ ~(Len(c) > 1) /\ UNCHANGED clauses
        /\ ok' = (c # <<>> /\ ~Contradicts(new))
        /\ facts' = IF ok' THEN new ELSE facts
    BY <1>11 DEF Fixes, c, C
  <2>2. ~(Cardinality(C) > 1)
    BY <1>8, <2>1
  <2>3. /\ new \in SUBSET L
        /\ \A m \in Assignments :
             /\ MakesAll(m, new) => MakesAll(m, facts) /\ (C # {} => SatisfiesClause(m, C))
             /\ Satisfies(m, Database) /\ MakesAll(m, facts) /\ SatisfiesClause(m, C)
                  => MakesAll(m, new) /\ ~Contradicts(new)
    BY <1>4, <1>6, <1>8, <2>2, NewFacts
  <2> HIDE DEF new
  <2>4. facts' \in SUBSET L /\ ~Contradicts(facts') /\ ok' \in BOOLEAN
    BY <1>6, <2>1, <2>3
  <2>5. DbOK'
    BY <1>1, <1>2, <1>3, <1>6, <1>7, <2>1, <2>4, DbGrown DEF L
  <2>6. NoLessWith(S)
    BY <1>1, <1>8, <2>1, <2>3 DEF NoLessWith
  <2>7. NoMoreWith(S)
    <3> SUFFICES ASSUME NEW m \in Assignments, Satisfies(m, Database), SatisfiesClause(m, S)
                 PROVE  /\ ok' /\ Satisfies(m, AsSet(clauses')) /\ MakesLearnts(m, learnts')
                        /\ MakesAll(m, facts')
      BY DEF NoMoreWith
    <3>1. Satisfies(m, AsSet(clauses)) /\ MakesLearnts(m, learnts) /\ MakesAll(m, facts)
      BY SoundParts
    <3>2. SatisfiesClause(m, C)
      BY <1>8, <3>1
    <3>3. C # {}
      BY <3>2 DEF SatisfiesClause
    <3> QED
      BY <1>1, <1>8, <2>1, <2>3, <3>1, <3>2, <3>3
  <2> QED
    BY <1>1, <1>4, <2>5, <2>6, <2>7, SoundWith DEF L
<1> QED
  BY <1>1, <1>9, <1>10, <1>11, addClauseCases

(* solve takes the assumptions of the call, and forgets those of the last. *)
LEMMA solveDb ==
  ASSUME DbOK, Sound, solve
  PROVE  DbOK' /\ Sound' /\ Used \subseteq Used' /\ UsedLits \subseteq UsedLits'
<1> DEFINE ps == Head(script).assumps
           L == UsedLits'
           S == ToSet(ps)
<1>1. /\ script # <<>> /\ Head(script).call = "solve" /\ script' = Tail(script)
      /\ assumptions' = ps /\ nVars' = transLit(ps)
      /\ UNCHANGED <<given, ok, clauses, facts, late, learnts>>
  BY DEF solve, Called, Call
<1>2. ps \in Seq(Lits) /\ script' \in Seq(Calls)
  BY <1>1, CallFacts DEF DbOK
<1>3. nVars' \in 0 .. NVars /\ nVars <= nVars' /\ \A p \in S : Var(p) < nVars'
  BY <1>1, <1>2, TransLitFacts DEF DbOK
<1>4. /\ UsedLits \subseteq L /\ L \in SUBSET Lits /\ Used \subseteq Used'
      /\ ProperClauses(UsedLits) \subseteq ProperClauses(L) /\ Tiered(UsedLits) \subseteq Tiered(L)
  BY <1>3, MoreUsed DEF DbOK
<1>5. S \subseteq L
  <2>1. S \subseteq Lits
    BY <1>2, ToSetIn
  <2> QED
    BY <1>3, <2>1 DEF UsedLits
<1>6. assumptions' \in Seq(L)
  <2>1. Len(ps) \in Nat /\ DOMAIN ps = 1 .. Len(ps) /\ \A k \in DOMAIN ps : ps[k] \in S
    BY <1>2 DEF ToSet
  <2>2. \A k \in 1 .. Len(ps) : ps[k] \in L
    BY <1>5, <2>1
  <2> HIDE DEF L
  <2> QED
    BY <1>1, <1>2, <2>1, <2>2
<1>7. clauses' \in Seq(ProperClauses(L)) /\ learnts' \in Tiered(L) /\ facts' \in SUBSET L
      /\ ~Contradicts(facts') /\ ok' \in BOOLEAN /\ given' \in SUBSET SUBSET Lits
      /\ late' \in SUBSET facts'
  <2>1. Seq(ProperClauses(UsedLits)) \subseteq Seq(ProperClauses(L))
    BY <1>4, SeqMore
  <2> QED
    BY <1>1, <1>4, <2>1 DEF DbOK, Tiered
<1>8. DbOK'
  BY <1>2, <1>3, <1>6, <1>7, DbGrown
<1>9. NoLess
  BY <1>1 DEF NoLess, Early
<1>10. NoMore
  BY <1>1, SoundParts DEF NoMore
<1> QED
  BY <1>1, <1>4, <1>8, <1>9, <1>10, SoundNext

(* A conflict without assumptions is for ever. *)
LEMMA ConflictDb ==
  ASSUME DbOK, Sound, FindConflict
  PROVE  DbOK' /\ Sound'
<1>1. UNCHANGED <<script, given, nVars, clauses, facts, assumptions, learnts>> /\ late' = {}
  BY DEF FindConflict
<1>2. \/ Models(Database) # {} /\ UNCHANGED ok
      \/ Models(Database) = {} /\ ok' \in {ok, FALSE}
  BY DEF FindConflict
<1>3. /\ ok' \in BOOLEAN /\ clauses \in Seq(ProperClauses(UsedLits)) /\ learnts \in Tiered(UsedLits)
      /\ facts \in SUBSET UsedLits /\ ~Contradicts(facts)
  BY <1>2 DEF DbOK, Tiered
<1>4. DbOK'
  BY <1>1, <1>3, DbNext
<1>5. NoLess
  BY <1>1, <1>2 DEF NoLess, DbOK, Early, MakesAll
<1>6. NoMore
  <2>1. ASSUME NEW m \in Assignments, Satisfies(m, Database) PROVE ok' = ok
    <3>1. Models(Database) # {}
      BY <2>1 DEF Models
    <3> QED
      BY <1>2, <3>1
  <2> QED
    BY <1>1, <2>1, SoundParts DEF NoMore
<1> QED
  BY <1>1, <1>4, <1>5, <1>6, SoundNext

-----------------------------------------------------------------------------
(* The instance of the local search. *)

(* The clauses a local search can be given. *)
ClausesFor(V) ==
  {c \in Seq(Lits) : /\ c # <<>>
                     /\ \A i \in DOMAIN c : Var(c[i]) \in V
                     /\ \A i, j \in DOMAIN c : Var(c[i]) = Var(c[j]) => i = j}

(* Such clauses are an instance the local search can be given. *)
LEMMA ProblemIs ==
  ASSUME NEW V \in SUBSET Vars, NEW cs \in Seq(ClausesFor(V))
  PROVE  Problem(cs, V)
<1>1. DOMAIN cs = 1 .. Len(cs) /\ Len(cs) \in Nat /\ \A k \in DOMAIN cs : cs[k] \in ClausesFor(V)
  BY ToSetIn
<1>2. ClausesFor(V) \subseteq Seq(Lits)
  BY DEF ClausesFor
<1>3. cs \in Seq(Seq(Lits))
  BY <1>2, SeqMore
<1>4. ASSUME NEW c \in DOMAIN cs
      PROVE  /\ cs[c] # <<>>
             /\ \A i \in DOMAIN cs[c] : Var(cs[c][i]) \in V
             /\ \A i, j \in DOMAIN cs[c] : Var(cs[c][i]) = Var(cs[c][j]) => i = j
  <2>1. cs[c] \in ClausesFor(V)
    BY <1>1
  <2> DEFINE d == cs[c]
  <2> HIDE DEF d
  <2>2. /\ d # <<>>
        /\ \A i \in DOMAIN d : Var(d[i]) \in V
        /\ \A i, j \in DOMAIN d : Var(d[i]) = Var(d[j]) => i = j
    BY <2>1 DEF ClausesFor, d
  <2> QED
    BY <2>2 DEF d
<1> QED
  BY <1>3, <1>4 DEF Problem

(* Clauses of two literals or more are among them, *)
LEMMA ProperFor ==
  ASSUME nVars \in 0 .. NVars
  PROVE  ProperClauses(UsedLits) \subseteq ClausesFor(Used)
<1> SUFFICES ASSUME NEW c \in ProperClauses(UsedLits)
             PROVE  c \in ClausesFor(Used)
  OBVIOUS
<1>1. c \in Seq(UsedLits) /\ Distinct(c) /\ ~Contradicts(ToSet(c)) /\ Len(c) > 1
  BY DEF ProperClauses
<1>2. UsedLits \in SUBSET Lits /\ \A p \in UsedLits : Var(p) \in Used
  BY UsedFacts
<1>3. \A i \in DOMAIN c : c[i] \in UsedLits /\ c[i] \in ToSet(c)
  BY <1>1, ToSetIn DEF ToSet
<1>4. c \in Seq(Lits) /\ c # <<>>
  <2>1. c \in Seq(Lits)
    BY <1>1, <1>2, SeqMore
  <2>2. c # <<>>
    BY <1>1
  <2> QED
    BY <2>1, <2>2
<1>5. ASSUME NEW i \in DOMAIN c, NEW j \in DOMAIN c, Var(c[i]) = Var(c[j]) PROVE i = j
  <2>1. c[j] = c[i] \/ c[j] = Neg(c[i])
    BY <1>2, <1>3, <1>5, SameVar
  <2>2. c[j] # Neg(c[i])
    BY <1>1, <1>3 DEF Contradicts
  <2> QED
    BY <1>1, <2>1, <2>2 DEF Distinct
<1>6. \A i \in DOMAIN c : Var(c[i]) \in Used
  BY <1>2, <1>3
<1> QED
  BY <1>4, <1>5, <1>6 DEF ClausesFor

(* and so are those of one literal. *)
LEMMA UnitsFacts ==
  ASSUME nVars \in 0 .. NVars, NEW ps \in Seq(UsedLits)
  PROVE  /\ Units(ps) \in Seq(ClausesFor(Used)) /\ Len(Units(ps)) = Len(ps)
         /\ ToSet(Units(ps)) = {<<p>> : p \in ToSet(ps)}
<1>1. DOMAIN ps = 1 .. Len(ps) /\ Len(ps) \in Nat /\ \A k \in DOMAIN ps : ps[k] \in UsedLits
  BY ToSetIn
<1>2. \A p \in UsedLits : p \in Lits /\ Var(p) \in Used
  BY UsedFacts
<1>3. ASSUME NEW p \in UsedLits PROVE <<p>> \in ClausesFor(Used)
  <2> DEFINE d == <<p>>
  <2>1. d \in Seq(Lits) /\ d # <<>> /\ DOMAIN d = {1} /\ d[1] = p
    BY <1>2
  <2> HIDE DEF d
  <2>2. d \in ClausesFor(Used)
    BY <1>2, <2>1 DEF ClausesFor
  <2> QED
    BY <2>2 DEF d
<1>4. Units(ps) \in Seq(ClausesFor(Used)) /\ Len(Units(ps)) = Len(ps)
  <2>1. \A k \in 1 .. Len(ps) : <<ps[k]>> \in ClausesFor(Used)
    BY <1>1, <1>3
  <2>2. Units(ps) = [k \in 1 .. Len(ps) |-> <<ps[k]>>]
    BY <1>1 DEF Units
  <2> QED
    BY <1>1, <2>1, <2>2
<1>5. ToSet(Units(ps)) = {<<p>> : p \in ToSet(ps)}
  BY DEF ToSet, Units
<1> QED
  BY <1>4, <1>5

-----------------------------------------------------------------------------
(* The instance: a problem whose solutions make all that was given true. *)
LEMMA InstanceFacts ==
  ASSUME DbOK
  PROVE  /\ Problem(Instance, Used)
         /\ ToSet(Instance) = ToSet(clauses) \cup ToSet(KeptLits)
                                \cup {<<p>> : p \in Early} \cup {<<p>> : p \in ToSet(assumptions)}
<1> DEFINE C == ClausesFor(Used)
           F == Units(Sorted(Early))
           A == Units(assumptions)
<1>1. nVars \in 0 .. NVars /\ UsedLits \in SUBSET Lits /\ Used \in SUBSET Vars
      /\ Early \in SUBSET UsedLits /\ clauses \in Seq(ProperClauses(UsedLits))
      /\ learnts \in Tiered(UsedLits) /\ assumptions \in Seq(UsedLits)
  BY UsedFacts DEF DbOK, Tiered, Early
<1>2. KeptLits \in Seq(ProperClauses(UsedLits))
  <2>1. LitsOf(KeptOf(learnts)) \in Seq(ProperClauses(UsedLits))
    BY <1>1, KeptFacts
  <2> QED
    BY <2>1 DEF KeptLits, Kept, LitsOf, KeptOf
<1>3. clauses \in Seq(C) /\ KeptLits \in Seq(C)
  <2>1. ProperClauses(UsedLits) \subseteq C
    BY <1>1, ProperFor
  <2> HIDE DEF C
  <2>2. Seq(ProperClauses(UsedLits)) \subseteq Seq(C)
    BY <2>1, SeqMore
  <2> QED
    BY <1>1, <1>2, <2>2
<1>4. Sorted(Early) \in Seq(UsedLits) /\ ToSet(Sorted(Early)) = Early
  <2>1. Early \in SUBSET Lits
    BY <1>1
  <2>2. Sorted(Early) \in Seq(Early) /\ ToSet(Sorted(Early)) = Early
    BY <2>1, SortedFacts
  <2> QED
    BY <1>1, <2>2, SeqMore
<1>5. F \in Seq(C) /\ ToSet(F) = {<<p>> : p \in Early}
  BY <1>1, <1>4, UnitsFacts
<1>6. A \in Seq(C) /\ ToSet(A) = {<<p>> : p \in ToSet(assumptions)}
  BY <1>1, UnitsFacts
<1>7. Instance = ((clauses \o KeptLits) \o F) \o A
  BY DEF Instance
<1> HIDE DEF C, F, A
<1>8. clauses \o KeptLits \in Seq(C)
      /\ ToSet(clauses \o KeptLits) = ToSet(clauses) \cup ToSet(KeptLits)
  BY <1>3, JoinedFacts
<1> DEFINE X == clauses \o KeptLits
<1> HIDE DEF X
<1>9. X \o F \in Seq(C) /\ ToSet(X \o F) = ToSet(X) \cup ToSet(F)
  <2>1. X \in Seq(C)
    BY <1>8 DEF X
  <2> QED
    BY <1>5, <2>1, JoinedFacts
<1> DEFINE Y == X \o F
<1> HIDE DEF Y
<1>10. Y \o A \in Seq(C) /\ ToSet(Y \o A) = ToSet(Y) \cup ToSet(A)
  <2>1. Y \in Seq(C)
    BY <1>9 DEF Y
  <2> QED
    BY <1>6, <2>1, JoinedFacts
<1>11. Instance = Y \o A
  BY <1>7 DEF X, Y
<1>12. Problem(Instance, Used)
  BY <1>1, <1>10, <1>11, ProblemIs DEF C
<1> QED
  BY <1>5, <1>6, <1>8, <1>9, <1>10, <1>11, <1>12 DEF X, Y

(* A solution of the instance that call_ls builds makes true what the user
   gave, and the assumptions. *)
LEMMA InstanceSays ==
  ASSUME DbOK, Sound, ok, NEW m \in Assignments,
         \A c \in ToSet(Instance) : SatisfiesClause(m, ToSet(c))
  PROVE  Satisfies(m, given) /\ MakesAll(m, ToSet(assumptions))
<1>1. ToSet(Instance) = ToSet(clauses) \cup ToSet(KeptLits)
                          \cup {<<p>> : p \in Early} \cup {<<p>> : p \in ToSet(assumptions)}
  BY InstanceFacts
<1>2. Satisfies(m, AsSet(clauses))
  BY <1>1, AsSetFacts DEF Satisfies
<1>3. \A p : SatisfiesClause(m, ToSet(<<p>>)) => Makes(m, p)
  <2> TAKE p
  <2> DEFINE d == <<p>>
  <2>1. DOMAIN d = {1} /\ d[1] = p
    OBVIOUS
  <2> HIDE DEF d
  <2>2. ToSet(d) = {p}
    BY <2>1 DEF ToSet
  <2>3. SatisfiesClause(m, ToSet(d)) => Makes(m, p)
    BY <2>2 DEF SatisfiesClause
  <2> QED
    BY <2>3 DEF d
<1>4. MakesAll(m, Early)
  BY <1>1, <1>3 DEF MakesAll
<1>5. MakesAll(m, ToSet(assumptions))
  BY <1>1, <1>3 DEF MakesAll
<1> QED
  BY <1>2, <1>4, <1>5 DEF Sound, SoundFor

-----------------------------------------------------------------------------
(* The trail and the view. *)

(* A step outside the local search. *)
LEMMA LocalElse ==
  ASSUME LocalOK, pc # "local", pc' \notin {"build", "local"}, UNCHANGED lsVars
  PROVE  LocalOK'
<1>1. LocalInv'
  BY SameLocal DEF LocalOK
<1>2. ~Searching /\ ls_mode' = ls_mode
  BY DEF LocalOK, lsVars
<1>3. ~Searching'
  BY <1>2 DEF Searching
<1> QED
  BY <1>1, <1>3 DEF LocalOK

-----------------------------------------------------------------------------
(* What is on the trail, and what a view can become. *)
LEMMA TrailFacts ==
  ASSUME DbOK, NEW t \in Trails
  PROVE  t \in SUBSET UsedLits /\ Cardinality(t) \in Nat
<1> DEFINE Decided == {ToSet(as) : as \in Prefixes(assumptions)}
                        \cup {ToSet(assumptions) \cup S : S \in SUBSET UsedLits}
<1>1. PICK S \in Decided : t = Closure(Database, facts \cup S)
  BY DEF Trails
<1>2. assumptions \in Seq(UsedLits) /\ facts \in SUBSET UsedLits
  BY DEF DbOK
<1>3. ASSUME NEW as \in Prefixes(assumptions) PROVE ToSet(as) \in SUBSET UsedLits
  <2>1. PICK n \in 0 .. Len(assumptions) : as = SubSeq(assumptions, 1, n)
    BY DEF Prefixes
  <2>2. n \in Nat /\ n <= Len(assumptions) /\ DOMAIN assumptions = 1 .. Len(assumptions)
    BY <1>2
  <2>3. as \in Seq(UsedLits)
    BY <1>2, <2>1, <2>2
  <2> QED
    BY <2>3, ToSetIn
<1>4. S \in SUBSET UsedLits
  <2>1. ToSet(assumptions) \in SUBSET UsedLits
    BY <1>2, ToSetIn
  <2> QED
    BY <1>1, <1>3, <2>1
<1>5. Database \in SUBSET SUBSET UsedLits /\ UsedLits \in SUBSET Lits
  BY SoundParts
<1> DEFINE T == facts \cup S
<1>6. T \in SUBSET UsedLits /\ T \in SUBSET Lits /\ Database \in SUBSET SUBSET Lits
  BY <1>2, <1>4, <1>5
<1>7. Closure(Database, T) \subseteq T \cup UNION Database
  <2> HIDE DEF T
  <2> QED
    BY <1>6, ClosureFacts
<1>8. t \in SUBSET UsedLits
  BY <1>1, <1>5, <1>6, <1>7
<1> QED
  BY <1>5, <1>8, LitsFinite, FS_CardinalityType

(* A view is extended by literals in use, *)
LEMMA ExtendIn ==
  ASSUME NEW view \in Seq(UsedLits), NEW p \in UsedLits
  PROVE  Extend(view, p) \in Seq(UsedLits)
BY DEF Extend

(* also by those that a clause implies. *)
LEMMA ImplyIn ==
  ASSUME NEW view \in Seq(UsedLits), NEW c \in Seq(UsedLits)
  PROVE  Imply(view, c) \in Seq(UsedLits)
<1> DEFINE O == Open(view, c)
<1>1. O \subseteq UsedLits
  BY ToSetIn DEF Open
<1> HIDE DEF O
<1>2. CASE Cardinality(O) = 1
  <2> DEFINE q == CHOOSE x \in O : TRUE
  <2>1. O # {}
    <3>1. Cardinality({}) = 0
      BY FS_EmptySet
    <3>2. O = {} => Cardinality(O) = 0
      BY <3>1
    <3> QED
      BY <1>2, <3>2
  <2>2. q \in UsedLits
    BY <1>1, <2>1
  <2>3. Imply(view, c) = Extend(view, q)
    BY <1>2 DEF Imply, O
  <2> HIDE DEF q
  <2> QED
    BY <2>2, <2>3, ExtendIn
<1>3. CASE Cardinality(O) # 1
  BY <1>3 DEF Imply, O
<1> QED
  BY <1>2, <1>3

(* The binary clauses about a literal. *)
LEMMA ExtendAllIn ==
  ASSUME NEW view \in Seq(UsedLits), NEW n \in Nat, NEW seq, DOMAIN seq = 1 .. n,
         \A k \in 1 .. n : seq[k] \in UsedLits
  PROVE  ExtendAll(view, seq) \in Seq(UsedLits)
<1> DEFINE Q == Seq(UsedLits)
<1>1. \A k \in 1 .. n : \A x \in Q : ExtendOp(seq, x, k) \in Q
  BY ExtendIn DEF ExtendOp
<1> HIDE DEF Q
<1>2. Extends!Keeps(seq, n, Q)
  BY <1>1 DEF Extends!Keeps
<1>3. view \in Q
  BY DEF Q
<1>4. ExtendAll(view, seq) \in Q
  BY <1>2, <1>3, ExtendKeeps
<1> QED
  BY <1>4 DEF Q

(* The longer clauses that are visited. *)
LEMMA ImplyAllIn ==
  ASSUME NEW view \in Seq(UsedLits), NEW cs \in Seq(Seq(UsedLits))
  PROVE  ImplyAll(view, cs) \in Seq(UsedLits)
<1> DEFINE Q == Seq(UsedLits)
           n == Len(cs)
<1>1. n \in Nat /\ DOMAIN cs = 1 .. n /\ \A k \in 1 .. n : cs[k] \in Q
  OBVIOUS
<1>2. \A k \in 1 .. n : \A x \in Q : ImplyOp(cs, x, k) \in Q
  BY <1>1, ImplyIn DEF ImplyOp
<1>3. view \in Q
  OBVIOUS
<1> HIDE DEF Q, n
<1>4. Implies!Keeps(cs, n, Q)
  BY <1>2 DEF Implies!Keeps
<1>5. ImplyAll(view, cs) \in Q
  BY <1>1, <1>3, <1>4, ImplyKeeps
<1> QED
  BY <1>5 DEF Q

(* A binary clause has another literal. *)
LEMMA OtherLit ==
  ASSUME NEW c \in ProperClauses(UsedLits), NEW p
  PROVE  (CHOOSE q \in ToSet(c) : q # p) \in UsedLits
<1>1. c \in Seq(UsedLits) /\ Distinct(c) /\ Len(c) > 1
  BY DEF ProperClauses
<1>2. 1 \in DOMAIN c /\ 2 \in DOMAIN c
  BY <1>1
<1>3. c[1] # c[2]
  BY <1>1, <1>2 DEF Distinct
<1>4. c[1] \in ToSet(c) /\ c[2] \in ToSet(c)
  BY <1>2 DEF ToSet
<1>5. \E q \in ToSet(c) : q # p
  BY <1>3, <1>4
<1>6. ToSet(c) \subseteq UsedLits
  BY <1>1, ToSetIn
<1> QED
  BY <1>5, <1>6

(* So a visit leaves a view of literals in use. *)
LEMMA VisitView ==
  ASSUME DbOK, viewList \in Seq(UsedLits), Visit
  PROVE  viewList' \in Seq(UsedLits)
<1> DEFINE false == Neg(viewList[idx + 1])
           attached == clauses \o KeptLits
           about == {c \in ToSet(attached) : false \in ToSet(c)}
           binary == Selected(attached, {c \in about : Len(c) = 2})
           long == Selected(attached, {c \in about : Len(c) > 2})
           others == [k \in DOMAIN binary |-> CHOOSE q \in ToSet(binary[k]) : q # false]
           P == ProperClauses(UsedLits)
<1>1. PICK watched \in SUBSET ToSet(long) :
         viewList' = ImplyAll(ExtendAll(viewList, others), Selected(long, watched))
  BY DEF Visit, ImplyAll, ExtendAll
<1>2. attached \in Seq(P)
  <2>1. UsedLits \in SUBSET Lits /\ learnts \in Tiered(UsedLits)
    BY SoundParts DEF DbOK, Tiered
  <2>2. LitsOf(KeptOf(learnts)) \in Seq(P)
    BY <2>1, KeptFacts
  <2>3. KeptLits \in Seq(P) /\ clauses \in Seq(P)
    BY <2>2 DEF KeptLits, Kept, LitsOf, KeptOf, DbOK
  <2> HIDE DEF P
  <2> QED
    BY <2>3, JoinedFacts
<1> HIDE DEF attached, P
<1>3. binary \in Seq(P)
  BY <1>2, SelectedIn
<1>4. Selected(long, watched) \in Seq(P)
  <2>1. long \in Seq(P)
    BY <1>2, SelectedIn
  <2> HIDE DEF long
  <2> QED
    BY <2>1, SelectedIn
<1> HIDE DEF binary, long, false
<1> DEFINE n == Len(binary)
           L == Selected(long, watched)
<1>5. n \in Nat /\ DOMAIN binary = 1 .. n /\ \A k \in 1 .. n : binary[k] \in P
  BY <1>3
<1>6. DOMAIN others = 1 .. n /\ \A k \in 1 .. n : others[k] \in UsedLits
  <2>1. DOMAIN others = 1 .. n
    BY <1>5
  <2>2. ASSUME NEW k \in 1 .. n PROVE others[k] \in UsedLits
    <3>1. others[k] = CHOOSE q \in ToSet(binary[k]) : q # false
      BY <1>5
    <3>2. binary[k] \in ProperClauses(UsedLits)
      BY <1>5 DEF P
    <3> DEFINE c == binary[k]
    <3> HIDE DEF c
    <3>3. (CHOOSE q \in ToSet(c) : q # false) \in UsedLits
      BY <3>2, OtherLit DEF c
    <3> QED
      BY <3>1, <3>3 DEF c
  <2> QED
    BY <2>1, <2>2
<1> HIDE DEF others, n
<1> DEFINE w == ExtendAll(viewList, others)
<1>7. w \in Seq(UsedLits)
  BY <1>5, <1>6, ExtendAllIn
<1>8. L \in Seq(Seq(UsedLits))
  <2>1. P \subseteq Seq(UsedLits)
    BY DEF P, ProperClauses
  <2> HIDE DEF L
  <2> QED
    BY <1>4, <2>1, SeqMore DEF L
<1> HIDE DEF w, L
<1>9. ImplyAll(w, L) \in Seq(UsedLits)
  BY <1>7, <1>8, ImplyAllIn
<1> QED
  BY <1>1, <1>9 DEF w, L

-----------------------------------------------------------------------------
(* The invariant, step by step. *)

(* INT_MAX is a natural. *)
LEMMA IntMaxNat == IntMax \in Nat
BY SMT DEF IntMax

(* The invariant holds at first. *)
LEMMA InitInv ==
  ASSUME Init
  PROVE  IInv
<1>1. DbOK
  <2>1. nVars \in 0 .. NVars /\ script \in Seq(Calls)
    BY NVarsAssumption, ScriptsAssumption DEF Init
  <2>2. learnts \in [{"core", "tier2"} -> Seq(Learnts(UsedLits))]
    <3> DEFINE Q == Seq(Learnts(UsedLits))
    <3>1. learnts = [core |-> <<>>, tier2 |-> <<>>] /\ <<>> \in Q
      BY DEF Init
    <3> HIDE DEF Q
    <3>2. learnts \in [{"core", "tier2"} -> Q]
      BY <3>1
    <3> QED
      BY <3>2 DEF Q
  <2>3. clauses \in Seq(ProperClauses(UsedLits)) /\ assumptions \in Seq(UsedLits)
    BY DEF Init
  <2>4. late \in SUBSET facts /\ facts \in SUBSET UsedLits /\ ~Contradicts(facts) /\ given \in SUBSET SUBSET Lits /\ ok \in BOOLEAN
    BY DEF Init, Contradicts
  <2> QED
    BY <2>1, <2>2, <2>3, <2>4 DEF DbOK
<1>2. Sound
  <2> SUFFICES ASSUME NEW m \in Assignments PROVE SoundFor(m)
    BY DEF Sound
  <2>1. given = {} /\ ok /\ clauses = <<>> /\ facts = {}
        /\ learnts.core = <<>> /\ learnts.tier2 = <<>>
    BY DEF Init
  <2>2. ToSet(<<>>) = {}
    BY DEF ToSet
  <2>3. AsSet(clauses) = {}
    BY <2>1 DEF AsSet
  <2>4. MakesLearnts(m, learnts)
    BY <2>1, <2>2 DEF MakesLearnts
  <2>5. Satisfies(m, Database)
    BY <1>1, <2>1, <2>3, <2>4, SoundParts DEF Satisfies, MakesAll
  <2> QED
    BY <2>1, <2>5 DEF SoundFor, Satisfies
<1>3. RestartsOK /\ BuildOK /\ ControlOK
  <2>1. RestartsOK
    <3>1. starts \in Nat /\ freeze_ls_restart_num \in Int
      BY DEF Init
    <3>2. mediation_used \in BOOLEAN /\ can_call_ls \in BOOLEAN
      BY DEF Init
    <3> QED
      BY <3>1, <3>2 DEF RestartsOK
  <2>2. BuildOK
    BY DEF Init, BuildOK
  <2>3. ControlOK
    BY DEF Init, ControlOK
  <2> QED
    BY <2>1, <2>2, <2>3
<1>4. SolnsOK
  <2>1. DOMAIN <<>> = {} /\ <<>> \in [{} -> BOOLEAN]
    OBVIOUS
  <2>2. Partial(<<>>)
    BY <2>1 DEF Partial
  <2>3. solved_by_ls \in BOOLEAN /\ ls_mediation_soln = <<>> /\ ls_best_soln = <<>>
        /\ ls_best_unsat_num = IntMax
    BY DEF Init
  <2>4. IntMax \in 0 .. IntMax
    BY IntMaxNat
  <2> QED
    BY <2>2, <2>3, <2>4 DEF SolnsOK
<1>5. LocalOK
  <2>1. ls_mode = "idle" /\ ls_step = 0 /\ pc = "idle"
    BY DEF Init, LocalInit
  <2> QED
    BY <2>1, IdleInv DEF LocalOK, Searching
<1> QED
  BY <1>1, <1>2, <1>3, <1>4, <1>5 DEF IInv

-----------------------------------------------------------------------------
(* What a step leaves alone stays right. *)
LEMMA SameRestarts ==
  ASSUME RestartsOK, UNCHANGED restartVars
  PROVE  RestartsOK'
BY DEF RestartsOK, restartVars

(* Solutions stay such when variables are added. *)
LEMMA SameSolns ==
  ASSUME SolnsOK, UNCHANGED solnVars, Used \subseteq Used'
  PROVE  SolnsOK'
<1>1. UNCHANGED <<solved_by_ls, ls_mediation_soln, ls_best_soln, ls_best_unsat_num>>
  BY DEF solnVars
<1>2. Partial(ls_mediation_soln)' /\ Partial(ls_best_soln)'
  BY <1>1 DEF SolnsOK, Partial
<1> QED
  BY <1>1, <1>2 DEF SolnsOK

(* So does the view. *)
LEMMA SameBuild ==
  ASSUME BuildOK, UNCHANGED buildVars, UsedLits \subseteq UsedLits'
  PROVE  BuildOK'
<1>1. UNCHANGED <<trail, viewList, idx>>
  BY DEF buildVars
<1>2. Seq(UsedLits) \subseteq Seq(UsedLits')
  BY SeqMore
<1> QED
  BY <1>1, <1>2 DEF BuildOK

(* And where the search stands. *)
LEMMA SameControl ==
  ASSUME ControlOK, UNCHANGED <<resultVars, pc, ok>>, pc = "search" \/ UNCHANGED late
  PROVE  ControlOK'
BY DEF ControlOK, resultVars

-----------------------------------------------------------------------------
(* Each step keeps the invariant: add, *)
LEMMA addInv ==
  ASSUME IInv, add
  PROVE  IInv'
<1>1. DbOK /\ Sound /\ RestartsOK /\ SolnsOK /\ BuildOK /\ ControlOK /\ LocalOK
  BY DEF IInv
<1>2. pc = "idle" /\ pc' = pc /\ last_result' = 0 /\ UNCHANGED late
      /\ UNCHANGED <<restartVars, solnVars, buildVars, lsVars>>
  BY DEF add, Called
<1>3. DbOK' /\ Sound' /\ Used \subseteq Used' /\ UsedLits \subseteq UsedLits'
  BY <1>1, <1>2, addDb DEF ControlOK
<1>4. ControlOK'
  BY <1>1, <1>2 DEF ControlOK
<1>5. LocalOK'
  BY <1>1, <1>2, LocalElse
<1> QED
  BY <1>1, <1>2, <1>3, <1>4, <1>5, SameRestarts, SameSolns, SameBuild DEF IInv

(* A solution, resized to the variables in use. *)
LEMMA ResizedFacts ==
  ASSUME NEW soln, Partial(soln), NEW n
  PROVE  Resized(soln, n) \in [0 .. n - 1 -> BOOLEAN]
BY DEF Resized, Partial

(* solve, *)
LEMMA solveInv ==
  ASSUME IInv, solve
  PROVE  IInv'
<1>1. DbOK /\ Sound /\ RestartsOK /\ SolnsOK /\ BuildOK /\ ControlOK /\ LocalOK
  BY DEF IInv
<1>2. pc = "idle" /\ pc' = "solve" /\ last_result' = 0
      /\ UNCHANGED <<late, restartVars, buildVars, lsVars, solved_by_ls, ls_best_unsat_num>>
  BY DEF solve, Called
<1>3. DbOK' /\ Sound' /\ Used \subseteq Used' /\ UsedLits \subseteq UsedLits'
  BY <1>1, solveDb
<1>4. ControlOK'
  BY <1>1, <1>2 DEF ControlOK
<1>5. LocalOK'
  BY <1>1, <1>2, LocalElse
<1>6. Used' = 0 .. nVars' - 1
  BY DEF Used
<1>7. SolnsOK'
  <2>1. solved_by_ls' \in BOOLEAN /\ ls_best_unsat_num' \in 0 .. IntMax
    BY <1>1, <1>2 DEF SolnsOK
  <2>2. Partial(ls_mediation_soln) /\ Partial(ls_best_soln)
    BY <1>1 DEF SolnsOK
  <2>3. CASE ok
    <3>1. /\ ls_mediation_soln' = Resized(ls_mediation_soln, nVars')
          /\ ls_best_soln' = Resized(ls_best_soln, nVars')
      BY <2>3 DEF solve
    <3> DEFINE n == nVars'
               a == ls_mediation_soln'
               b == ls_best_soln'
    <3>2. a \in [0 .. n - 1 -> BOOLEAN] /\ b \in [0 .. n - 1 -> BOOLEAN]
      <4> HIDE DEF n
      <4> QED
        BY <2>2, <3>1, ResizedFacts DEF n
    <3>3. a \in [DOMAIN a -> BOOLEAN] /\ DOMAIN a \subseteq Used'
          /\ b \in [DOMAIN b -> BOOLEAN] /\ DOMAIN b \subseteq Used'
      BY <1>6, <3>2
    <3>4. Partial(ls_mediation_soln)' /\ Partial(ls_best_soln)'
      BY <3>3 DEF Partial
    <3> QED
      BY <2>1, <3>4 DEF SolnsOK
  <2>4. CASE ~ok
    <3>1. UNCHANGED solnVars
      BY <1>2, <2>4 DEF solve, solnVars
    <3> QED
      BY <1>1, <1>3, <3>1, SameSolns
  <2> QED
    BY <2>3, <2>4
<1> QED
  BY <1>1, <1>2, <1>3, <1>4, <1>5, <1>7, SameRestarts, SameBuild DEF IInv

(* the beginning of a restart, *)
LEMMA RestartInv ==
  ASSUME IInv, Restart
  PROVE  IInv'
<1>1. DbOK /\ Sound /\ RestartsOK /\ SolnsOK /\ BuildOK /\ ControlOK /\ LocalOK
  BY DEF IInv
<1>2. /\ pc = "solve" /\ ok /\ starts' = starts + 1
      /\ freeze_ls_restart_num' = freeze_ls_restart_num - 1 /\ can_call_ls' = TRUE
      /\ mediation_used' \in {mediation_used, TRUE} /\ pc' \in {"search", "vivify"}
      /\ UNCHANGED <<dbVars, late, learnts, solnVars, buildVars, resultVars, lsVars>>
  BY DEF Restart, rephase
<1>3. DbOK' /\ Sound' /\ UsedLits' = UsedLits /\ Used' = Used
  BY <1>1, <1>2, SameDb
<1>4. RestartsOK'
  <2>1. starts' \in Nat /\ freeze_ls_restart_num' \in Int
    BY <1>1, <1>2 DEF RestartsOK
  <2>2. mediation_used' \in BOOLEAN /\ can_call_ls' \in BOOLEAN
    BY <1>1, <1>2 DEF RestartsOK
  <2> QED
    BY <2>1, <2>2 DEF RestartsOK
<1>5. ControlOK'
  BY <1>1, <1>2 DEF ControlOK, resultVars, dbVars
<1>6. LocalOK'
  BY <1>1, <1>2, LocalElse
<1> QED
  BY <1>1, <1>2, <1>3, <1>4, <1>5, <1>6, SameSolns, SameBuild DEF IInv

(* A step of the restart: only what is known, and pc, may change. *)
LEMMA StepInv ==
  ASSUME IInv, DbOK', Sound', UNCHANGED nVars, UNCHANGED <<restartVars, solnVars, buildVars, lsVars>>,
         ControlOK', pc # "local", pc' \notin {"build", "local"}
  PROVE  IInv'
<1>1. RestartsOK /\ SolnsOK /\ BuildOK /\ ControlOK /\ LocalOK
  BY DEF IInv
<1>2. UsedLits' = UsedLits /\ Used' = Used
  BY SameUsed
<1>3. RestartsOK' /\ SolnsOK' /\ BuildOK'
  BY <1>1, <1>2, SameRestarts, SameSolns, SameBuild
<1>4. LocalOK'
  BY <1>1, LocalElse
<1> QED
  BY <1>3, <1>4 DEF IInv

(* one clause of simplifyAll, *)
LEMMA SimplifyInv ==
  ASSUME IInv, pc = "vivify", NEW t \in {"core", "tier2"}, NEW c \in ToSet(learnts[t]),
         NEW Tiers \in SUBSET {"core", "tier2", "dropped"}, Simplify(c, Tiers)
  PROVE  IInv'
<1>1. DbOK /\ Sound /\ ControlOK /\ ok
  BY DEF IInv, ControlOK
<1>2. DbOK' /\ Sound'
  BY <1>1, SimplifyDb
<1>3. /\ UNCHANGED <<script, given, nVars, clauses, assumptions, late, restartVars, solnVars,
                     buildVars, model, lsVars>>
      /\ \/ Forgets(c)
         \/ \E S \in simplifyLearnt(TrialOthers(c), TrialLits(c)) :
              \/ Decides(c, S)
              \/ \E u \in {"core", "tier2"} : StoresIn(c, S, u)
  BY <1>1, SimplifyCases
<1>4. \/ UNCHANGED <<ok, pc, last_result>>
      \/ pc' = "idle" /\ last_result' = 20
  BY <1>3 DEF Forgets, Decides, StoresIn
<1>5. ControlOK' /\ pc' \notin {"build", "local"}
  BY <1>1, <1>3, <1>4 DEF ControlOK
<1> QED
  BY <1>2, <1>3, <1>5, StepInv

(* A clause that was not tried yet is one of its tier. *)
LEMMA UntriedFacts ==
  ASSUME DbOK, NEW t \in {"core", "tier2"}, Untried(t) # <<>>
  PROVE  Head(Untried(t)) \in ToSet(learnts[t])
<1> DEFINE l == learnts[t]
           u == Untried(t)
<1>1. l \in Seq(Learnts(UsedLits))
  BY DEF DbOK
<1>2. u = Selected(l, {d \in ToSet(l) : ~d.simplified})
  BY DEF Untried
<1> HIDE DEF l, u
<1>3. u \in Seq(Learnts(UsedLits)) /\ ToSet(u) \subseteq ToSet(l)
  BY <1>1, <1>2, SelectedIn
<1>4. u # <<>>
  BY DEF u
<1>5. 1 \in DOMAIN u /\ Head(u) = u[1]
  BY <1>3, <1>4
<1>6. Head(u) \in ToSet(u)
  BY <1>5 DEF ToSet
<1> QED
  BY <1>3, <1>6 DEF u, l

(* so simplifyLearnt_core and simplifyLearnt_tier2, *)
LEMMA simplifyLearntInv ==
  ASSUME IInv, simplifyLearnt_core \/ simplifyLearnt_tier2
  PROVE  IInv'
<1>1. CASE simplifyLearnt_core
  <2>1. pc = "vivify" /\ Untried("core") # <<>> /\ Simplify(Head(Untried("core")), {"core"})
    BY <1>1 DEF simplifyLearnt_core
  <2>2. Head(Untried("core")) \in ToSet(learnts["core"])
    BY <2>1, UntriedFacts DEF IInv
  <2> DEFINE c == Head(Untried("core"))
  <2>3. c \in ToSet(learnts["core"]) /\ Simplify(c, {"core"})
    BY <2>1, <2>2
  <2> HIDE DEF c
  <2> QED
    BY <2>1, <2>3, SimplifyInv
<1>2. CASE simplifyLearnt_tier2
  <2>1. pc = "vivify" /\ Untried("tier2") # <<>> /\ Simplify(Head(Untried("tier2")), is_duplicate)
    BY <1>2 DEF simplifyLearnt_tier2
  <2>2. Head(Untried("tier2")) \in ToSet(learnts["tier2"])
    BY <2>1, UntriedFacts DEF IInv
  <2> DEFINE c == Head(Untried("tier2"))
  <2>3. c \in ToSet(learnts["tier2"]) /\ Simplify(c, is_duplicate)
        /\ is_duplicate \in SUBSET {"core", "tier2", "dropped"}
    BY <2>1, <2>2 DEF is_duplicate
  <2> HIDE DEF c
  <2> QED
    BY <2>1, <2>3, SimplifyInv
<1> QED
  BY <1>1, <1>2

(* the end of simplifyAll, *)
LEMMA simplifyAllInv ==
  ASSUME IInv, simplifyAll
  PROVE  IInv'
<1>1. pc = "vivify" /\ pc' = "search"
      /\ UNCHANGED <<dbVars, late, learnts, restartVars, solnVars, buildVars, resultVars, lsVars>>
  BY DEF simplifyAll
<1>2. DbOK' /\ Sound'
  BY <1>1, SameDb DEF IInv
<1>3. ControlOK' /\ UNCHANGED nVars
  BY <1>1 DEF IInv, ControlOK, dbVars, resultVars
<1> QED
  BY <1>1, <1>2, <1>3, StepInv

(* what the search does to its clauses, *)
LEMMA SearchInv ==
  ASSUME IInv, Learn \/ simplify \/ reduceDB_Tier2
  PROVE  IInv'
<1>1. pc = "search" /\ pc' = pc /\ UNCHANGED <<nVars, ok, restartVars, solnVars, buildVars, resultVars, lsVars>>
  BY DEF Learn, simplify, reduceDB_Tier2, dbVars
<1>2. DbOK' /\ Sound'
  BY LearnDb, simplifySteps, ReduceDb DEF IInv
<1>3. ControlOK'
  BY <1>1, SameControl DEF IInv
<1> QED
  BY <1>1, <1>2, <1>3, StepInv

(* the end of a restart without an answer, *)
LEMMA GiveUpInv ==
  ASSUME IInv, GiveUp
  PROVE  IInv'
<1>1. pc = "search" /\ pc' = "solve" /\ late' = {}
      /\ UNCHANGED <<dbVars, learnts, restartVars, solnVars, buildVars, resultVars, lsVars>>
  BY DEF GiveUp
<1>2. DbOK' /\ Sound'
  BY <1>1, LevelZero DEF IInv
<1>3. ControlOK' /\ UNCHANGED nVars
  BY <1>1 DEF IInv, ControlOK, dbVars, resultVars
<1> QED
  BY <1>1, <1>2, <1>3, StepInv

(* an answer with a model, *)
LEMMA FindModelInv ==
  ASSUME IInv, FindModel
  PROVE  IInv'
<1>1. pc = "search" /\ pc' = "idle" /\ last_result' = 10 /\ late' = {}
      /\ UNCHANGED <<dbVars, learnts, restartVars, solnVars, buildVars, lsVars>>
  BY DEF FindModel, Satisfied
<1>2. DbOK' /\ Sound'
  BY <1>1, LevelZero DEF IInv
<1>3. ControlOK' /\ UNCHANGED nVars
  BY <1>1 DEF IInv, ControlOK, dbVars
<1> QED
  BY <1>1, <1>2, <1>3, StepInv

(* and without, *)
LEMMA FindConflictInv ==
  ASSUME IInv, FindConflict
  PROVE  IInv'
<1>1. pc \in {"solve", "search"} /\ pc' = "idle" /\ last_result' = 20 /\ late' = {}
      /\ UNCHANGED <<nVars, restartVars, solnVars, buildVars, lsVars>>
  BY DEF FindConflict
<1>2. DbOK' /\ Sound'
  BY ConflictDb DEF IInv
<1>3. ControlOK'
  BY <1>1 DEF ControlOK
<1> QED
  BY <1>1, <1>2, <1>3, StepInv

(* call_ls up to the loop that builds the first solution, *)
LEMMA CallLsInv ==
  ASSUME IInv, CallLs
  PROVE  IInv'
<1>1. DbOK /\ Sound /\ RestartsOK /\ SolnsOK /\ BuildOK /\ ControlOK /\ LocalOK
  BY DEF IInv
<1>2. PICK t \in Trails \ {{}} :
         IF Instance = <<>> THEN pc' = "search" /\ UNCHANGED buildVars
         ELSE pc' = "build" /\ trail' = t /\ viewList' = <<>> /\ idx' = Cardinality(t)
  BY DEF CallLs
<1>3. /\ pc = "search" /\ can_call_ls' = FALSE /\ mediation_used' = FALSE
      /\ freeze_ls_restart_num' = RestartsGap
      /\ UNCHANGED <<dbVars, late, learnts, starts, solnVars, resultVars, lsVars>>
  BY DEF CallLs
<1>4. DbOK' /\ Sound' /\ UsedLits' = UsedLits /\ Used' = Used /\ Instance' = Instance
  BY <1>1, <1>3, SameDb
<1>5. RestartsOK'
  <2>1. starts' \in Nat /\ freeze_ls_restart_num' \in Int
    BY <1>1, <1>3, StartsAssumption DEF RestartsOK
  <2>2. mediation_used' \in BOOLEAN /\ can_call_ls' \in BOOLEAN
    BY <1>3
  <2> QED
    BY <2>1, <2>2 DEF RestartsOK
<1>6. SolnsOK'
  BY <1>1, <1>3, <1>4, SameSolns
<1>7. BuildOK'
  <2>1. CASE Instance = <<>>
    BY <1>1, <1>2, <1>4, <2>1, SameBuild
  <2>2. CASE Instance # <<>>
    <3>1. trail' = t /\ viewList' = <<>> /\ idx' = Cardinality(t)
      BY <1>2, <2>2
    <3>2. t \in SUBSET UsedLits /\ Cardinality(t) \in Nat
      BY <1>1, TrailFacts
    <3> QED
      BY <1>4, <3>1, <3>2 DEF BuildOK
  <2> QED
    BY <2>1, <2>2
<1>8. ControlOK'
  BY <1>1, <1>2, <1>3 DEF ControlOK, resultVars, dbVars
<1>9. LocalOK'
  <2>1. LocalInv'
    BY <1>1, <1>3, SameLocal DEF LocalOK
  <2>2. ~Searching' /\ pc' # "local"
    <3>1. ~Searching /\ ls_mode' = ls_mode
      BY <1>1, <1>3 DEF LocalOK, lsVars
    <3> QED
      BY <1>2, <3>1 DEF Searching
  <2>3. pc' = "build" => Instance' # <<>>
    BY <1>2, <1>4
  <2> QED
    BY <2>1, <2>2, <2>3 DEF LocalOK
<1> QED
  BY <1>4, <1>5, <1>6, <1>7, <1>8, <1>9 DEF IInv

(* one iteration of that loop, *)
LEMMA BuildStepInv ==
  ASSUME IInv, Visit \/ Choose
  PROVE  IInv'
<1>1. DbOK /\ Sound /\ RestartsOK /\ SolnsOK /\ BuildOK /\ ControlOK /\ LocalOK
  BY DEF IInv
<1>2. /\ pc = "build" /\ idx' \in {idx, idx + 1}
      /\ UNCHANGED <<dbVars, late, learnts, restartVars, solnVars, trail, resultVars, pc, lsVars>>
  BY DEF Visit, Choose
<1>3. DbOK' /\ Sound' /\ UsedLits' = UsedLits /\ Used' = Used /\ Instance' = Instance
  BY <1>1, <1>2, SameDb
<1>4. viewList' \in Seq(UsedLits)
  <2>1. viewList \in Seq(UsedLits)
    BY <1>1 DEF BuildOK
  <2>2. CASE Visit
    BY <1>1, <2>1, <2>2, VisitView
  <2>3. CASE Choose
    <3>1. PICK v \in Undefined(viewList), s \in 0 .. 1 : viewList' = Append(viewList, mkLit(v, s))
      BY <2>3 DEF Choose
    <3>2. v \in Used /\ nVars \in 0 .. NVars
      BY <1>1, <3>1 DEF Undefined, DbOK
    <3>3. mkLit(v, s) \in UsedLits
      <4>1. v \in 0 .. nVars - 1 /\ v \in 0 .. NVars - 1
        BY <3>2, NVarsAssumption DEF Used
      <4>2. v + v + s \in 0 .. NVars + NVars - 1 /\ (v + v + s) \div 2 = v /\ v < nVars
        BY <3>2, <4>1, NVarsAssumption
      <4> QED
        BY <4>2 DEF UsedLits, Lits, mkLit, Var
    <3> QED
      BY <2>1, <3>1, <3>3
  <2> QED
    BY <2>2, <2>3
<1>5. BuildOK'
  BY <1>1, <1>2, <1>3, <1>4 DEF BuildOK
<1>6. RestartsOK' /\ SolnsOK'
  BY <1>1, <1>2, <1>3, SameRestarts, SameSolns
<1>7. ControlOK'
  BY <1>1, <1>2, SameControl DEF dbVars
<1>8. LocalOK'
  <2>1. LocalInv'
    BY <1>1, <1>2, SameLocal DEF LocalOK
  <2>2. ~Searching' /\ Instance # <<>>
    <3>1. ~Searching /\ ls_mode' = ls_mode /\ Instance # <<>>
      BY <1>1, <1>2 DEF LocalOK, lsVars
    <3> QED
      BY <3>1 DEF Searching
  <2> QED
    BY <1>2, <1>3, <2>1, <2>2 DEF LocalOK
<1> QED
  BY <1>3, <1>5, <1>6, <1>7, <1>8 DEF IInv

(* the start of the local search, *)
LEMMA StartSearchInv ==
  ASSUME IInv, StartSearch
  PROVE  IInv'
<1>1. DbOK /\ Sound /\ RestartsOK /\ SolnsOK /\ BuildOK /\ ControlOK /\ LocalOK
  BY DEF IInv
<1>2. /\ pc = "build" /\ pc' = "local"
      /\ ls_mediation_soln' = [v \in Used |-> mkLit(v, 0) \in trail \cup ToSet(viewList)]
      /\ Start(Instance, ls_mediation_soln')
      /\ trail' = {} /\ viewList' = <<>> /\ idx' = 0
      /\ UNCHANGED <<dbVars, late, learnts, restartVars, solved_by_ls, ls_best_soln, ls_best_unsat_num,
                     resultVars>>
  BY DEF StartSearch
<1>3. DbOK' /\ Sound' /\ UsedLits' = UsedLits /\ Used' = Used /\ Instance' = Instance
  BY <1>1, <1>2, SameDb
<1>4. PICK soln : soln = ls_mediation_soln'
  OBVIOUS
<1>5. soln \in [Used -> BOOLEAN]
  BY <1>2, <1>4
<1>6. Start(Instance, soln)
  BY <1>2, <1>4
<1>7. Problem(Instance, Used)
  BY <1>1, InstanceFacts
<1>8. LocalInv' /\ VarsIn(ls') = Used /\ ls'.clauses = Instance
  <2> DEFINE cs == Instance
             V == Used
  <2>1. Problem(cs, V) /\ soln \in [V -> BOOLEAN] /\ Start(cs, soln)
    BY <1>5, <1>6, <1>7
  <2> HIDE DEF cs, V
  <2>2. LocalInv' /\ VarsIn(ls') = V /\ ls'.clauses = cs
    BY <2>1, StartInv
  <2> QED
    BY <2>2 DEF cs, V
<1>9. LocalOK'
  <2>1. Searching'
    BY <1>6 DEF Start, Searching
  <2>2. Instance # <<>>
    BY <1>1, <1>2 DEF LocalOK
  <2>3. VarsIn(ls)' = Used' /\ ls'.clauses = Instance'
    BY <1>3, <1>8 DEF VarsIn
  <2> QED
    BY <1>2, <1>3, <1>8, <2>1, <2>2, <2>3 DEF LocalOK
<1>10. SolnsOK'
  <2>1. Partial(ls_mediation_soln)'
    <3>1. DOMAIN soln = Used /\ soln \in [DOMAIN soln -> BOOLEAN]
      BY <1>5
    <3> QED
      BY <1>3, <1>4, <3>1 DEF Partial
  <2>2. Partial(ls_best_soln)'
    BY <1>1, <1>2, <1>3 DEF SolnsOK, Partial
  <2>3. solved_by_ls' \in BOOLEAN
    BY <1>1, <1>2 DEF SolnsOK
  <2>4. ls_best_unsat_num' \in 0 .. IntMax
    BY <1>1, <1>2 DEF SolnsOK
  <2> QED
    BY <2>1, <2>2, <2>3, <2>4 DEF SolnsOK
<1>11. BuildOK'
  BY <1>2 DEF BuildOK
<1>12. RestartsOK'
  BY <1>1, <1>2, SameRestarts
<1>13. ControlOK'
  BY <1>1, <1>2 DEF ControlOK, resultVars, dbVars
<1> QED
  BY <1>3, <1>9, <1>10, <1>11, <1>12, <1>13 DEF IInv

(* its steps, *)
LEMMA SearchLocallyInv ==
  ASSUME IInv, SearchLocally
  PROVE  IInv'
<1>1. DbOK /\ Sound /\ RestartsOK /\ SolnsOK /\ BuildOK /\ ControlOK /\ LocalOK
  BY DEF IInv
<1>2. /\ pc = "local" /\ (Greedy \/ Aspire \/ Diversify \/ Conclude)
      /\ UNCHANGED <<dbVars, late, learnts, restartVars, solnVars, buildVars, resultVars, pc>>
  BY DEF SearchLocally
<1>3. DbOK' /\ Sound' /\ UsedLits' = UsedLits /\ Used' = Used /\ Instance' = Instance
  BY <1>1, <1>2, SameDb
<1>4. RestartsOK' /\ SolnsOK' /\ BuildOK'
  BY <1>1, <1>2, <1>3, SameRestarts, SameSolns, SameBuild
<1>5. ControlOK'
  BY <1>1, <1>2, SameControl DEF dbVars
<1>6. LocalInv' /\ SameProblem
  BY <1>1, <1>2, GreedyInv, AspireInv, DiversifyInv, ConcludeInv DEF LocalOK
<1>7. Searching'
  BY <1>2 DEF Greedy, Aspire, Diversify, Conclude, Going, Flip, Searching
<1>8. VarsIn(ls) = Used /\ ls.clauses = Instance /\ Instance # <<>>
  BY <1>1, <1>2 DEF LocalOK
<1>9. VarsIn(ls)' = Used' /\ ls'.clauses = Instance'
  BY <1>3, <1>6, <1>8 DEF SameProblem, VarsIn
<1>10. LocalOK'
  BY <1>2, <1>3, <1>6, <1>7, <1>8, <1>9 DEF LocalOK
<1> QED
  BY <1>3, <1>4, <1>5, <1>10 DEF IInv

(* and the return from it. *)
LEMMA ReloadInv ==
  ASSUME IInv, Reload
  PROVE  IInv'
<1>1. DbOK /\ Sound /\ RestartsOK /\ SolnsOK /\ BuildOK /\ ControlOK /\ LocalOK
  BY DEF IInv
<1>2. /\ pc = "local" /\ ls_mediation_soln' = ls_best.solution
      /\ \/ ls_best_soln' = ls_best.solution /\ ls_best_unsat_num' = ls_best.cost
            /\ ls_best.cost <= ls_best_unsat_num
         \/ UNCHANGED <<ls_best_soln, ls_best_unsat_num>>
      /\ solved_by_ls' = (solved_by_ls \/ ls_mode = "true")
      /\ \/ pc' = "idle" /\ last_result' = 10 /\ late' = {}
         \/ pc' = "search" /\ UNCHANGED <<resultVars, late>>
      /\ ls_mode' = "idle" /\ ls_step' = 0
      /\ UNCHANGED <<dbVars, learnts, restartVars, buildVars>>
  BY DEF Reload, Satisfied
<1>3. DbOK' /\ Sound' /\ UsedLits' = UsedLits /\ Used' = Used
  <2>1. UNCHANGED <<dbVars, learnts>> /\ (late' = {} \/ UNCHANGED late)
    BY <1>2
  <2>2. DbOK' /\ Sound'
    BY <1>1, <2>1, SameDb, LevelZero
  <2>3. UNCHANGED nVars
    BY <2>1 DEF dbVars
  <2> QED
    BY <2>2, <2>3, SameUsed
<1>4. RestartsOK' /\ BuildOK'
  BY <1>1, <1>2, <1>3, SameRestarts, SameBuild
<1>5. ControlOK'
  BY <1>1, <1>2 DEF ControlOK, resultVars, dbVars
<1>6. LocalOK'
  <2>1. ~Searching'
    BY <1>2 DEF Searching
  <2>2. LocalInv'
    <3>1. ls_step' \in 0 .. MaxSteps
      BY <1>2, BudgetAssumption
    <3> QED
      BY <1>2, <2>1, <3>1 DEF LocalInv
  <2> QED
    BY <1>2, <2>1, <2>2 DEF LocalOK
<1>7. ls_best.solution \in [Used -> BOOLEAN] /\ ls_best.cost \in Nat
  <2>1. BestRight(ls, ls_best) /\ VarsIn(ls) = Used /\ Good(ls)
    BY <1>1, <1>2 DEF LocalOK, LocalInv
  <2>2. ls_best.cost \in 0 .. Len(ls.clauses) /\ ls_best.solution \in [Used -> BOOLEAN]
    BY <2>1 DEF BestRight
  <2> QED
    BY <2>2
<1>8. SolnsOK'
  <2> DEFINE b == ls_best.solution
  <2>1. b \in [DOMAIN b -> BOOLEAN] /\ DOMAIN b \subseteq Used
    BY <1>7
  <2>2. Partial(ls_mediation_soln)'
    BY <1>2, <1>3, <2>1 DEF Partial
  <2>3. Partial(ls_best_soln)'
    <3>1. Partial(ls_best_soln)
      BY <1>1 DEF SolnsOK
    <3>2. ls_best_soln' \in {b, ls_best_soln}
      BY <1>2
    <3> QED
      BY <1>3, <2>1, <3>1, <3>2 DEF Partial
  <2>4. solved_by_ls' \in BOOLEAN
    BY <1>2
  <2>5. ls_best_unsat_num' \in 0 .. IntMax
    <3>1. ls_best_unsat_num \in 0 .. IntMax
      BY <1>1 DEF SolnsOK
    <3> DEFINE n == IntMax
    <3>2. n \in Nat
      BY IntMaxNat
    <3> HIDE DEF n
    <3>3. ls_best_unsat_num \in 0 .. n
      BY <3>1 DEF n
    <3>4. ls_best_unsat_num' \in 0 .. n
      BY <1>2, <1>7, <3>2, <3>3
    <3> QED
      BY <3>4 DEF n
  <2> QED
    BY <2>2, <2>3, <2>4, <2>5 DEF SolnsOK
<1> QED
  BY <1>3, <1>4, <1>5, <1>6, <1>8 DEF IInv

-----------------------------------------------------------------------------
(* The invariant is inductive. *)
LEMMA NextInv ==
  ASSUME IInv, [Next]_vars
  PROVE  IInv'
<1>1. CASE UNCHANGED vars
  <2>1. UNCHANGED <<dbVars, late, learnts, restartVars, solnVars, buildVars, resultVars, pc, lsVars>>
    BY <1>1 DEF vars
  <2>2. DbOK /\ Sound /\ RestartsOK /\ SolnsOK /\ BuildOK /\ ControlOK /\ LocalOK
    BY DEF IInv
  <2>3. DbOK' /\ Sound' /\ UsedLits' = UsedLits /\ Used' = Used /\ Instance' = Instance
    BY <2>1, <2>2, SameDb
  <2>4. RestartsOK' /\ SolnsOK' /\ BuildOK'
    BY <2>1, <2>2, <2>3, SameRestarts, SameSolns, SameBuild
  <2>5. ControlOK'
    BY <2>1, <2>2, SameControl DEF dbVars
  <2>6. LocalInv' /\ SameProblem
    BY <2>1, <2>2, SameLocal DEF LocalOK
  <2>7. ls_mode' = ls_mode /\ pc' = pc
    BY <2>1 DEF lsVars
  <2>8. LocalOK'
    BY <2>2, <2>3, <2>6, <2>7 DEF LocalOK, SameProblem, Searching, VarsIn
  <2> QED
    BY <2>3, <2>4, <2>5, <2>8 DEF IInv
<1>2. CASE Next
  BY <1>2, addInv, solveInv, RestartInv, simplifyLearntInv, simplifyAllInv, SearchInv, GiveUpInv,
     FindModelInv, FindConflictInv, CallLsInv, BuildStepInv, StartSearchInv, SearchLocallyInv,
     ReloadInv
     DEF Next
<1> QED
  BY <1>1, <1>2

-----------------------------------------------------------------------------
(* What follows from the invariant. *)

(* A solution of the variables in use, as an assignment of all. *)
LEMMA TotalFacts ==
  ASSUME nVars \in 0 .. NVars, NEW soln \in [Used -> BOOLEAN]
  PROVE  /\ Total(soln) \in Assignments
         /\ \A p \in UsedLits : Makes(Total(soln), p) <=> Makes(soln, p)
<1>1. Used \in SUBSET Vars /\ \A p \in UsedLits : Var(p) \in Used
  BY UsedFacts
<1>2. Total(soln) \in Assignments
  BY DEF Total, Assignments
<1>3. \A v \in Used : Total(soln)[v] = soln[v]
  <2> TAKE v \in Used
  <2>1. Total(soln)[v] = (v \in Used /\ soln[v])
    BY <1>1 DEF Total
  <2>2. soln[v] \in BOOLEAN
    OBVIOUS
  <2> QED
    BY <2>1, <2>2
<1> QED
  BY <1>1, <1>2, <1>3 DEF Makes

(* What the invariant says of a running local search. *)
LEMMA SearchFacts ==
  ASSUME IInv, pc = "local"
  PROVE  /\ Good(ls) /\ BestRight(ls, ls_best) /\ VarsIn(ls) = Used /\ ls.clauses = Instance
         /\ Problem(ls.clauses, Used) /\ ls_best.solution \in [Used -> BOOLEAN] /\ ok
         /\ Len(ls.clauses) \in Nat \ {0} /\ nVars \in 0 .. NVars
         /\ \A c \in ClausesOf(ls) : ToSet(ls.clauses[c]) \subseteq UsedLits
<1>1. /\ Good(ls) /\ BestRight(ls, ls_best) /\ VarsIn(ls) = Used /\ ls.clauses = Instance
      /\ Instance # <<>> /\ ok /\ nVars \in 0 .. NVars /\ DbOK
  BY DEF IInv, LocalOK, LocalInv, ControlOK, DbOK
<1>2. Problem(ls.clauses, Used)
  BY <1>1, InstanceFacts
<1>3. ls_best.solution \in [Used -> BOOLEAN]
  BY <1>1 DEF BestRight
<1>4. Len(ls.clauses) \in Nat \ {0}
  BY <1>1, <1>2 DEF Problem
<1>5. ASSUME NEW c \in ClausesOf(ls) PROVE ToSet(ls.clauses[c]) \subseteq UsedLits
  <2> DEFINE d == ls.clauses[c]
  <2>1. d \in Seq(Lits) /\ \A i \in DOMAIN d : Var(d[i]) \in Used
    BY <1>2, <1>5 DEF Problem, ClausesOf
  <2> HIDE DEF d
  <2>2. \A i \in DOMAIN d : d[i] \in UsedLits
    BY <1>1, <2>1, UsedFacts
  <2>3. ToSet(d) \subseteq UsedLits
    BY <2>2 DEF ToSet
  <2> QED
    BY <2>3 DEF d
<1> QED
  BY <1>1, <1>2, <1>3, <1>4, <1>5

(* The clauses a solution falsifies, counted by SolutionsRight or by the
   search. *)
LEMMA FalsifiesIs ==
  ASSUME IInv, pc = "local", NEW soln \in [Used -> BOOLEAN]
  PROVE  {c \in ClausesOf(ls) : \A p \in ToSet(ls.clauses[c]) : ~Makes(Total(soln), p)}
           = FalseIn(ls, soln)
<1>1. nVars \in 0 .. NVars /\ \A c \in ClausesOf(ls) : ToSet(ls.clauses[c]) \subseteq UsedLits
  BY SearchFacts
<1>2. \A p \in UsedLits : Makes(Total(soln), p) <=> Makes(soln, p)
  BY <1>1, TotalFacts
<1>3. ASSUME NEW c \in ClausesOf(ls)
      PROVE  (\A p \in ToSet(ls.clauses[c]) : ~Makes(Total(soln), p)) <=> TrueIn(ls, soln, c) = {}
  <2> DEFINE d == ls.clauses[c]
  <2>1. \A i \in DOMAIN d : d[i] \in UsedLits
    BY <1>1 DEF ToSet
  <2>2. TrueIn(ls, soln, c) = {i \in DOMAIN d : Makes(soln, d[i])}
    BY DEF TrueIn
  <2> HIDE DEF d
  <2>3. (\A p \in ToSet(d) : ~Makes(Total(soln), p)) <=> \A i \in DOMAIN d : ~Makes(soln, d[i])
    BY <1>2, <2>1 DEF ToSet
  <2>4. (\A i \in DOMAIN d : ~Makes(soln, d[i])) <=> TrueIn(ls, soln, c) = {}
    BY <2>2
  <2> QED
    BY <2>3, <2>4 DEF d
<1> QED
  BY <1>3 DEF FalseIn

(* The best solution, when the search claims one. *)
LEMMA ClaimFacts ==
  ASSUME IInv, pc = "local", ls_mode = "true"
  PROVE  Solves(ls_best.solution)
<1> DEFINE b == ls_best.solution
<1>1. /\ Good(ls) /\ BestRight(ls, ls_best) /\ VarsIn(ls) = Used /\ ls.clauses = Instance
      /\ Problem(ls.clauses, Used) /\ b \in [Used -> BOOLEAN] /\ ok
      /\ Len(ls.clauses) \in Nat \ {0} /\ nVars \in 0 .. NVars
  BY SearchFacts
<1>2. Cost(ls) = 0 /\ DbOK /\ Sound
  BY DEF IInv, LocalOK, LocalInv
<1>3. CountsOk(ls)
  BY <1>1 DEF Good
<1>4. Cost(ls) = Cardinality(FalseIn(ls, ls.solution))
  BY <1>3, CostFacts
<1>5. \A m : IsFiniteSet(FalseIn(ls, m)) /\ (Cardinality(FalseIn(ls, m)) = 0 => FalseIn(ls, m) = {})
  BY <1>1, FalseFacts, FS_EmptySet
<1>6. FalseIn(ls, b) = {}
  <2>1. CASE b = ls.solution
    BY <1>2, <1>4, <1>5, <2>1
  <2>2. CASE b # ls.solution
    <3>1. /\ ls_best.cost \in 0 .. Len(ls.clauses) /\ ls_best.cost <= Cost(ls)
          /\ ls_best.cost \in {Cardinality(FalseIn(ls, b)), Len(ls.clauses)}
      BY <1>1, <2>2 DEF BestRight
    <3>2. ls_best.cost = 0
      BY <1>1, <1>2, <3>1
    <3>3. Cardinality(FalseIn(ls, b)) = 0
      BY <1>1, <3>1, <3>2
    <3> QED
      BY <1>5, <3>3
  <2> QED
    BY <2>1, <2>2
<1>7. \A c \in ClausesOf(ls) : SatisfiesClause(Total(b), ToSet(ls.clauses[c]))
  <2>1. {c \in ClausesOf(ls) : \A p \in ToSet(ls.clauses[c]) : ~Makes(Total(b), p)} = {}
    BY <1>1, <1>6, FalsifiesIs
  <2> QED
    BY <2>1 DEF SatisfiesClause
<1>8. \A c \in ToSet(Instance) : SatisfiesClause(Total(b), ToSet(c))
  BY <1>1, <1>7 DEF ToSet, ClausesOf
<1>9. Total(b) \in Assignments
  BY <1>1, TotalFacts
<1> DEFINE m == Total(b)
<1>10. Satisfies(m, given) /\ MakesAll(m, ToSet(assumptions))
  <2> HIDE DEF m
  <2>1. m \in Assignments /\ \A c \in ToSet(Instance) : SatisfiesClause(m, ToSet(c))
    BY <1>8, <1>9 DEF m
  <2> QED
    BY <1>1, <1>2, <2>1, InstanceSays
<1> QED
  BY <1>10 DEF Solves, MakesAll

(* The invariant implies the property of solutions, *)
LEMMA SolutionsFollow ==
  ASSUME IInv
  PROVE  SolutionsRight
<1> SUFFICES ASSUME pc = "local" PROVE SolutionsRight
  BY DEF SolutionsRight
<1>1. ls_best.solution \in [Used -> BOOLEAN] /\ BestRight(ls, ls_best)
  BY SearchFacts
<1>2. Falsifies(ls_best.solution) = Cardinality(FalseIn(ls, ls_best.solution))
  BY <1>1, FalsifiesIs DEF Falsifies
<1>3. ls_best.cost \in {Falsifies(ls_best.solution), Len(ls.clauses)}
  BY <1>1, <1>2 DEF BestRight
<1>4. ls_mode = "true" => Solves(ls_best.solution)
  BY ClaimFacts
<1> QED
  BY <1>3, <1>4 DEF SolutionsRight

(* and the types. *)
LEMMA TypeFollows ==
  ASSUME IInv
  PROVE  TypeOK
<1>1. /\ DbOK /\ RestartsOK /\ SolnsOK /\ BuildOK /\ ControlOK
  BY DEF IInv
<1>2. /\ script \in Seq(Calls) /\ given \in SUBSET SUBSET Lits
      /\ nVars \in 0 .. NVars /\ ok \in BOOLEAN
      /\ facts \in SUBSET UsedLits /\ ~Contradicts(facts) /\ late \in SUBSET facts
      /\ assumptions \in Seq(UsedLits)
  BY <1>1 DEF DbOK
<1>3. learnts \in [{"core", "tier2"} -> Seq([lits : Seq(UsedLits), simplified : BOOLEAN])]
  <2> DEFINE R == [lits : Seq(UsedLits), simplified : BOOLEAN]
  <2>1. Learnts(UsedLits) \subseteq R
    BY DEF Learnts, ProperClauses
  <2> HIDE DEF R
  <2>2. Seq(Learnts(UsedLits)) \subseteq Seq(R)
    BY <2>1, SeqMore
  <2>3. learnts \in [{"core", "tier2"} -> Seq(R)]
    BY <1>1, <2>2 DEF DbOK
  <2> QED
    BY <2>3 DEF R
<1>4. ASSUME NEW cs \in {clauses, KeptLits}
      PROVE  cs \in Seq(Seq(UsedLits))
             /\ \A k \in DOMAIN cs : Len(cs[k]) > 1 /\ ~Contradicts(ToSet(cs[k]))
  <2>1. UsedLits \in SUBSET Lits /\ learnts \in Tiered(UsedLits)
        /\ clauses \in Seq(ProperClauses(UsedLits))
    BY <1>1, SoundParts DEF DbOK, Tiered
  <2>2. LitsOf(KeptOf(learnts)) \in Seq(ProperClauses(UsedLits))
    BY <2>1, KeptFacts
  <2>3. cs \in Seq(ProperClauses(UsedLits))
    BY <2>1, <2>2 DEF KeptLits, Kept, LitsOf, KeptOf
  <2>4. ProperClauses(UsedLits) \subseteq Seq(UsedLits)
        /\ \A c \in ProperClauses(UsedLits) : Len(c) > 1 /\ ~Contradicts(ToSet(c))
    BY DEF ProperClauses
  <2>5. cs \in Seq(Seq(UsedLits))
    BY <2>3, <2>4, SeqMore
  <2>6. \A k \in DOMAIN cs : cs[k] \in ProperClauses(UsedLits)
    BY <2>3, ToSetIn
  <2> QED
    BY <2>4, <2>5, <2>6
<1>5. /\ starts \in Nat /\ freeze_ls_restart_num \in Int
      /\ mediation_used \in BOOLEAN /\ can_call_ls \in BOOLEAN
  BY <1>1 DEF RestartsOK
<1>6. /\ solved_by_ls \in BOOLEAN /\ ls_best_unsat_num \in 0 .. IntMax
      /\ \A soln \in {ls_mediation_soln, ls_best_soln} :
           soln \in [DOMAIN soln -> BOOLEAN] /\ DOMAIN soln \subseteq Used
  BY <1>1 DEF SolnsOK, Partial
<1>7. trail \in SUBSET UsedLits /\ viewList \in Seq(UsedLits) /\ idx \in Nat
  BY <1>1 DEF BuildOK
<1>8. ASSUME pc = "local"
      PROVE  /\ ls.solution \in [Used -> BOOLEAN] /\ ls_best.solution \in [Used -> BOOLEAN]
             /\ ls_best.cost \in 0 .. Len(ls.clauses)
             /\ \A c \in ClausesOf(ls) : ls.weight[c] > 0
             /\ \A v \in Used : ls.last_flip_step[v] \in 0 .. MaxSteps
  <2>1. Good(ls) /\ BestRight(ls, ls_best) /\ VarsIn(ls) = Used
    BY <1>8, SearchFacts
  <2>2. ls.solution \in [Used -> BOOLEAN] /\ ls.weight \in [ClausesOf(ls) -> Nat \ {0}]
    BY <2>1 DEF Good, CountsOk, Weighed
  <2>3. ls.last_flip_step \in [Used -> 0 .. MaxSteps]
    BY <2>1 DEF Good, Stepped
  <2>4. ls_best.solution \in [Used -> BOOLEAN] /\ ls_best.cost \in 0 .. Len(ls.clauses)
    BY <2>1 DEF BestRight
  <2>5. \A n \in Nat \ {0} : n > 0
    OBVIOUS
  <2> QED
    BY <2>2, <2>3, <2>4, <2>5
<1>9. /\ last_result \in {0, 10, 20} /\ pc \in {"idle", "solve", "vivify", "search", "build", "local"}
      /\ pc \in {"idle", "solve", "vivify"} => late = {}
  BY <1>1 DEF ControlOK
<1> QED
  BY <1>2, <1>3, <1>4, <1>5, <1>6, <1>7, <1>8, <1>9 DEF TypeOK

-----------------------------------------------------------------------------
(* The promise to the user. *)

(* The clauses of the promise mean what they mean here. *)
LEMMA PromiseMeans ==
  /\ Promise!Lits = Lits
  /\ \A cs, as : Promise!Satisfiable(cs, as) <=> Satisfiable(cs, as)
<1>1. Promise!Lits = Lits
  BY DEF Promise!Lits, Lits
<1>2. Promise!Assignments = Assignments
  BY DEF Promise!Assignments, Assignments, Promise!Vars, Vars
<1>3. \A m, p : Promise!Makes(m, p) <=> Makes(m, p)
  BY ZenonT(60) DEF Promise!Makes, Makes, Promise!sign, sign, Promise!Var, Var
<1>4. \A m, c : Promise!SatisfiesClause(m, c) <=> SatisfiesClause(m, c)
  BY <1>3 DEF Promise!SatisfiesClause, SatisfiesClause
<1>5. \A m, cs : Promise!Satisfies(m, cs) <=> Satisfies(m, cs)
  BY <1>4 DEF Promise!Satisfies, Satisfies
<1>6. \A cs : Promise!Models(cs) = Models(cs)
  BY <1>2, <1>5 DEF Promise!Models, Models
<1> QED
  BY <1>1, <1>3, <1>6 DEF Promise!Satisfiable, Satisfiable

PromiseOver == Promise!Next \/ UNCHANGED Promise!vars

(* A step within a call, and one that answers it. *)
LEMMA QuietStep ==
  ASSUME UNCHANGED <<given, assumptions>>, pc # "idle", pc' # "idle"
  PROVE  PromiseOver
<1>1. Answer = "none" /\ Answer' = "none"
  BY DEF Answer
<1>2. ToSet(assumptions)' = ToSet(assumptions)
  BY DEF ToSet
<1> QED
  BY <1>1, <1>2 DEF PromiseOver, Promise!vars

(* The last step of a call, when it answers rightly, is the reply that is
   promised. *)
LEMMA AnswerStep ==
  ASSUME UNCHANGED <<given, assumptions>>, pc # "idle", pc' = "idle",
         \/ last_result' = 10 /\ Satisfiable(given, ToSet(assumptions))
         \/ last_result' = 20 /\ ~Satisfiable(given, ToSet(assumptions))
  PROVE  PromiseOver
<1>1. Answer = "none"
  BY DEF Answer
<1>2. ToSet(assumptions)' = ToSet(assumptions)
  BY DEF ToSet
<1>3. Promise!Satisfiable(given, ToSet(assumptions)) <=> Satisfiable(given, ToSet(assumptions))
  BY PromiseMeans
<1>4. Answer' = IF Promise!Satisfiable(given, ToSet(assumptions)) THEN "sat" ELSE "unsat"
  <2>1. CASE last_result' = 10 /\ Satisfiable(given, ToSet(assumptions))
    <3>1. Answer' = "sat"
      BY <2>1 DEF Answer
    <3> QED
      BY <1>3, <2>1, <3>1
  <2>2. CASE last_result' = 20 /\ ~Satisfiable(given, ToSet(assumptions))
    <3>1. Answer' = "unsat"
      BY <2>2 DEF Answer
    <3> QED
      BY <1>3, <2>2, <3>1
  <2> QED
    BY <2>1, <2>2
<1>5. Promise!Reply
  BY <1>1, <1>2, <1>4 DEF Promise!Reply
<1> QED
  BY <1>5 DEF PromiseOver, Promise!Next

-----------------------------------------------------------------------------
(* The calls. *)
LEMMA addKeeps ==
  ASSUME IInv, add
  PROVE  PromiseOver
<1> DEFINE c == ToSet(Head(script).lits)
<1>1. /\ pc = "idle" /\ pc' = "idle" /\ last_result' = 0 /\ given' = given \cup {c}
      /\ UNCHANGED assumptions /\ script # <<>> /\ Head(script).call = "add"
  BY DEF add, Called, Call
<1>2. Head(script).lits \in Seq(Lits)
  BY <1>1, CallFacts DEF IInv, DbOK
<1>3. c \in SUBSET Promise!Lits
  BY <1>2, ToSetIn, PromiseMeans
<1> HIDE DEF c
<1>4. Answer # "none" /\ Answer' = "idle"
  BY <1>1 DEF Answer
<1>5. ToSet(assumptions)' = ToSet(assumptions)
  BY <1>1 DEF ToSet
<1>6. Promise!AddClause
  BY <1>1, <1>3, <1>4, <1>5 DEF Promise!AddClause
<1> QED
  BY <1>6 DEF PromiseOver, Promise!Next

(* solve is the question. *)
LEMMA solveKeeps ==
  ASSUME IInv, solve
  PROVE  PromiseOver
<1>1. /\ pc = "idle" /\ pc' = "solve" /\ UNCHANGED given
      /\ assumptions' = Head(script).assumps /\ script # <<>> /\ Head(script).call = "solve"
  BY DEF solve, Called, Call
<1>2. assumptions' \in Seq(Lits)
  BY <1>1, CallFacts DEF IInv, DbOK
<1>3. ToSet(assumptions') \in SUBSET Promise!Lits
  BY <1>2, ToSetIn, PromiseMeans
<1>4. Answer # "none" /\ Answer' = "none"
  BY <1>1 DEF Answer
<1>5. ToSet(assumptions)' = ToSet(assumptions')
  BY DEF ToSet
<1>6. Promise!Ask
  BY <1>1, <1>3, <1>4, <1>5 DEF Promise!Ask
<1> QED
  BY <1>6 DEF PromiseOver, Promise!Next

-----------------------------------------------------------------------------
(* When there is no model of what the solver knows, or it is not ok, there
   is none of what the user gave. *)
LEMMA NoModel ==
  ASSUME Sound, ~ok \/ ~Satisfiable(Database, ToSet(assumptions))
  PROVE  ~Satisfiable(given, ToSet(assumptions))
<1> SUFFICES ASSUME NEW m \in Assignments, Satisfies(m, given),
                    \A a \in ToSet(assumptions) : Makes(m, a)
             PROVE  FALSE
  BY DEF Satisfiable, Models
<1>1. ok /\ Satisfies(m, Database)
  BY DEF Sound, SoundFor
<1> QED
  BY <1>1 DEF Satisfiable, Models

(* The answer 20 of the search is right. *)
LEMMA FindConflictKeeps ==
  ASSUME IInv, FindConflict
  PROVE  PromiseOver
<1>1. Sound /\ (~ok \/ ~Satisfiable(Database, ToSet(assumptions)))
      /\ pc # "idle" /\ pc' = "idle" /\ last_result' = 20 /\ UNCHANGED <<given, assumptions>>
  BY DEF IInv, FindConflict
<1>2. ~Satisfiable(given, ToSet(assumptions))
  BY <1>1, NoModel
<1> QED
  BY <1>1, <1>2, AnswerStep

(* So is its answer 10, *)
LEMMA FindModelKeeps ==
  ASSUME IInv, FindModel
  PROVE  PromiseOver
<1>1. DbOK /\ Sound /\ ok /\ pc # "idle" /\ pc' = "idle" /\ last_result' = 10
      /\ UNCHANGED <<given, assumptions>>
  BY DEF IInv, ControlOK, FindModel, Satisfied, dbVars
<1>2. PICK m \in Models(Database) : \A p \in ToSet(assumptions) : Makes(m, p)
  BY DEF FindModel
<1>3. m \in Assignments /\ Satisfies(m, Database)
  BY <1>2 DEF Models
<1>4. Satisfies(m, given)
  BY <1>1, <1>3, SoundParts DEF Sound, SoundFor, MakesAll, Early
<1>5. Satisfiable(given, ToSet(assumptions))
  BY <1>2, <1>3, <1>4 DEF Satisfiable, Models
<1> QED
  BY <1>1, <1>5, AnswerStep

(* and the one it gives for the local search. *)
LEMMA ReloadKeeps ==
  ASSUME IInv, Reload
  PROVE  PromiseOver
<1>1. pc = "local" /\ UNCHANGED <<given, assumptions>>
      /\ \/ ls_mode = "true" /\ pc' = "idle" /\ last_result' = 10
         \/ pc' = "search"
  BY DEF Reload, Satisfied, dbVars
<1>2. CASE ls_mode = "true" /\ pc' = "idle" /\ last_result' = 10
  <2> DEFINE m == Total(ls_best.solution)
  <2>1. m \in Assignments
    BY <1>1, SearchFacts, TotalFacts
  <2>2. Satisfies(m, given) /\ \A p \in ToSet(assumptions) : Makes(m, p)
    BY <1>1, <1>2, ClaimFacts DEF Solves
  <2> HIDE DEF m
  <2>3. Satisfiable(given, ToSet(assumptions))
    BY <2>1, <2>2 DEF Satisfiable, Models
  <2> QED
    BY <1>1, <1>2, <2>3, AnswerStep
<1>3. CASE pc' = "search"
  BY <1>1, <1>3, QuietStep
<1> QED
  BY <1>1, <1>2, <1>3

(* And so is the answer 20 when simplifyAll meets a conflict. *)
LEMMA SimplifyKeeps ==
  ASSUME IInv, simplifyLearnt_core \/ simplifyLearnt_tier2
  PROVE  PromiseOver
<1> DEFINE T == SUBSET {"core", "tier2", "dropped"}
<1>a. \E t \in {"core", "tier2"} : \E c \in ToSet(learnts[t]), Tiers \in T :
        pc = "vivify" /\ Simplify(c, Tiers)
  <2>1. CASE simplifyLearnt_core
    <3>1. pc = "vivify" /\ Untried("core") # <<>> /\ Simplify(Head(Untried("core")), {"core"})
      BY <2>1 DEF simplifyLearnt_core
    <3> DEFINE d == Head(Untried("core"))
    <3>2. d \in ToSet(learnts["core"]) /\ pc = "vivify" /\ Simplify(d, {"core"})
      BY <3>1, UntriedFacts DEF IInv
    <3> HIDE DEF d
    <3> QED
      BY <3>2
  <2>2. CASE simplifyLearnt_tier2
    <3>1. pc = "vivify" /\ Untried("tier2") # <<>> /\ Simplify(Head(Untried("tier2")), is_duplicate)
      BY <2>2 DEF simplifyLearnt_tier2
    <3> DEFINE d == Head(Untried("tier2"))
    <3>2. d \in ToSet(learnts["tier2"]) /\ pc = "vivify" /\ Simplify(d, is_duplicate)
          /\ is_duplicate \in SUBSET {"core", "tier2", "dropped"}
      BY <3>1, UntriedFacts DEF IInv, is_duplicate
    <3> HIDE DEF d
    <3> QED
      BY <3>2
  <2> QED
    BY <2>1, <2>2
<1>b. PICK t \in {"core", "tier2"} : \E c \in ToSet(learnts[t]), Tiers \in T :
        pc = "vivify" /\ Simplify(c, Tiers)
  BY <1>a
<1>1. PICK c \in ToSet(learnts[t]), Tiers \in T : pc = "vivify" /\ Simplify(c, Tiers)
  BY <1>b
<1>2. DbOK /\ Sound /\ ok
  BY <1>1 DEF IInv, ControlOK
<1>3. UNCHANGED <<given, assumptions>>
      /\ \/ UNCHANGED pc
         \/ ok' = FALSE /\ pc' = "idle" /\ last_result' = 20
  BY <1>1, <1>2, SimplifyCases DEF Forgets, Decides, StoresIn
<1>4. CASE UNCHANGED pc
  BY <1>1, <1>3, <1>4, QuietStep
<1>5. CASE ok' = FALSE /\ pc' = "idle" /\ last_result' = 20
  <2>1. Sound'
    BY <1>1, <1>2, SimplifyDb
  <2>2. ~Satisfiable(given, ToSet(assumptions))
    <3> SUFFICES ASSUME NEW m \in Assignments, Satisfies(m, given) PROVE FALSE
      BY DEF Satisfiable, Models
    <3>1. SoundFor(m)'
      BY <2>1 DEF Sound
    <3> QED
      BY <1>3, <1>5, <3>1 DEF SoundFor
  <2> QED
    BY <1>1, <1>3, <1>5, <2>2, AnswerStep
<1> QED
  BY <1>3, <1>4, <1>5

(* The other steps do not answer. *)
LEMMA OtherKeeps ==
  ASSUME Restart \/ simplifyAll \/ Learn \/ simplify \/ reduceDB_Tier2 \/ GiveUp \/ CallLs \/ Visit
           \/ Choose \/ StartSearch \/ SearchLocally
  PROVE  PromiseOver
<1>1. UNCHANGED <<given, assumptions>>
  BY DEF Restart, simplifyAll, Learn, simplify, reduceDB_Tier2, GiveUp, CallLs, Visit, Choose,
     StartSearch, SearchLocally, dbVars
<1>2. pc # "idle" /\ pc' # "idle"
  <2>1. CASE Restart \/ simplifyAll \/ GiveUp \/ CallLs \/ StartSearch
    BY <2>1 DEF Restart, simplifyAll, GiveUp, CallLs, StartSearch
  <2>2. CASE Learn \/ simplify \/ reduceDB_Tier2 \/ Visit \/ Choose \/ SearchLocally
    BY <2>2 DEF Learn, simplify, reduceDB_Tier2, Visit, Choose, SearchLocally
  <2> QED
    BY <2>1, <2>2
<1> QED
  BY <1>1, <1>2, QuietStep

(* Each step is one of the promise, or none. *)
LEMMA PromiseStep ==
  ASSUME IInv, [Next]_vars
  PROVE  [Promise!Next]_(Promise!vars)
<1>1. CASE UNCHANGED vars
  <2>1. UNCHANGED <<given, assumptions, pc, last_result>>
    BY <1>1 DEF vars, dbVars, resultVars
  <2>2. Answer' = Answer /\ ToSet(assumptions)' = ToSet(assumptions)
    BY <2>1 DEF Answer, ToSet
  <2> QED
    BY <2>1, <2>2 DEF Promise!vars
<1>2. CASE Next
  <2>1. PromiseOver
    BY <1>2, addKeeps, solveKeeps, SimplifyKeeps, FindModelKeeps, FindConflictKeeps, ReloadKeeps,
       OtherKeeps DEF Next
  <2> QED
    BY <2>1 DEF PromiseOver
<1> QED
  BY <1>1, <1>2

-----------------------------------------------------------------------------
(* The inductive invariant: among others, after each step of either search
   the clauses kept, the facts and the learnt clauses together have the
   models of what the user gave, and the local search runs on the instance
   they make. *)
THEOREM Invariant == Spec => []IInv
<1>1. Init => IInv
  BY InitInv
<1>2. IInv /\ [Next]_vars => IInv'
  BY NextInv
<1> QED
  BY <1>1, <1>2, PTL DEF Spec

(* All values stay in their types, whatever the user calls. *)
THEOREM TypeCorrect == Spec => []TypeOK
<1>1. IInv => TypeOK
  BY TypeFollows
<1> QED
  BY <1>1, Invariant, PTL

(* During a local search sat_count, sat_var, the unsatisfied clauses and
   their variables are those that the solution makes (flip, unsat_a_clause
   and sat_a_clause of ccnr.cc). *)
THEOREM CountsCorrect == Spec => []CountsRight
<1>1. IInv => CountsRight
  BY CountsFollow DEF IInv, LocalOK
<1> QED
  BY <1>1, Invariant, PTL

(* The scores are what a flip would gain, and ccd_vars lists those
   variables that may be flipped with a gain, each once (flip and
   update_cc_after_flip). *)
THEOREM ScoresCorrect == Spec => []ScoresRight
<1>1. IInv => ScoresRight
  BY ScoresFollow DEF IInv, LocalOK
<1> QED
  BY <1>1, Invariant, PTL

(* The average weight and its remainder are those of the weights, though
   they are kept up step by step (update_clause_weights and
   smooth_clause_weights). *)
THEOREM AverageCorrect == Spec => []AverageExact
<1>1. IInv => AverageExact
  BY AverageFollows DEF IInv, LocalOK
<1> QED
  BY <1>1, Invariant, PTL

(* When the local search claims a solution the one taken back is a model of
   all that was given, and makes the assumptions true; and its cost is the
   one it is said to have (call_ls). *)
THEOREM SolutionsCorrect == Spec => []SolutionsRight
<1>1. IInv => SolutionsRight
  BY SolutionsFollow
<1> QED
  BY <1>1, Invariant, PTL

(* ipasir_solve implements IncrementalSat: each answer is right, whichever
   search found it and however many restarts, simplifications and local
   searches came before. *)
THEOREM PromiseKept == Spec => KeepsPromise
<1>1. Init => Promise!Init
  <2> SUFFICES ASSUME Init PROVE Promise!Init
    OBVIOUS
  <2>1. given = {} /\ Answer = "idle" /\ assumptions = <<>>
    BY DEF Init, Answer
  <2>2. ToSet(assumptions) = {}
    BY <2>1 DEF ToSet
  <2> QED
    BY <2>1, <2>2 DEF Promise!Init
<1>2. IInv /\ [Next]_vars => [Promise!Next]_(Promise!vars)
  BY PromiseStep
<1> QED
  BY <1>1, <1>2, Invariant, PTL DEF Spec, KeepsPromise
=============================================================================
