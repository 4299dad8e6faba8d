------------------------ MODULE EliminationTheorems -------------------------
(***************************************************************************)
(* About module Elimination: what its operations do to a database of       *)
(* clauses, that is which clauses are left, which variables they mention,  *)
(* what waits in the queue, and which models the database has before and   *)
(* after; then the invariant of the solver that follows, with its types    *)
(* and its lists of occurrences. It begins with what propagation finds: a  *)
(* closure has all that clauses force, and only what follows from them.    *)
(***************************************************************************)
EXTENDS Elimination, FiniteSetTheorems, SequenceTheorems, WellFoundedInduction, TLAPS

(* Induction over numbers comes from the theorems about folds. *)
Same_(ctx, x, k) == x
OneOf(s) == CHOOSE x \in s : TRUE
Steps == INSTANCE FoldTheorems WITH op <- Same_, pick <- OneOf

(* A set of naturals that has an element has a least one. *)
LEMMA Least ==
  \A B \in SUBSET Nat : B # {} => \E m \in B : \A k \in B : m <= k
<1> SUFFICES ASSUME NEW B \in SUBSET Nat, B # {}
             PROVE  \E m \in B : \A k \in B : m <= k
  OBVIOUS
<1> DEFINE R == OpToRel(<, Nat)
<1>1. \E n \in B : \A k \in B : ~(<<k, n>> \in R)
  <2>1. IsWellFoundedOn(R, Nat)
    BY NatLessThanWellFounded
  <2> QED
    BY <2>1, WFMin
<1>2. \A k, n \in Nat : k < n => <<k, n>> \in R
  BY DEF OpToRel
<1> HIDE DEF R
<1>3. PICK n \in B : \A k \in B : ~(<<k, n>> \in R)
  BY <1>1
<1>4. ASSUME NEW k \in B PROVE n <= k
  <2>1. ~(k < n)
    BY <1>2, <1>3
  <2> QED
    BY <2>1
<1> QED
  BY <1>4

(* Literals, and what follows from clauses. *)

(* Literals and assignments. *)
LEMMA LitFacts ==
  ASSUME NEW p \in Lits
  PROVE  /\ p \in Nat /\ Var(p) \in Vars /\ Neg(p) \in Lits /\ Var(Neg(p)) = Var(p)
         /\ Neg(Neg(p)) = p /\ Neg(p) # p /\ sign(p) \in {0, 1} /\ sign(Neg(p)) = 1 - sign(p)
BY NVarsAssumption DEF Lits, Vars, Var, Neg, sign

(* An assignment makes a literal or its negation true. *)
LEMMA MakesNeg ==
  ASSUME NEW p \in Lits, NEW m \in Assignments
  PROVE  Makes(m, Neg(p)) <=> ~Makes(m, p)
<1>1. /\ Var(p) \in Vars /\ Var(Neg(p)) = Var(p) /\ sign(p) \in {0, 1}
      /\ sign(Neg(p)) = 1 - sign(p)
  BY LitFacts
<1>2. m[Var(p)] \in BOOLEAN
  BY <1>1 DEF Assignments
<1>3. CASE sign(p) = 0
  <2>1. sign(Neg(p)) = 1
    BY <1>1, <1>3
  <2> QED
    BY <1>1, <1>2, <1>3, <2>1 DEF Makes
<1>4. CASE sign(p) = 1
  <2>1. sign(Neg(p)) = 0
    BY <1>1, <1>4
  <2> QED
    BY <1>1, <1>2, <1>4, <2>1 DEF Makes
<1> QED
  BY <1>1, <1>3, <1>4

(* Two literals of one variable are equal or contradict each other. *)
LEMMA SameVar ==
  ASSUME NEW p \in Lits, NEW q \in Lits, Var(p) = Var(q)
  PROVE  q = p \/ q = Neg(p)
BY NVarsAssumption DEF Lits, Var, Neg, sign

MakesAll(m, S) == \A p \in S : Makes(m, p)

(* It does not make both true. *)
LEMMA NoContradiction ==
  ASSUME NEW m \in Assignments, NEW S \in SUBSET Lits, MakesAll(m, S)
  PROVE  ~Contradicts(S)
BY MakesNeg DEF MakesAll, Contradicts

-----------------------------------------------------------------------------
(* The function that Closure defines by recursion. *)
Forced(cs, T) == {p \in UNION cs : \E c \in cs : p \in c /\ \A q \in c \ {p} : Neg(q) \in T}
NextClose(cs, f, T) == IF Forced(cs, T) \subseteq T THEN T ELSE f[T \cup Forced(cs, T)]
Closes(cs, f) == f = [T \in SUBSET Lits |-> NextClose(cs, f, T)]

(* Closure, by the function it is defined with. *)
LEMMA ClosureIs ==
  ASSUME NEW cs, NEW S
  PROVE  Closure(cs, S) = (CHOOSE f : Closes(cs, f))[S]
BY DEF Closure, Forced, NextClose, Closes

(* Sets of literals that all but at most m are in. *)
Near(m) == {T \in SUBSET Lits : Cardinality(Lits \ T) <= m}
ClosesNear(cs, m, f) == f = [T \in Near(m) |-> NextClose(cs, f, T)]

(* There are finitely many literals. *)
LEMMA LitsFinite ==
  ASSUME NEW T \in SUBSET Lits
  PROVE  /\ IsFiniteSet(T) /\ IsFiniteSet(Lits \ T) /\ Cardinality(Lits \ T) \in Nat
         /\ Cardinality(Lits \ T) <= Cardinality(Lits) /\ Cardinality(Lits) \in Nat
<1>1. IsFiniteSet(Lits)
  BY NVarsAssumption, FS_Interval DEF Lits
<1>2. Lits \ T \in SUBSET Lits
  OBVIOUS
<1>3. IsFiniteSet(T) /\ IsFiniteSet(Lits \ T) /\ Cardinality(Lits \ T) <= Cardinality(Lits)
  BY <1>1, <1>2, FS_Subset
<1> QED
  BY <1>1, <1>3, FS_CardinalityType

(* Each round of propagation leaves fewer literals that are not forced. *)
LEMMA Nearer ==
  ASSUME NEW cs \in SUBSET SUBSET Lits, NEW m \in Nat, NEW T \in Near(m), ~(Forced(cs, T) \subseteq T)
  PROVE  m > 0 /\ T \cup Forced(cs, T) \in Near(m - 1)
<1> DEFINE U == T \cup Forced(cs, T)
           A == Lits \ T
           B == Lits \ U
<1>1. T \in SUBSET Lits /\ Cardinality(A) <= m
  BY DEF Near
<1>2. U \in SUBSET Lits
  BY <1>1 DEF Forced
<1>3. B \subseteq A /\ B # A
  <2>1. PICK p \in Forced(cs, T) : p \notin T
    OBVIOUS
  <2>2. p \in U /\ p \in Lits
    BY <1>2, <2>1
  <2> QED
    BY <2>1, <2>2
<1>4. IsFiniteSet(A) /\ Cardinality(A) \in Nat /\ Cardinality(B) \in Nat
  BY <1>1, <1>2, LitsFinite
<1> HIDE DEF A, U
<1> DEFINE a == Cardinality(A)
           b == Cardinality(B)
<1>5. b < a
  <2> HIDE DEF B
  <2>1. Cardinality(B) <= Cardinality(A) /\ (Cardinality(B) = Cardinality(A) => B = A)
    BY <1>3, <1>4, FS_Subset
  <2> QED
    BY <1>3, <1>4, <2>1
<1>6. b <= m - 1 /\ m > 0
  <2>1. a \in Nat /\ b \in Nat /\ a <= m
    BY <1>1, <1>4
  <2> HIDE DEF a, b
  <2> QED
    BY <1>5, <2>1
<1> QED
  BY <1>2, <1>6 DEF Near, U

(* So propagation ends: the recursive function of Closure exists. *)
LEMMA CloseExists ==
  ASSUME NEW cs \in SUBSET SUBSET Lits
  PROVE  \E f : Closes(cs, f)
<1> DEFINE n == Cardinality(Lits)
           G == {m \in 0 .. n : \E f : ClosesNear(cs, m, f)}
<1>1. n \in Nat
  BY LitsFinite
<1> HIDE DEF n
<1>2. 0 \in G
  <2> DEFINE f == [T \in Near(0) |-> T]
  <2>1. ASSUME NEW T \in Near(0) PROVE NextClose(cs, f, T) = T
    <3>1. Forced(cs, T) \subseteq T
      <4>1. SUFFICES ASSUME ~(Forced(cs, T) \subseteq T) PROVE FALSE
        OBVIOUS
      <4>2. 0 > 0
        BY <4>1, Nearer
      <4> QED
        BY <4>2
    <3> QED
      BY <3>1 DEF NextClose
  <2>2. f = [T \in Near(0) |-> NextClose(cs, f, T)]
    <3> HIDE DEF f
    <3>1. f = [T \in Near(0) |-> T]
      BY DEF f
    <3> QED
      BY <2>1, <3>1
  <2> HIDE DEF f
  <2> QED
    BY <1>1, <2>2 DEF ClosesNear
<1>3. ASSUME NEW m \in 1 .. n, m - 1 \in G PROVE m \in G
  <2>1. PICK f : ClosesNear(cs, m - 1, f)
    BY <1>3
  <2> DEFINE g == [T \in Near(m) |-> NextClose(cs, f, T)]
  <2>2. m \in Nat /\ m \in 0 .. n
    BY <1>1
  <2>3. \A T \in Near(m - 1) : T \in Near(m) /\ f[T] = NextClose(cs, f, T)
    <3>1. ASSUME NEW T \in Near(m - 1) PROVE T \in Near(m)
      <4>1. T \in SUBSET Lits /\ Cardinality(Lits \ T) <= m - 1
        BY DEF Near
      <4>2. Cardinality(Lits \ T) \in Nat
        BY <4>1, LitsFinite
      <4>3. Cardinality(Lits \ T) <= m
        BY <2>2, <4>1, <4>2
      <4> QED
        BY <4>1, <4>3 DEF Near
    <3>2. f = [T \in Near(m - 1) |-> NextClose(cs, f, T)]
      BY <2>1 DEF ClosesNear
    <3> QED
      BY <3>1, <3>2
  <2>4. \A T \in Near(m - 1) : g[T] = f[T]
    BY <2>3
  <2>5. ASSUME NEW T \in Near(m) PROVE NextClose(cs, g, T) = NextClose(cs, f, T)
    <3>1. CASE Forced(cs, T) \subseteq T
      BY <3>1 DEF NextClose
    <3>2. CASE ~(Forced(cs, T) \subseteq T)
      <4>1. T \cup Forced(cs, T) \in Near(m - 1)
        BY <2>2, <3>2, Nearer
      <4>2. g[T \cup Forced(cs, T)] = f[T \cup Forced(cs, T)]
        BY <2>4, <4>1
      <4> HIDE DEF g
      <4> QED
        BY <4>2 DEF NextClose
    <3> QED
      BY <3>1, <3>2
  <2>6. g = [T \in Near(m) |-> NextClose(cs, f, T)]
    OBVIOUS
  <2> HIDE DEF g
  <2>7. g = [T \in Near(m) |-> NextClose(cs, g, T)]
    BY <2>5, <2>6
  <2> QED
    BY <2>2, <2>7 DEF ClosesNear
<1> HIDE DEF G
<1>4. n \in G
  BY <1>1, <1>2, <1>3, Least, Steps!Climb
<1>5. Near(n) = SUBSET Lits
  BY LitsFinite DEF Near, n
<1> QED
  BY <1>4, <1>5 DEF G, ClosesNear, Closes

-----------------------------------------------------------------------------
(* What holds of a set of literals, and of it with all that is forced, holds
   of its closure. *)
Respects(cs, Q) == \A T \in SUBSET Lits : T \in Q => T \cup Forced(cs, T) \in Q

(* What holds of the literals assumed, and survives each round, holds of
   all that follow. *)
LEMMA ClosureIn ==
  ASSUME NEW cs \in SUBSET SUBSET Lits, NEW S \in SUBSET Lits, NEW Q, S \in Q, Respects(cs, Q)
  PROVE  Closure(cs, S) \in Q
<1> DEFINE f == CHOOSE f : Closes(cs, f)
           n == Cardinality(Lits)
           G == {m \in 0 .. n : \A T \in Near(m) : T \in Q => f[T] \in Q}
<1>1. Closes(cs, f)
  BY CloseExists
<1>2. Closure(cs, S) = f[S]
  BY ClosureIs
<1> HIDE DEF f
<1>3. n \in Nat
  BY LitsFinite
<1> HIDE DEF n
<1>4. ASSUME NEW T \in SUBSET Lits PROVE f[T] = NextClose(cs, f, T)
  BY <1>1 DEF Closes
<1>5. ASSUME NEW m \in 0 .. n, NEW T \in Near(m), T \in Q,
             m > 0 => \A U \in Near(m - 1) : U \in Q => f[U] \in Q
      PROVE  f[T] \in Q
  <2>1. T \in SUBSET Lits /\ m \in Nat
    BY <1>3 DEF Near
  <2>2. CASE Forced(cs, T) \subseteq T
    <3>1. f[T] = T
      BY <1>4, <2>1, <2>2 DEF NextClose
    <3> QED
      BY <1>5, <3>1
  <2>3. CASE ~(Forced(cs, T) \subseteq T)
    <3> DEFINE U == T \cup Forced(cs, T)
    <3>1. m > 0 /\ U \in Near(m - 1)
      BY <2>1, <2>3, Nearer
    <3>2. U \in Q
      BY <1>5, <2>1 DEF Respects
    <3>3. f[T] = f[U]
      BY <1>4, <2>1, <2>3 DEF NextClose
    <3> HIDE DEF U
    <3> QED
      BY <1>5, <3>1, <3>2, <3>3
  <2> QED
    BY <2>2, <2>3
<1>6. 0 \in G
  <2>1. 0 \in 0 .. n /\ ~(0 > 0)
    BY <1>3
  <2>2. ASSUME NEW T \in Near(0), T \in Q PROVE f[T] \in Q
    BY <1>5, <2>1, <2>2
  <2> QED
    BY <2>1, <2>2
<1>7. ASSUME NEW m \in 1 .. n, m - 1 \in G PROVE m \in G
  <2>1. m \in 0 .. n
    BY <1>3
  <2>2. \A U \in Near(m - 1) : U \in Q => f[U] \in Q
    BY <1>7
  <2>3. ASSUME NEW T \in Near(m), T \in Q PROVE f[T] \in Q
    BY <1>5, <2>1, <2>2, <2>3
  <2> QED
    BY <2>1, <2>3
<1> HIDE DEF G
<1>8. n \in G
  BY <1>3, <1>6, <1>7, Least, Steps!Climb
<1>9. S \in Near(n)
  BY LitsFinite DEF Near, n
<1> QED
  BY <1>2, <1>8, <1>9 DEF G

(* The closure has what it begins with, adds literals of the clauses only,
   and what it adds follows. *)
LEMMA ClosureFacts ==
  ASSUME NEW cs \in SUBSET SUBSET Lits, NEW S \in SUBSET Lits
  PROVE  /\ S \subseteq Closure(cs, S) /\ Closure(cs, S) \subseteq S \cup UNION cs
         /\ \A m \in Assignments :
              Satisfies(m, cs) /\ MakesAll(m, S) => MakesAll(m, Closure(cs, S))
<1>1. S \subseteq Closure(cs, S) /\ Closure(cs, S) \subseteq S \cup UNION cs
  <2> DEFINE Q == {T \in SUBSET Lits : S \subseteq T /\ T \subseteq S \cup UNION cs}
  <2>1. S \in Q
    OBVIOUS
  <2>2. \A T \in SUBSET Lits : T \in Q => T \cup Forced(cs, T) \in Q
    BY DEF Forced
  <2> HIDE DEF Q
  <2>3. Closure(cs, S) \in Q
    BY <2>1, <2>2, ClosureIn DEF Respects
  <2> QED
    BY <2>3 DEF Q
<1>2. ASSUME NEW m \in Assignments, Satisfies(m, cs), MakesAll(m, S)
      PROVE  MakesAll(m, Closure(cs, S))
  <2> DEFINE Q == {T \in SUBSET Lits : MakesAll(m, T)}
  <2>1. S \in Q
    BY <1>2
  <2>2. ASSUME NEW T \in SUBSET Lits, T \in Q PROVE T \cup Forced(cs, T) \in Q
    <3>1. ASSUME NEW p \in Forced(cs, T) PROVE Makes(m, p) /\ p \in Lits
      <4>1. PICK c \in cs : p \in c /\ \A q \in c \ {p} : Neg(q) \in T
        BY <3>1 DEF Forced
      <4>2. PICK q \in c : Makes(m, q)
        BY <1>2 DEF Satisfies, SatisfiesClause
      <4>3. p \in Lits /\ q \in Lits
        BY <4>1, <4>2
      <4>4. ASSUME q # p PROVE FALSE
        <5>1. Makes(m, Neg(q))
          BY <2>2, <4>1, <4>2, <4>4 DEF MakesAll
        <5> QED
          BY <4>2, <4>3, <5>1, MakesNeg
      <4> QED
        BY <4>2, <4>3, <4>4
    <3> QED
      BY <2>2, <3>1 DEF MakesAll
  <2> HIDE DEF Q
  <2>3. Respects(cs, Q)
    BY <2>2 DEF Respects
  <2>4. Closure(cs, S) \in Q
    BY <2>1, <2>3, ClosureIn
  <2> QED
    BY <2>4 DEF Q
<1> QED
  BY <1>1, <1>2

(* Propagation ends when nothing is forced any more. *)
LEMMA ClosureClosed ==
  ASSUME NEW cs \in SUBSET SUBSET Lits, NEW S \in SUBSET Lits
  PROVE  Forced(cs, Closure(cs, S)) \subseteq Closure(cs, S)
<1> DEFINE f == CHOOSE f : Closes(cs, f)
           n == Cardinality(Lits)
           Ends(T) == Forced(cs, f[T]) \subseteq f[T]
           G == {m \in 0 .. n : \A T \in Near(m) : Ends(T)}
<1>1. Closes(cs, f)
  BY CloseExists
<1>2. Closure(cs, S) = f[S]
  BY ClosureIs
<1> HIDE DEF f
<1>3. n \in Nat
  BY LitsFinite
<1> HIDE DEF n
<1>4. ASSUME NEW T \in SUBSET Lits PROVE f[T] = NextClose(cs, f, T)
  BY <1>1 DEF Closes
<1>5. ASSUME NEW m \in 0 .. n, NEW T \in Near(m), m > 0 => \A U \in Near(m - 1) : Ends(U)
      PROVE  Ends(T)
  <2>1. T \in SUBSET Lits /\ m \in Nat
    BY <1>3 DEF Near
  <2>2. CASE Forced(cs, T) \subseteq T
    <3>1. f[T] = T
      BY <1>4, <2>1, <2>2 DEF NextClose
    <3> QED
      BY <2>2, <3>1
  <2>3. CASE ~(Forced(cs, T) \subseteq T)
    <3> DEFINE U == T \cup Forced(cs, T)
    <3>1. m > 0 /\ U \in Near(m - 1)
      BY <2>1, <2>3, Nearer
    <3>2. f[T] = f[U]
      BY <1>4, <2>1, <2>3 DEF NextClose
    <3> HIDE DEF U
    <3>3. Ends(U)
      BY <1>5, <3>1
    <3> QED
      BY <3>2, <3>3
  <2> QED
    BY <2>2, <2>3
<1> HIDE DEF Ends
<1>6. 0 \in G
  <2>1. 0 \in 0 .. n /\ ~(0 > 0)
    BY <1>3
  <2>2. ASSUME NEW T \in Near(0) PROVE Ends(T)
    BY <1>5, <2>1
  <2> QED
    BY <2>1, <2>2
<1>7. ASSUME NEW m \in 1 .. n, m - 1 \in G PROVE m \in G
  <2>1. m \in 0 .. n
    BY <1>3
  <2>2. \A U \in Near(m - 1) : Ends(U)
    BY <1>7
  <2>3. ASSUME NEW T \in Near(m) PROVE Ends(T)
    BY <1>5, <2>1, <2>2
  <2> QED
    BY <2>1, <2>3
<1> HIDE DEF G
<1>8. n \in G
  BY <1>3, <1>6, <1>7, Least, Steps!Climb
<1>9. S \in Near(n)
  BY LitsFinite DEF Near, n
<1> QED
  BY <1>2, <1>8, <1>9 DEF G, Ends

(* A set of literals that forces nothing new has every closure of its part. *)
LEMMA ClosureLeast ==
  ASSUME NEW cs \in SUBSET SUBSET Lits, NEW S \in SUBSET Lits, NEW M \in SUBSET Lits,
         S \subseteq M, Forced(cs, M) \subseteq M
  PROVE  Closure(cs, S) \subseteq M
<1> DEFINE Q == SUBSET M
<1>1. S \in Q
  OBVIOUS
<1>2. ASSUME NEW T \in SUBSET Lits, T \in Q PROVE T \cup Forced(cs, T) \in Q
  <2>1. Forced(cs, T) \subseteq Forced(cs, M)
    BY <1>2 DEF Forced
  <2> QED
    BY <1>2, <2>1
<1> HIDE DEF Q
<1>3. Closure(cs, S) \in Q
  BY <1>1, <1>2, ClosureIn DEF Respects
<1> QED
  BY <1>3 DEF Q

-----------------------------------------------------------------------------
(* References, lists and fields. *)

(* How many elements of a set of numbers are less than one of them. *)
Rank(S, x) == Cardinality({y \in S : y < x})

(* The rank of an element is less than that of a larger one. *)
LEMMA RankFacts ==
  ASSUME NEW S \in SUBSET Nat, IsFiniteSet(S), NEW x \in S
  PROVE  /\ Rank(S, x) \in Nat /\ Rank(S, x) < Cardinality(S)
         /\ \A y \in S : y < x => Rank(S, y) < Rank(S, x)
<1> DEFINE A(z) == {y \in S : y < z}
<1>1. ASSUME NEW z \in S PROVE IsFiniteSet(A(z)) /\ Cardinality(A(z)) \in Nat
  <2>1. A(z) \in SUBSET S
    OBVIOUS
  <2>2. IsFiniteSet(A(z))
    BY <2>1, FS_Subset
  <2> QED
    BY <2>2, FS_CardinalityType
<1>2. Cardinality(S) \in Nat
  BY FS_CardinalityType
<1>3. Rank(S, x) < Cardinality(S)
  <2>1. A(x) \in SUBSET S /\ A(x) # S
    <3>1. x \in Nat /\ ~(x < x)
      OBVIOUS
    <3> QED
      BY <3>1
  <2>2. Cardinality(A(x)) <= Cardinality(S) /\ (Cardinality(S) = Cardinality(A(x)) => S = A(x))
    <3>1. A(x) \in SUBSET S
      BY <2>1
    <3> HIDE DEF A
    <3> QED
      BY <3>1, FS_Subset
  <2>3. Cardinality(A(x)) \in Nat
    BY <1>1
  <2> DEFINE a == Cardinality(A(x))
  <2>4. a < Cardinality(S)
    <3> DEFINE n == Cardinality(S)
    <3>1. a \in Nat /\ n \in Nat /\ a <= n /\ n # a
      BY <1>2, <2>1, <2>2, <2>3
    <3> HIDE DEF a, n
    <3>2. a < n
      BY <3>1
    <3> QED
      BY <3>2 DEF n
  <2> QED
    BY <2>4 DEF Rank
<1>4. ASSUME NEW y \in S, y < x PROVE Rank(S, y) < Rank(S, x)
  <2>1. A(y) \in SUBSET A(x) /\ y \in A(x) /\ y \notin A(y)
    <3>1. \A z \in S : z < y => z < x
      <4>1. x \in Nat /\ y \in Nat /\ S \subseteq Nat
        OBVIOUS
      <4> QED
        BY <1>4, <4>1
    <3>2. \A z \in A(y) : z \in A(x)
      BY <3>1
    <3>3. y \in A(x)
      BY <1>4
    <3>4. ~(y < y)
      <4>1. y \in Nat
        OBVIOUS
      <4> QED
        BY <4>1
    <3>5. y \notin A(y)
      BY <3>4
    <3> HIDE DEF A
    <3> QED
      BY <3>2, <3>3, <3>5
  <2>2. IsFiniteSet(A(x)) /\ Cardinality(A(x)) \in Nat /\ Cardinality(A(y)) \in Nat
    BY <1>1
  <2>3. Cardinality(A(y)) <= Cardinality(A(x)) /\ (Cardinality(A(x)) = Cardinality(A(y)) => A(x) = A(y))
    <3> DEFINE a == A(x)
               b == A(y)
    <3>1. IsFiniteSet(a) /\ b \in SUBSET a
      BY <2>1, <2>2
    <3> HIDE DEF a, b
    <3>2. Cardinality(b) <= Cardinality(a) /\ (Cardinality(a) = Cardinality(b) => a = b)
      BY <3>1, FS_Subset
    <3> QED
      BY <3>2 DEF a, b
  <2>4. A(x) # A(y)
    BY <2>1
  <2> DEFINE a == Cardinality(A(x))
             b == Cardinality(A(y))
  <2>5. a \in Nat /\ b \in Nat /\ b <= a /\ a # b
    BY <2>2, <2>3, <2>4
  <2>6. Rank(S, y) = b /\ Rank(S, x) = a
    BY DEF Rank
  <2> HIDE DEF a, b
  <2> QED
    BY <2>5, <2>6
<1> QED
  BY <1>1, <1>3, <1>4 DEF Rank

(* InOrder has every element once, and nothing else. *)
LEMMA InOrderFacts ==
  ASSUME NEW S \in SUBSET Nat, IsFiniteSet(S)
  PROVE  /\ InOrder(S) \in Seq(S) /\ Len(InOrder(S)) = Cardinality(S) /\ Len(InOrder(S)) \in Nat
         /\ DOMAIN InOrder(S) = 1 .. Len(InOrder(S))
         /\ \A k \in 1 .. Len(InOrder(S)) : InOrder(S)[k] \in S
         /\ \A x \in S : \E k \in 1 .. Len(InOrder(S)) : InOrder(S)[k] = x
         /\ \A j, k \in 1 .. Len(InOrder(S)) : InOrder(S)[j] = InOrder(S)[k] => j = k
<1> DEFINE n == Cardinality(S)
           f == [x \in S |-> Rank(S, x) + 1]
           s == InOrder(S)
<1>1. n \in Nat
  BY FS_CardinalityType
<1>2. \A x \in S : Rank(S, x) \in Nat /\ Rank(S, x) < n
  BY RankFacts
<1>3. \A x, y \in S : y < x => Rank(S, y) < Rank(S, x)
  BY RankFacts
<1>4. f \in [S -> 1 .. n]
  <2> HIDE DEF n
  <2> QED
    BY <1>1, <1>2
<1>5. ASSUME NEW x \in S, NEW y \in S, Rank(S, x) = Rank(S, y) PROVE x = y
  <2>1. ~(x < y) /\ ~(y < x)
    <3>1. Rank(S, x) \in Nat /\ Rank(S, y) \in Nat
      BY <1>2
    <3> QED
      BY <1>3, <1>5, <3>1
  <2> QED
    BY <2>1
<1>6. \A x, y \in S : f[x] = f[y] => x = y
  <2>1. ASSUME NEW x \in S, NEW y \in S, f[x] = f[y] PROVE x = y
    <3>1. Rank(S, x) + 1 = Rank(S, y) + 1 /\ Rank(S, x) \in Nat /\ Rank(S, y) \in Nat
      BY <1>2, <2>1
    <3>2. Rank(S, x) = Rank(S, y)
      BY <3>1
    <3> QED
      BY <1>5, <3>2
  <2> QED
    BY <2>1
<1> HIDE DEF f, n
<1>7. f \in Injection(S, 1 .. n)
  BY <1>4, <1>6 DEF Injection, IsInjective
<1>8. IsFiniteSet(1 .. n) /\ Cardinality(1 .. n) = n
  BY <1>1, FS_Interval
<1>9. f \in Surjection(S, 1 .. n)
  BY <1>7, <1>8, FS_Injection DEF n
<1>10. ASSUME NEW k \in 1 .. n PROVE \E x \in S : Rank(S, x) = k - 1
  <2>1. PICK x \in S : f[x] = k
    BY <1>9 DEF Surjection
  <2>2. Rank(S, x) + 1 = k /\ Rank(S, x) \in Nat
    BY <1>2, <2>1 DEF f
  <2> QED
    BY <2>2
<1>11. s = [k \in 1 .. n |-> CHOOSE x \in S : Rank(S, x) = k - 1]
  BY DEF InOrder, Rank, n
<1>12. ASSUME NEW k \in 1 .. n PROVE s[k] \in S /\ Rank(S, s[k]) = k - 1
  <2>1. s[k] = CHOOSE x \in S : Rank(S, x) = k - 1
    BY <1>11
  <2> QED
    BY <1>10, <2>1
<1> HIDE DEF s
<1>13. s \in [1 .. n -> S]
  <2> DEFINE e(k) == CHOOSE x \in S : Rank(S, x) = k - 1
  <2>1. s = [k \in 1 .. n |-> e(k)]
    BY <1>11
  <2>2. \A k \in 1 .. n : e(k) \in S
    BY <1>10
  <2> HIDE DEF e
  <2> QED
    BY <2>1, <2>2
<1>14. s \in Seq(S) /\ Len(s) = n /\ DOMAIN s = 1 .. n
  BY <1>1, <1>13
<1>15. ASSUME NEW x \in S PROVE \E k \in 1 .. n : s[k] = x
  <2>1. Rank(S, x) \in Nat /\ Rank(S, x) < n
    BY <1>2
  <2>2. Rank(S, x) + 1 \in 1 .. n /\ (Rank(S, x) + 1) - 1 = Rank(S, x)
    BY <1>1, <2>1
  <2>3. s[Rank(S, x) + 1] = x
    BY <1>5, <1>12, <2>2
  <2> QED
    BY <2>2, <2>3
<1>16. ASSUME NEW j \in 1 .. n, NEW k \in 1 .. n, s[j] = s[k] PROVE j = k
  <2>1. j - 1 = k - 1
    BY <1>12, <1>16
  <2> QED
    BY <2>1
<1> QED
  BY <1>1, <1>12, <1>14, <1>15, <1>16 DEF s, n

(* Variables and literals are numbers. *)
LEMMA VarsFinite ==
  /\ Vars \in SUBSET Nat /\ IsFiniteSet(Vars)
  /\ \A S \in SUBSET Vars : IsFiniteSet(S) /\ S \in SUBSET Nat
  /\ Lits \in SUBSET Nat /\ IsFiniteSet(Lits)
  /\ \A S \in SUBSET Lits : IsFiniteSet(S) /\ S \in SUBSET Nat
<1>1. Vars \in SUBSET Nat /\ IsFiniteSet(Vars) /\ Lits \in SUBSET Nat
  BY NVarsAssumption, FS_Interval DEF Vars, Lits
<1>2. \A S \in SUBSET Vars : IsFiniteSet(S)
  BY <1>1, FS_Subset
<1>3. \A S \in SUBSET Lits : IsFiniteSet(S)
  BY LitsFinite
<1> QED
  BY <1>1, <1>2, <1>3

(* A finite set of numbers has a largest. *)
LEMMA MaxFacts ==
  ASSUME NEW S \in SUBSET Nat, IsFiniteSet(S), S # {}
  PROVE  Max(S) \in S /\ \A y \in S : Max(S) >= y
<1> DEFINE n == Cardinality(S)
           s == InOrder(S)
           B == {Cardinality(S) - Rank(S, x) : x \in S}
<1>1. \A x \in S : Rank(S, x) \in Nat /\ Rank(S, x) < n
  BY RankFacts
<1>2. n \in Nat
  BY FS_CardinalityType
<1>3. B \in SUBSET Nat /\ B # {}
  <2> HIDE DEF n
  <2>1. \A x \in S : n - Rank(S, x) \in Nat
    BY <1>1, <1>2
  <2> QED
    BY <2>1 DEF n
<1> HIDE DEF B
<1>4. PICK b \in B : \A c \in B : b <= c
  BY <1>3, Least
<1>5. PICK x \in S : b = n - Rank(S, x)
  BY <1>4 DEF B
<1>6. ASSUME NEW y \in S PROVE x >= y
  <2>1. n - Rank(S, x) <= n - Rank(S, y)
    BY <1>4, <1>5 DEF B
  <2>2. Rank(S, y) <= Rank(S, x)
    BY <1>1, <1>2, <2>1
  <2>3. x < y => Rank(S, x) < Rank(S, y)
    BY RankFacts
  <2>4. Rank(S, x) \in Nat /\ Rank(S, y) \in Nat
    BY <1>1
  <2> QED
    BY <2>2, <2>3, <2>4
<1> QED
  BY <1>6 DEF Max

(* The record of the database. *)
DbFields == {"ok", "ca", "learnts", "fixed", "unchecked", "occurs", "dirty", "n_occ", "touched",
             "queue", "elim_heap", "frozen", "eliminated", "elimclauses", "simp"}
Rec(d) == d = [f \in DbFields |-> d[f]]
(* t has the fields of d except those of N. *)
Same(t, d, N) == Rec(t) /\ \A f \in DbFields \ N : t[f] = d[f]

Entries == [lits : SUBSET Lits, removed : BOOLEAN]
Records == [lit : Lits, others : SUBSET Lits]

Memory(d) ==
  /\ IsFiniteSet(DOMAIN d.ca) /\ DOMAIN d.ca \in SUBSET CRefs
  /\ d.ca \in [DOMAIN d.ca -> Entries]
Values(d) ==
  /\ d.ok \in BOOLEAN /\ d.simp \in BOOLEAN
  /\ d.learnts \in SUBSET SUBSET Lits
  /\ d.fixed \in SUBSET Lits /\ ~Contradicts(d.fixed) /\ d.unchecked \in SUBSET d.fixed
  /\ d.touched \in SUBSET Vars /\ d.elim_heap \in SUBSET Vars /\ d.frozen \in SUBSET Vars
  /\ d.eliminated \in SUBSET Vars /\ d.elimclauses \in Seq(Records)
Lists_(d) ==
  /\ d.occurs \in [Vars -> SUBSET DOMAIN d.ca] /\ d.dirty \in SUBSET Vars
  /\ d.n_occ \in [Lits -> Nat] /\ d.queue \in Seq(DOMAIN d.ca)
DbType(d) == Rec(d) /\ Memory(d) /\ Values(d) /\ Lists_(d)

(* The live clauses that have a variable, or a literal. *)
Holding(d, v) == {cr \in Live(d) : v \in VarsOf(d.ca[cr].lits)}
Counted(d, p) == {cr \in Live(d) : p \in d.ca[cr].lits}

(* Live clauses are clauses: not units, and not always true. *)
Proper(d) == \A cr \in Live(d) : Cardinality(d.ca[cr].lits) > 1 /\ ~Contradicts(d.ca[cr].lits)
Listed(d) ==
  /\ \A v \in Vars : Lists(d, v) \subseteq Holding(d, v)
  /\ \A v \in Vars \ d.eliminated : Holding(d, v) \subseteq d.occurs[v]
  /\ \A v \in Vars \ d.dirty : d.occurs[v] \subseteq Live(d)
  /\ \A p \in Lits : d.n_occ[p] = Cardinality(Counted(d, p))
Good(d) == DbType(d) /\ Proper(d) /\ (d.simp => Listed(d))

(* The literals of a variable. *)
LEMMA MkLitFacts ==
  ASSUME NEW v \in Vars
  PROVE  /\ mkLit(v, 0) \in Lits /\ mkLit(v, 1) \in Lits
         /\ Var(mkLit(v, 0)) = v /\ Var(mkLit(v, 1)) = v
         /\ Neg(mkLit(v, 0)) = mkLit(v, 1) /\ Neg(mkLit(v, 1)) = mkLit(v, 0)
         /\ mkLit(v, 0) # mkLit(v, 1)
         /\ sign(mkLit(v, 0)) = 0 /\ sign(mkLit(v, 1)) = 1
         /\ \A p \in Lits : Var(p) = v <=> p = mkLit(v, 0) \/ p = mkLit(v, 1)
BY NVarsAssumption DEF Lits, Vars, mkLit, Var, Neg, sign

(* The variables of literals. *)
LEMMA VarsOfFacts ==
  ASSUME NEW c \in SUBSET Lits
  PROVE  /\ VarsOf(c) \in SUBSET Vars /\ \A p \in c : Var(p) \in VarsOf(c)
         /\ \A v \in VarsOf(c) : \E p \in c : Var(p) = v
         /\ \A v : v \in VarsOf(c) <=> \E p \in c : Var(p) = v
BY LitFacts DEF VarsOf

(* A finite set that is neither empty nor has one element has more. *)
LEMMA ManyFacts ==
  ASSUME NEW c \in SUBSET Lits
  PROVE  /\ IsFiniteSet(c) /\ Cardinality(c) \in Nat
         /\ c = {} <=> Cardinality(c) = 0
         /\ Cardinality(c) = 1 <=> \E p \in c : c = {p}
         /\ Cardinality(c) # 0 /\ Cardinality(c) # 1 => Cardinality(c) > 1
         /\ \A p \in c : Cardinality(c \ {p}) = Cardinality(c) - 1
<1>1. IsFiniteSet(c)
  BY VarsFinite
<1>2. Cardinality(c) \in Nat
  BY <1>1, FS_CardinalityType
<1>3. c = {} <=> Cardinality(c) = 0
  BY <1>1, FS_EmptySet
<1>4. Cardinality(c) = 1 <=> \E p : c = {p}
  BY <1>1, FS_Singleton
<1>5. \A p \in c : Cardinality(c \ {p}) = Cardinality(c) - 1
  BY <1>1, FS_RemoveElement
<1> QED
  BY <1>1, <1>2, <1>3, <1>4, <1>5

(* Sets of references are finite. *)
LEMMA RefsFinite ==
  ASSUME NEW d, Memory(d), NEW S \in SUBSET DOMAIN d.ca
  PROVE  /\ IsFiniteSet(S) /\ S \in SUBSET Nat /\ Cardinality(S) \in Nat
<1>1. IsFiniteSet(S)
  BY FS_Subset DEF Memory
<1>2. S \in SUBSET Nat
  BY DEF Memory, CRefs
<1> QED
  BY <1>1, <1>2, FS_CardinalityType

(* The clause a reference stands for. *)
LEMMA EntryFacts ==
  ASSUME NEW d, Memory(d), NEW cr \in DOMAIN d.ca
  PROVE  /\ d.ca[cr] \in Entries /\ d.ca[cr].lits \in SUBSET Lits /\ d.ca[cr].removed \in BOOLEAN
         /\ cr \in Nat \ {0} /\ (cr \in Live(d) <=> ~d.ca[cr].removed)
         /\ d.ca[cr] = [lits |-> d.ca[cr].lits, removed |-> d.ca[cr].removed]
         /\ VarsOf(d.ca[cr].lits) \in SUBSET Vars
<1>1. d.ca[cr] \in Entries
  BY DEF Memory
<1>2. d.ca[cr].lits \in SUBSET Lits
  BY <1>1, SMTT(30) DEF Entries
<1> QED
  BY <1>1, <1>2, VarsOfFacts DEF Memory, CRefs, Live, Entries

-----------------------------------------------------------------------------
(* Single fields. *)

(* A record in which a field got another value. *)
LEMMA FieldFacts ==
  ASSUME NEW d, Rec(d), NEW x
  PROVE  /\ Same([d EXCEPT !.ok = x], d, {"ok"}) /\ [d EXCEPT !.ok = x].ok = x
         /\ Same([d EXCEPT !.ca = x], d, {"ca"}) /\ [d EXCEPT !.ca = x].ca = x
         /\ Same([d EXCEPT !.learnts = x], d, {"learnts"}) /\ [d EXCEPT !.learnts = x].learnts = x
         /\ Same([d EXCEPT !.fixed = x], d, {"fixed"}) /\ [d EXCEPT !.fixed = x].fixed = x
         /\ Same([d EXCEPT !.unchecked = x], d, {"unchecked"}) /\ [d EXCEPT !.unchecked = x].unchecked = x
         /\ Same([d EXCEPT !.touched = x], d, {"touched"}) /\ [d EXCEPT !.touched = x].touched = x
         /\ Same([d EXCEPT !.queue = x], d, {"queue"}) /\ [d EXCEPT !.queue = x].queue = x
         /\ Same([d EXCEPT !.elim_heap = x], d, {"elim_heap"}) /\ [d EXCEPT !.elim_heap = x].elim_heap = x
         /\ Same([d EXCEPT !.frozen = x], d, {"frozen"}) /\ [d EXCEPT !.frozen = x].frozen = x
         /\ Same([d EXCEPT !.eliminated = x], d, {"eliminated"}) /\ [d EXCEPT !.eliminated = x].eliminated = x
<1>1. d = [f \in DbFields |-> d[f]]
  BY DEF Rec
<1> QED
  BY <1>1, ZenonT(60) DEF Same, Rec, DbFields

(* The same for the heap alone. *)
LEMMA HeapField ==
  ASSUME NEW d, Rec(d), NEW x
  PROVE  Same([d EXCEPT !.elim_heap = x], d, {"elim_heap"}) /\ [d EXCEPT !.elim_heap = x].elim_heap = x
BY FieldFacts, ZenonT(60)

(* What is good about a database, field by field. *)
LEMMA SameGood ==
  ASSUME NEW d, Good(d), NEW t, Same(t, d, {"ok", "touched", "elim_heap", "frozen"}),
         t.ok \in BOOLEAN, t.touched \in SUBSET Vars, t.elim_heap \in SUBSET Vars, t.frozen \in SUBSET Vars
  PROVE  Good(t) /\ Live(t) = Live(d) /\ \A v \in Vars : Lists(t, v) = Lists(d, v)
<1>1. /\ t.ca = d.ca /\ t.learnts = d.learnts /\ t.fixed = d.fixed /\ t.unchecked = d.unchecked
      /\ t.occurs = d.occurs /\ t.dirty = d.dirty /\ t.n_occ = d.n_occ /\ t.queue = d.queue
      /\ t.eliminated = d.eliminated /\ t.elimclauses = d.elimclauses /\ t.simp = d.simp /\ Rec(t)
  BY DEF Same, DbFields
<1>2. Live(t) = Live(d) /\ \A v : Lists(t, v) = Lists(d, v)
  BY <1>1 DEF Live, Lists
<1>3. \A v : Holding(t, v) = Holding(d, v) /\ Counted(t, v) = Counted(d, v)
  BY <1>1, <1>2 DEF Holding, Counted
<1>4. DbType(t)
  BY <1>1 DEF Good, DbType, Memory, Values, Lists_
<1>5. Proper(t)
  BY <1>1, <1>2 DEF Good, Proper
<1>6. t.simp => Listed(t)
  BY <1>1, <1>2, <1>3 DEF Good, Listed
<1> QED
  BY <1>2, <1>4, <1>5, <1>6 DEF Good

(* updateElimHeap changes the heap only. *)
LEMMA HeapFacts ==
  ASSUME NEW d, Good(d), NEW vs, vs \in SUBSET Vars
  PROVE  /\ Good(updateElimHeap(d, vs)) /\ Same(updateElimHeap(d, vs), d, {"elim_heap"})
         /\ Live(updateElimHeap(d, vs)) = Live(d)
<1> DEFINE t == updateElimHeap(d, vs)
           x == d.elim_heap \cup {v \in vs : Eliminable(d, v)}
<1>1. Rec(d) /\ d.elim_heap \in SUBSET Vars /\ d.ok \in BOOLEAN /\ d.touched \in SUBSET Vars
      /\ d.frozen \in SUBSET Vars
  BY DEF Good, DbType, Values
<1>2. t = [d EXCEPT !.elim_heap = x]
  BY DEF updateElimHeap
<1>3. x \in SUBSET Vars
  BY <1>1
<1> HIDE DEF x, t
<1>4. Same(t, d, {"elim_heap"}) /\ t.elim_heap = x
  <2>1. Same([d EXCEPT !.elim_heap = x], d, {"elim_heap"}) /\ [d EXCEPT !.elim_heap = x].elim_heap = x
    BY <1>1, HeapField
  <2> QED
    BY <1>2, <2>1
<1>5. Same(t, d, {"ok", "touched", "elim_heap", "frozen"}) /\ t.ok = d.ok /\ t.touched = d.touched
      /\ t.frozen = d.frozen
  BY <1>4 DEF Same, DbFields
<1>6. Good(t) /\ Live(t) = Live(d)
  BY <1>1, <1>3, <1>4, <1>5, SameGood
<1> QED
  BY <1>4, <1>6 DEF t

(* What is good stays so when only the list of a variable is cleaned. *)
LEMMA LookupFacts ==
  ASSUME NEW d, Good(d), NEW v \in Vars
  PROVE  /\ Good(lookup(d, v)) /\ Same(lookup(d, v), d, {"occurs", "dirty"})
         /\ Live(lookup(d, v)) = Live(d)
         /\ \A u \in Vars : Lists(lookup(d, v), u) = Lists(d, u)
         /\ d.simp => lookup(d, v).occurs[v] = Lists(d, v) /\ lookup(d, v).occurs[v] \in SUBSET Live(d)
<1> DEFINE t == lookup(d, v)
           o == [d.occurs EXCEPT ![v] = Lists(d, v)]
<1>0. Rec(d) /\ Memory(d) /\ Values(d) /\ Lists_(d)
  BY DEF Good, DbType
<1>1. Lists(d, v) \in SUBSET Live(d) /\ Live(d) \in SUBSET DOMAIN d.ca /\ Lists(d, v) \in SUBSET d.occurs[v]
  BY <1>0 DEF Lists, Live, Lists_
<1>2. CASE v \notin d.dirty
  <2>1. t = d
    BY <1>2 DEF lookup
  <2>2. d.simp => d.occurs[v] = Lists(d, v)
    BY <1>2 DEF Good, Listed, Lists, Live
  <2>3. Same(d, d, {"occurs", "dirty"})
    BY <1>0 DEF Same
  <2> QED
    BY <1>1, <2>1, <2>2, <2>3
<1>3. CASE v \in d.dirty
  <2>1. t = [d EXCEPT !.occurs[v] = Lists(d, v), !.dirty = @ \ {v}]
    BY <1>3 DEF lookup
  <2>2. Same(t, d, {"occurs", "dirty"}) /\ t.occurs = o /\ t.dirty = d.dirty \ {v}
    <3>1. d = [f \in DbFields |-> d[f]]
      BY <1>0 DEF Rec
    <3> QED
      BY <2>1, <3>1 DEF Same, Rec, DbFields
  <2> HIDE DEF t
  <2>3. /\ t.ca = d.ca /\ t.learnts = d.learnts /\ t.fixed = d.fixed /\ t.unchecked = d.unchecked
        /\ t.ok = d.ok /\ t.touched = d.touched /\ t.elim_heap = d.elim_heap /\ t.frozen = d.frozen
        /\ t.n_occ = d.n_occ /\ t.queue = d.queue
        /\ t.eliminated = d.eliminated /\ t.elimclauses = d.elimclauses /\ t.simp = d.simp /\ Rec(t)
    BY <2>2 DEF Same, DbFields
  <2>4. o \in [Vars -> SUBSET DOMAIN d.ca] /\ o[v] = Lists(d, v) /\ \A u \in Vars : u # v => o[u] = d.occurs[u]
    BY <1>0, <1>1 DEF Lists_
  <2> HIDE DEF o
  <2>5. Live(t) = Live(d)
    BY <2>3 DEF Live
  <2>6. ASSUME NEW u \in Vars PROVE Lists(t, u) = Lists(d, u)
    <3>1. CASE u = v
      BY <2>2, <2>3, <2>4, <3>1 DEF Lists
    <3>2. CASE u # v
      BY <2>2, <2>3, <2>4, <3>2 DEF Lists
    <3> QED
      BY <3>1, <3>2
  <2>7. \A u : Holding(t, u) = Holding(d, u) /\ Counted(t, u) = Counted(d, u)
    BY <2>3, <2>5 DEF Holding, Counted
  <2>8. DbType(t)
    BY <1>0, <2>2, <2>3, <2>4 DEF DbType, Memory, Values, Lists_
  <2>9. Proper(t)
    BY <2>3, <2>5 DEF Good, Proper
  <2>10. ASSUME t.simp PROVE Listed(t)
    <3>1. Listed(d)
      BY <2>3, <2>10 DEF Good
    <3>2. \A u \in Vars : Lists(t, u) \subseteq Holding(t, u)
      BY <2>6, <2>7, <3>1 DEF Listed
    <3>3. ASSUME NEW u \in Vars \ t.eliminated PROVE Holding(t, u) \subseteq t.occurs[u]
      <4>1. Holding(d, u) \subseteq d.occurs[u] /\ Holding(t, u) = Holding(d, u)
        BY <2>3, <2>7, <3>1, <3>3 DEF Listed
      <4>2. Holding(d, u) \subseteq Lists(d, u)
        BY <4>1 DEF Holding, Lists, Live
      <4> QED
        BY <2>2, <2>4, <4>1, <4>2
    <3>4. ASSUME NEW u \in Vars \ t.dirty PROVE t.occurs[u] \subseteq Live(t)
      <4>1. CASE u = v
        BY <1>1, <2>2, <2>4, <2>5, <4>1
      <4>2. CASE u # v
        <5>1. u \in Vars \ d.dirty
          BY <2>2, <3>4, <4>2
        <5> QED
          BY <2>2, <2>4, <2>5, <3>1, <4>2, <5>1 DEF Listed
      <4> QED
        BY <4>1, <4>2
    <3>5. \A p \in Lits : t.n_occ[p] = Cardinality(Counted(t, p))
      BY <2>3, <2>7, <3>1 DEF Listed
    <3> QED
      BY <3>2, <3>3, <3>4, <3>5 DEF Listed
  <2> QED
    BY <1>1, <2>2, <2>4, <2>5, <2>6, <2>8, <2>9, <2>10 DEF Good, t
<1> QED
  BY <1>2, <1>3

-----------------------------------------------------------------------------
(* Clauses that are removed. *)
Flagged(ca, crs) == [cr \in DOMAIN ca |-> [ca[cr] EXCEPT !.removed = @ \/ cr \in crs]]

(* removeClause marks the clauses crs as removed and leaves their literals. *)
LEMMA FlaggedFacts ==
  ASSUME NEW d, Memory(d), NEW crs
  PROVE  /\ Flagged(d.ca, crs) \in [DOMAIN d.ca -> Entries] /\ DOMAIN Flagged(d.ca, crs) = DOMAIN d.ca
         /\ \A cr \in DOMAIN d.ca : /\ Flagged(d.ca, crs)[cr].lits = d.ca[cr].lits
                                    /\ Flagged(d.ca, crs)[cr].removed <=> d.ca[cr].removed \/ cr \in crs
<1>1. ASSUME NEW cr \in DOMAIN d.ca
      PROVE  /\ Flagged(d.ca, crs)[cr] = [lits |-> d.ca[cr].lits, removed |-> (d.ca[cr].removed \/ cr \in crs)]
             /\ Flagged(d.ca, crs)[cr] \in Entries
  <2>1. d.ca[cr] = [lits |-> d.ca[cr].lits, removed |-> d.ca[cr].removed] /\ d.ca[cr].lits \in SUBSET Lits
    BY EntryFacts
  <2>2. Flagged(d.ca, crs)[cr] = [d.ca[cr] EXCEPT !.removed = @ \/ cr \in crs]
    BY DEF Flagged
  <2>3. [d.ca[cr] EXCEPT !.removed = @ \/ cr \in crs] = [lits |-> d.ca[cr].lits, removed |-> (d.ca[cr].removed \/ cr \in crs)]
    BY <2>1
  <2> QED
    BY <2>1, <2>2, <2>3 DEF Entries
<1>2. DOMAIN Flagged(d.ca, crs) = DOMAIN d.ca
  BY DEF Flagged
<1>3. Flagged(d.ca, crs) = [cr \in DOMAIN d.ca |-> Flagged(d.ca, crs)[cr]]
  BY DEF Flagged
<1>4. Flagged(d.ca, crs) \in [DOMAIN d.ca -> Entries]
  <2> DEFINE F == Flagged(d.ca, crs)
  <2>1. F = [cr \in DOMAIN d.ca |-> F[cr]] /\ \A cr \in DOMAIN d.ca : F[cr] \in Entries
    BY <1>1, <1>3
  <2> HIDE DEF F
  <2>2. F \in [DOMAIN d.ca -> Entries]
    BY <2>1
  <2> QED
    BY <2>2 DEF F
<1>5. ASSUME NEW cr \in DOMAIN d.ca
      PROVE  /\ Flagged(d.ca, crs)[cr].lits = d.ca[cr].lits
             /\ Flagged(d.ca, crs)[cr].removed <=> d.ca[cr].removed \/ cr \in crs
  <2> DEFINE F == Flagged(d.ca, crs)[cr]
             r == d.ca[cr].removed \/ cr \in crs
  <2>1. F = [lits |-> d.ca[cr].lits, removed |-> r]
    BY <1>1
  <2> HIDE DEF F, r
  <2>2. F.lits = d.ca[cr].lits /\ F.removed = r
    BY <2>1
  <2> QED
    BY <2>2 DEF F, r
<1> QED
  BY <1>2, <1>4, <1>5

(* How many clauses with a literal are left. *)
LEMMA CountRemoved ==
  ASSUME NEW d, Memory(d), NEW crs, crs \in SUBSET Live(d), NEW p
  PROVE  LET gone == {cr \in crs : p \in d.ca[cr].lits} IN
         /\ Cardinality(Counted(d, p)) - Cardinality(gone) = Cardinality(Counted(d, p) \ crs)
         /\ Cardinality(Counted(d, p) \ crs) \in Nat
<1> DEFINE gone == {cr \in crs : p \in d.ca[cr].lits}
           all == Counted(d, p)
<1>1. all \in SUBSET DOMAIN d.ca /\ gone = all \cap crs
  BY DEF Counted, Live
<1>2. IsFiniteSet(all)
  BY <1>1, RefsFinite
<1> HIDE DEF gone, all
<1>3. IsFiniteSet(all \ crs) /\ Cardinality(all \ crs) = Cardinality(all) - Cardinality(all \cap crs)
  BY <1>2, FS_Difference
<1>4. Cardinality(all \ crs) \in Nat
  BY <1>3, FS_CardinalityType
<1> QED
  BY <1>1, <1>3, <1>4 DEF gone, all

(* The parts of a database whose clauses lost crs. *)
TouchedBy(d, crs) == UNION {VarsOf(d.ca[cr].lits) : cr \in crs}
Struck(d, crs, t) ==
  /\ Same(t, d, {"ca", "dirty", "n_occ", "elim_heap"}) /\ t.ca = Flagged(d.ca, crs)
  /\ t.dirty \in SUBSET Vars /\ t.n_occ \in [Lits -> Nat] /\ t.elim_heap = d.elim_heap
  /\ d.simp => /\ t.dirty = d.dirty \cup TouchedBy(d, crs)
               /\ \A p \in Lits : t.n_occ[p] = Cardinality(Counted(d, p) \ crs)
(* t has the live clauses of d except crs. *)
Fewer(d, crs, t) ==
  /\ Live(t) = Live(d) \ crs /\ DOMAIN t.ca = DOMAIN d.ca
  /\ \A cr \in DOMAIN d.ca : t.ca[cr].lits = d.ca[cr].lits
  /\ \A v \in Vars : Lists(t, v) = Lists(d, v) \ crs

(* Whatever else removeClause does to the clauses crs, the database stays
   good and has lost them. *)
LEMMA FlaggedGood ==
  ASSUME NEW d, Good(d), NEW crs, crs \in SUBSET Live(d), NEW t, Struck(d, crs, t)
  PROVE  Good(t) /\ Fewer(d, crs, t)
<1>0. Rec(d) /\ Memory(d) /\ Values(d) /\ Lists_(d)
  BY DEF Good, DbType
<1>1. /\ t.learnts = d.learnts /\ t.fixed = d.fixed /\ t.unchecked = d.unchecked
      /\ t.ok = d.ok /\ t.touched = d.touched /\ t.frozen = d.frozen
      /\ t.queue = d.queue /\ t.occurs = d.occurs
      /\ t.eliminated = d.eliminated /\ t.elimclauses = d.elimclauses /\ t.simp = d.simp /\ Rec(t)
  BY DEF Struck, Same, DbFields
<1>2. /\ t.ca \in [DOMAIN d.ca -> Entries] /\ DOMAIN t.ca = DOMAIN d.ca
      /\ \A cr \in DOMAIN d.ca : t.ca[cr].lits = d.ca[cr].lits
      /\ \A cr \in DOMAIN d.ca : t.ca[cr].removed <=> d.ca[cr].removed \/ cr \in crs
  <2> DEFINE F == Flagged(d.ca, crs)
  <2>1. /\ F \in [DOMAIN d.ca -> Entries] /\ DOMAIN F = DOMAIN d.ca
        /\ \A cr \in DOMAIN d.ca : F[cr].lits = d.ca[cr].lits /\ (F[cr].removed <=> d.ca[cr].removed \/ cr \in crs)
    BY <1>0, FlaggedFacts
  <2>2. t.ca = F
    BY DEF Struck
  <2> HIDE DEF F
  <2> QED
    BY <2>1, <2>2
<1>3. Live(t) = Live(d) \ crs
  BY <1>2 DEF Live
<1>4. ASSUME NEW v \in Vars PROVE Lists(t, v) = Lists(d, v) \ crs
  <2>1. d.occurs[v] \in SUBSET DOMAIN d.ca
    BY <1>0 DEF Lists_
  <2> QED
    BY <1>1, <1>2, <2>1 DEF Lists
<1>5. DbType(t)
  BY <1>0, <1>1, <1>2 DEF Struck, DbType, Memory, Values, Lists_
<1>6. Proper(t)
  BY <1>2, <1>3 DEF Good, Proper, Live
<1>7. \A v : Holding(t, v) = Holding(d, v) \ crs /\ Counted(t, v) = Counted(d, v) \ crs
  BY <1>2, <1>3 DEF Holding, Counted, Live
<1>8. ASSUME t.simp PROVE Listed(t)
  <2>1. Listed(d)
    BY <1>1, <1>8 DEF Good
  <2>2. \A v \in Vars : Lists(t, v) \subseteq Holding(t, v)
    BY <1>4, <1>7, <2>1 DEF Listed
  <2>3. \A v \in Vars \ t.eliminated : Holding(t, v) \subseteq t.occurs[v]
    BY <1>1, <1>7, <2>1 DEF Listed
  <2>4. ASSUME NEW v \in Vars \ t.dirty, NEW cr \in t.occurs[v] PROVE cr \in Live(t)
    <3>1. v \notin d.dirty /\ \A e \in crs : v \notin VarsOf(d.ca[e].lits)
      BY <1>1, <1>8, <2>4 DEF Struck, TouchedBy
    <3>2. cr \in Live(d) /\ cr \in Lists(d, v)
      BY <1>1, <2>1, <2>4, <3>1 DEF Listed, Lists, Live
    <3>3. v \in VarsOf(d.ca[cr].lits)
      BY <2>1, <3>2 DEF Listed, Holding
    <3> QED
      BY <1>3, <3>1, <3>2, <3>3
  <2>5. \A p \in Lits : t.n_occ[p] = Cardinality(Counted(t, p))
    BY <1>1, <1>7, <1>8 DEF Struck
  <2> QED
    BY <2>2, <2>3, <2>4, <2>5 DEF Listed
<1> QED
  BY <1>2, <1>3, <1>4, <1>5, <1>6, <1>8 DEF Good, Fewer

(* removeClauses. *)
LEMMA RemoveFacts ==
  ASSUME NEW d, Good(d), NEW crs, crs \in SUBSET Live(d)
  PROVE  /\ Good(removeClauses(d, crs)) /\ Fewer(d, crs, removeClauses(d, crs))
         /\ Same(removeClauses(d, crs), d, {"ca", "dirty", "n_occ", "elim_heap"})
<1> DEFINE t == removeClauses(d, crs)
           tv == TouchedBy(d, crs)
           gone(p) == Cardinality({cr \in crs : p \in d.ca[cr].lits})
           count == [p \in Lits |-> d.n_occ[p] - gone(p)]
           r == [d EXCEPT !.ca = Flagged(d.ca, crs)]
           m == [r EXCEPT !.dirty = @ \cup tv, !.n_occ = count]
<1>0. Rec(d) /\ Memory(d) /\ Values(d) /\ Lists_(d)
  BY DEF Good, DbType
<1>1. Same(r, d, {"ca"}) /\ r.ca = Flagged(d.ca, crs)
  BY <1>0, FieldFacts, ZenonT(60)
<1>2. tv \in SUBSET Vars
  <2>1. ASSUME NEW cr \in crs PROVE VarsOf(d.ca[cr].lits) \in SUBSET Vars
    <3>1. cr \in DOMAIN d.ca
      BY DEF Live
    <3> QED
      BY <1>0, <3>1, EntryFacts
  <2> QED
    BY <2>1 DEF TouchedBy
<1>3. CASE ~d.simp
  <2>1. t = r
    BY <1>3 DEF removeClauses, Flagged
  <2>2. /\ Same(r, d, {"ca", "dirty", "n_occ", "elim_heap"}) /\ r.elim_heap = d.elim_heap
        /\ r.dirty = d.dirty /\ r.n_occ = d.n_occ
    BY <1>1 DEF Same, DbFields
  <2>3. r.dirty \in SUBSET Vars /\ r.n_occ \in [Lits -> Nat]
    BY <1>0, <2>2 DEF Lists_
  <2> HIDE DEF r, t
  <2>4. Struck(d, crs, r)
    BY <1>1, <1>3, <2>2, <2>3 DEF Struck
  <2>5. Good(r) /\ Fewer(d, crs, r)
    BY <2>4, FlaggedGood
  <2> QED
    BY <2>1, <2>2, <2>5 DEF t
<1>4. CASE d.simp
  <2>1. t = updateElimHeap(m, tv)
    BY <1>4 DEF removeClauses, Flagged, TouchedBy
  <2>2. ASSUME NEW p \in Lits PROVE count[p] = Cardinality(Counted(d, p) \ crs) /\ count[p] \in Nat
    <3>1. d.n_occ[p] = Cardinality(Counted(d, p))
      BY <1>4 DEF Good, Listed
    <3>2. count[p] = Cardinality(Counted(d, p)) - gone(p)
      BY <3>1
    <3>3. /\ Cardinality(Counted(d, p)) - gone(p) = Cardinality(Counted(d, p) \ crs)
          /\ Cardinality(Counted(d, p) \ crs) \in Nat
      <4>1. Memory(d)
        BY <1>0
      <4> HIDE DEF r, m, t, tv, count
      <4> QED
        BY <4>1, CountRemoved
    <3> QED
      BY <3>2, <3>3
  <2>3. count \in [Lits -> Nat]
    <3>1. count = [p \in Lits |-> count[p]]
      OBVIOUS
    <3> HIDE DEF count
    <3> QED
      BY <2>2, <3>1
  <2> HIDE DEF count, r, tv
  <2>4. /\ Same(m, r, {"dirty", "n_occ"}) /\ m.dirty = r.dirty \cup tv /\ m.n_occ = count
    <3>1. r = [f \in DbFields |-> r[f]]
      BY <1>1 DEF Same, Rec
    <3> QED
      BY <3>1 DEF Same, Rec, DbFields
  <2> HIDE DEF m
  <2>5. /\ Same(m, d, {"ca", "dirty", "n_occ", "elim_heap"}) /\ m.ca = Flagged(d.ca, crs)
        /\ m.dirty = d.dirty \cup tv /\ m.elim_heap = d.elim_heap
    BY <1>1, <2>4 DEF Same, DbFields
  <2>6. m.dirty \in SUBSET Vars /\ m.n_occ \in [Lits -> Nat]
    BY <1>0, <1>2, <2>3, <2>4, <2>5 DEF Lists_
  <2>7. /\ m.dirty = d.dirty \cup TouchedBy(d, crs)
        /\ \A p \in Lits : m.n_occ[p] = Cardinality(Counted(d, p) \ crs)
    BY <2>2, <2>4, <2>5 DEF tv
  <2>8. Good(m) /\ Fewer(d, crs, m)
    <3>1. Struck(d, crs, m)
      BY <2>5, <2>6, <2>7 DEF Struck
    <3> QED
      BY <3>1, FlaggedGood
  <2>9. Good(t) /\ Same(t, m, {"elim_heap"}) /\ Live(t) = Live(m)
    BY <1>2, <2>1, <2>8, HeapFacts
  <2> HIDE DEF t
  <2>10. t.ca = m.ca /\ t.occurs = m.occurs /\ Same(t, d, {"ca", "dirty", "n_occ", "elim_heap"})
    BY <2>5, <2>9 DEF Same, DbFields
  <2>11. \A v : Lists(t, v) = Lists(m, v)
    BY <2>10 DEF Lists
  <2>12. Fewer(d, crs, t)
    BY <2>8, <2>9, <2>10, <2>11 DEF Fewer
  <2> QED
    BY <2>9, <2>10, <2>12 DEF t
<1> QED
  BY <1>3, <1>4, <1>0 DEF Values

-----------------------------------------------------------------------------
(* Facts that are new. *)

(* The clauses of the database. *)
LEMMA ClausesType ==
  ASSUME NEW d, DbType(d)
  PROVE  /\ Clauses(d) \in SUBSET SUBSET Lits
         /\ \A cr \in Live(d) : d.ca[cr].lits \in Clauses(d)
         /\ Live(d) \in SUBSET DOMAIN d.ca
<1>1. Memory(d) /\ d.learnts \in SUBSET SUBSET Lits
  BY DEF DbType, Values
<1>2. Live(d) \in SUBSET DOMAIN d.ca
  BY DEF Live
<1>3. \A cr \in Live(d) : d.ca[cr].lits \in SUBSET Lits
  BY <1>1, <1>2, EntryFacts
<1>4. \A cr \in Live(d) : d.ca[cr].lits \in Clauses(d)
  BY DEF Clauses
<1> QED
  BY <1>1, <1>2, <1>3, <1>4 DEF Clauses

(* propagate. *)
LEMMA PropagateFacts ==
  ASSUME NEW d, Good(d), NEW new, new \in SUBSET Lits
  PROVE  LET t == propagate(d, new)
             all == Closure(Clauses(d), d.fixed \cup new) IN
         /\ Good(t) /\ Same(t, d, {"ok", "fixed", "unchecked"}) /\ Live(t) = Live(d)
         /\ \A v : Lists(t, v) = Lists(d, v)
         /\ all \in SUBSET Lits /\ d.fixed \cup new \in SUBSET all
         /\ IF Contradicts(all) THEN t.ok = FALSE /\ t.fixed = d.fixed /\ t.unchecked = d.unchecked
            ELSE t.ok = d.ok /\ t.fixed = all /\ t.unchecked = d.unchecked \cup (all \ d.fixed)
<1> DEFINE t == propagate(d, new)
           all == Closure(Clauses(d), d.fixed \cup new)
<1>0. Rec(d) /\ Memory(d) /\ Values(d) /\ Lists_(d)
  BY DEF Good, DbType
<1>1. Clauses(d) \in SUBSET SUBSET Lits /\ d.fixed \cup new \in SUBSET Lits
  BY <1>0, ClausesType DEF Good, Values
<1>2. d.fixed \cup new \in SUBSET all /\ all \in SUBSET Lits
  <2> DEFINE cs == Clauses(d)
             S == d.fixed \cup new
  <2>1. cs \in SUBSET SUBSET Lits /\ S \in SUBSET Lits
    BY <1>1
  <2> HIDE DEF cs, S
  <2>2. S \in SUBSET Closure(cs, S) /\ Closure(cs, S) \in SUBSET Lits
    BY <2>1, ClosureFacts, ZenonT(60)
  <2> QED
    BY <2>2 DEF cs, S
<1>3. t = IF Contradicts(all) THEN [d EXCEPT !.ok = FALSE]
          ELSE [d EXCEPT !.fixed = all, !.unchecked = @ \cup (all \ d.fixed)]
  BY DEF propagate
<1> HIDE DEF all, t
<1>4. /\ Same(t, d, {"ok", "fixed", "unchecked"})
      /\ IF Contradicts(all) THEN t.ok = FALSE /\ t.fixed = d.fixed /\ t.unchecked = d.unchecked
         ELSE t.ok = d.ok /\ t.fixed = all /\ t.unchecked = d.unchecked \cup (all \ d.fixed)
  <2>1. d = [f \in DbFields |-> d[f]]
    BY <1>0 DEF Rec
  <2>2. CASE Contradicts(all)
    <3>1. t = [d EXCEPT !.ok = FALSE]
      BY <1>3, <2>2
    <3> QED
      BY <2>1, <2>2, <3>1 DEF Same, Rec, DbFields
  <2>3. CASE ~Contradicts(all)
    <3>1. t = [d EXCEPT !.fixed = all, !.unchecked = @ \cup (all \ d.fixed)]
      BY <1>3, <2>3
    <3> QED
      BY <2>1, <2>3, <3>1 DEF Same, Rec, DbFields
  <2> QED
    BY <2>2, <2>3
<1>5. /\ t.ca = d.ca /\ t.learnts = d.learnts
      /\ t.occurs = d.occurs /\ t.dirty = d.dirty /\ t.n_occ = d.n_occ /\ t.queue = d.queue
      /\ t.touched = d.touched /\ t.elim_heap = d.elim_heap /\ t.frozen = d.frozen
      /\ t.eliminated = d.eliminated /\ t.elimclauses = d.elimclauses /\ t.simp = d.simp /\ Rec(t)
  BY <1>4 DEF Same, DbFields
<1>6. /\ t.ok \in BOOLEAN /\ t.fixed \in SUBSET Lits /\ ~Contradicts(t.fixed)
      /\ t.unchecked \in SUBSET t.fixed
  BY <1>0, <1>2, <1>4 DEF Values
<1>7. DbType(t)
  BY <1>0, <1>5, <1>6 DEF DbType, Memory, Values, Lists_
<1>8. Live(t) = Live(d) /\ \A v : Lists(t, v) = Lists(d, v)
  BY <1>5 DEF Live, Lists
<1>9. \A v : Holding(t, v) = Holding(d, v) /\ Counted(t, v) = Counted(d, v)
  BY <1>5, <1>8 DEF Holding, Counted
<1>10. Proper(t) /\ (t.simp => Listed(t))
  BY <1>5, <1>8, <1>9 DEF Good, Proper, Listed
<1> QED
  BY <1>2, <1>4, <1>7, <1>8, <1>10 DEF Good, t, all

(* What a database says, with the learnt clauses and without them. *)
LiveClauses(d) == {d.ca[cr].lits : cr \in Live(d)}
Full(d) == {m \in Assignments : Satisfies(m, Clauses(d)) /\ MakesAll(m, d.fixed)}
Says(d) == {m \in Assignments : Satisfies(m, LiveClauses(d)) /\ MakesAll(m, d.fixed)}

(* t says what d and the clauses N say. *)
Kept_(d, t, N) ==
  IF t.ok THEN /\ \A m \in Full(d) : Satisfies(m, N) => m \in Full(t)
               /\ \A m \in Says(t) : m \in Says(d) /\ Satisfies(m, N)
  ELSE d.ok => \A m \in Full(d) : ~Satisfies(m, N)

LiveVars(d) == UNION {VarsOf(d.ca[cr].lits) : cr \in Live(d)}
Known(d) == LiveVars(d) \cup VarsOf(UNION d.learnts) \cup VarsOf(d.fixed)
Waiting(d) == {d.queue[k] : k \in DOMAIN d.queue}

(* A learnt clause is true, or two of its literals are not false. *)
Opened(F, c) == c \cap F # {} \/ Cardinality({p \in c : Neg(p) \notin F}) > 1
LearntsOpen(d) == \A c \in d.learnts : Opened(d.fixed, c)

(* What operations on clauses leave alone. *)
Held(d, t) ==
  /\ t.simp = d.simp /\ t.eliminated = d.eliminated /\ t.frozen = d.frozen
  /\ t.elimclauses = d.elimclauses /\ t.learnts = d.learnts
  /\ d.fixed \subseteq t.fixed /\ t.fixed \ t.unchecked = d.fixed \ d.unchecked
  /\ DOMAIN d.ca \subseteq DOMAIN t.ca /\ (t.ok => d.ok)
  /\ (t.ok /\ LearntsOpen(d) => LearntsOpen(t))
(* The variables that come in are of U, and have no value yet. *)
Narrow(d, t, U) ==
  /\ LiveVars(t) \subseteq LiveVars(d) \cup (U \ AssignedVars(d))
  /\ VarsOf(t.fixed) \subseteq Known(d) \cup U
(* Clauses that became shorter are queued, and new ones are touched too. *)
Queues(d, t) ==
  /\ Waiting(d) \subseteq Waiting(t) /\ d.touched \subseteq t.touched
  /\ \A cr \in Live(t) : cr \in Waiting(t) \/ (cr \in Live(d) /\ t.ca[cr].lits = d.ca[cr].lits)
  /\ \A cr \in Live(t) : VarsOf(t.ca[cr].lits) \subseteq t.touched
                            \/ (cr \in Live(d) /\ t.ca[cr].lits \subseteq d.ca[cr].lits)
Moves(d, t, U) == Good(t) /\ Held(d, t) /\ Narrow(d, t, U) /\ (d.simp => Queues(d, t))

(* The steps of an operation add up. *)
LEMMA MovesOn ==
  ASSUME NEW d, NEW e, NEW t, NEW U, NEW W, Moves(d, e, U), Moves(e, t, W)
  PROVE  Moves(d, t, U \cup W)
<1>1. Good(t) /\ Held(d, t)
  BY DEF Moves, Held
<1>2. AssignedVars(d) \subseteq AssignedVars(e)
  BY DEF Moves, Held, AssignedVars, VarsOf
<1>3. Known(e) \subseteq Known(d) \cup U
  BY DEF Moves, Held, Narrow, Known
<1>4. Narrow(d, t, U \cup W)
  BY <1>2, <1>3 DEF Moves, Narrow
<1>5. ASSUME d.simp PROVE Queues(d, t)
  <2>1. Queues(d, e) /\ Queues(e, t)
    BY <1>5 DEF Moves, Held
  <2>2. ASSUME NEW cr \in Live(t)
        PROVE  VarsOf(t.ca[cr].lits) \subseteq t.touched
                            \/ (cr \in Live(d) /\ t.ca[cr].lits \subseteq d.ca[cr].lits)
    <3>1. CASE cr \in Live(e) /\ t.ca[cr].lits \subseteq e.ca[cr].lits
      <4>1. VarsOf(t.ca[cr].lits) \subseteq VarsOf(e.ca[cr].lits)
        BY <3>1 DEF VarsOf
      <4>2. CASE VarsOf(e.ca[cr].lits) \subseteq e.touched
        BY <2>1, <4>1, <4>2 DEF Queues
      <4>3. CASE cr \in Live(d) /\ e.ca[cr].lits \subseteq d.ca[cr].lits
        BY <3>1, <4>3
      <4> QED
        BY <2>1, <3>1, <4>2, <4>3 DEF Queues
    <3> QED
      BY <2>1, <2>2, <3>1 DEF Queues
  <2>3. \A cr \in Live(t) : cr \in Waiting(t) \/ (cr \in Live(d) /\ t.ca[cr].lits = d.ca[cr].lits)
    BY <2>1 DEF Queues
  <2> QED
    BY <2>1, <2>2, <2>3 DEF Queues
<1> QED
  BY <1>1, <1>4, <1>5 DEF Moves

(* Two steps that add what they say add both. *)
LEMMA KeptOn ==
  ASSUME NEW d, NEW e, NEW t, NEW N, NEW M, Kept_(d, e, N), Kept_(e, t, M), t.ok => e.ok
  PROVE  Kept_(d, t, N \cup M)
<1>0. \A m : Satisfies(m, N \cup M) <=> Satisfies(m, N) /\ Satisfies(m, M)
  BY DEF Satisfies
<1>1. CASE t.ok
  BY <1>0, <1>1 DEF Kept_
<1>2. CASE ~t.ok
  BY <1>0, <1>2 DEF Kept_
<1> QED
  BY <1>1, <1>2

(* A database always makes a step to itself. *)
LEMMA Stays ==
  ASSUME NEW d, Good(d), NEW U
  PROVE  Moves(d, d, U) /\ Kept_(d, d, {})
<1>1. Moves(d, d, U)
  BY DEF Moves, Held, Narrow, Known, Queues
<1>2. \A m : Satisfies(m, {})
  BY DEF Satisfies
<1> QED
  BY <1>1, <1>2 DEF Kept_

(* Variables that are there do not come in. *)
LEMMA MovesWithin ==
  ASSUME NEW d, NEW t, NEW U, NEW W, Moves(d, t, U), U \subseteq LiveVars(d) \cup W
  PROVE  Moves(d, t, W)
BY DEF Moves, Narrow, Known

(* What was said already is not said anew. *)
LEMMA KeptWithin ==
  ASSUME NEW d, NEW t, NEW N, NEW M, Kept_(d, t, N), \A m \in Full(d) : Satisfies(m, M) => Satisfies(m, N),
         \A m \in Says(t) : m \in Says(d) /\ Satisfies(m, N) => Satisfies(m, M)
  PROVE  Kept_(d, t, M)
<1>1. CASE t.ok
  BY <1>1 DEF Kept_
<1>2. CASE ~t.ok
  BY <1>2 DEF Kept_
<1> QED
  BY <1>1, <1>2

(* Only the lists change. *)
LEMMA AlikeStep ==
  ASSUME NEW d, Good(d), NEW t, Good(t),
         Same(t, d, {"occurs", "dirty", "n_occ", "elim_heap", "touched"}), d.touched \subseteq t.touched
  PROVE  Moves(d, t, {}) /\ Kept_(d, t, {}) /\ Live(t) = Live(d)
<1>1. /\ t.ca = d.ca /\ t.learnts = d.learnts /\ t.fixed = d.fixed /\ t.unchecked = d.unchecked
      /\ t.ok = d.ok /\ t.frozen = d.frozen /\ t.queue = d.queue
      /\ t.eliminated = d.eliminated /\ t.elimclauses = d.elimclauses /\ t.simp = d.simp
  BY DEF Same, DbFields
<1>2. Live(t) = Live(d)
  BY <1>1 DEF Live
<1>3. LiveVars(t) = LiveVars(d) /\ Waiting(t) = Waiting(d)
  BY <1>1, <1>2 DEF LiveVars, Waiting
<1>4. Moves(d, t, {})
  BY <1>1, <1>2, <1>3 DEF Moves, Held, Narrow, Known, Queues, LearntsOpen
<1>5. Clauses(t) = Clauses(d) /\ LiveClauses(t) = LiveClauses(d)
  BY <1>1, <1>2 DEF Clauses, LiveClauses
<1>6. \A m : Satisfies(m, {})
  BY DEF Satisfies
<1>7. Full(t) = Full(d) /\ Says(t) = Says(d)
  BY <1>1, <1>5 DEF Full, Says
<1>8. Kept_(d, t, {})
  BY <1>1, <1>6, <1>7 DEF Kept_
<1> QED
  BY <1>2, <1>4, <1>8

(* What is said in terms of the clauses. *)
LEMMA SaysFacts ==
  ASSUME NEW d
  PROVE  /\ \A m : m \in Full(d) <=> /\ m \in Says(d)
                                     /\ Satisfies(m, d.learnts)
         /\ \A m \in Assignments : m \in Says(d) <=> /\ MakesAll(m, d.fixed)
                                     /\ \A cr \in Live(d) : SatisfiesClause(m, d.ca[cr].lits)
BY DEF Full, Says, LiveClauses, Clauses, Satisfies

(* removeClauses. *)
LEMMA RemoveStep ==
  ASSUME NEW d, Good(d), NEW crs, crs \in SUBSET Live(d)
  PROVE  /\ Moves(d, removeClauses(d, crs), {}) /\ removeClauses(d, crs).ok = d.ok
         /\ removeClauses(d, crs).fixed = d.fixed
         /\ Full(d) \subseteq Full(removeClauses(d, crs))
<1> DEFINE t == removeClauses(d, crs)
<1>1. Good(t) /\ Fewer(d, crs, t) /\ Same(t, d, {"ca", "dirty", "n_occ", "elim_heap"})
  BY RemoveFacts
<1> HIDE DEF t
<1>2. /\ t.learnts = d.learnts /\ t.fixed = d.fixed /\ t.unchecked = d.unchecked
      /\ t.ok = d.ok /\ t.frozen = d.frozen /\ t.queue = d.queue /\ t.touched = d.touched
      /\ t.eliminated = d.eliminated /\ t.elimclauses = d.elimclauses /\ t.simp = d.simp
  BY <1>1 DEF Same, DbFields
<1>3. Live(t) \subseteq Live(d) /\ DOMAIN t.ca = DOMAIN d.ca /\ \A cr \in Live(d) : t.ca[cr].lits = d.ca[cr].lits
  BY <1>1 DEF Fewer, Live
<1>4. LiveVars(t) \subseteq LiveVars(d) /\ Waiting(t) = Waiting(d)
  BY <1>2, <1>3 DEF LiveVars, Waiting
<1>5. Moves(d, t, {})
  BY <1>1, <1>2, <1>3, <1>4 DEF Moves, Held, Narrow, Known, Queues, LearntsOpen
<1>6. Full(d) \subseteq Full(t)
  <2>1. ASSUME NEW m \in Full(d) PROVE m \in Full(t)
    <3>1. m \in Assignments /\ m \in Says(d) /\ Satisfies(m, d.learnts)
      BY SaysFacts DEF Full
    <3>2. \A cr \in Live(d) : SatisfiesClause(m, d.ca[cr].lits)
      BY <3>1, SaysFacts
    <3>3. MakesAll(m, d.fixed)
      BY <3>1, SaysFacts
    <3>4. m \in Says(t)
      BY <1>2, <1>3, <3>1, <3>2, <3>3, SaysFacts
    <3> QED
      BY <1>2, <3>1, <3>4, SaysFacts
  <2> QED
    BY <2>1
<1> QED
  BY <1>2, <1>5, <1>6 DEF t

Units(S) == {{p} : p \in S}

(* A clause that is open has a literal. *)
LEMMA OpenedSome ==
  ASSUME NEW F, NEW c, Opened(F, c)
  PROVE  c # {}
<1>1. SUFFICES ASSUME c = {} PROVE FALSE
  OBVIOUS
<1>2. {p \in c : Neg(p) \notin F} = {} /\ c \cap F = {}
  BY <1>1
<1>3. Cardinality({}) = 0
  BY FS_EmptySet
<1> QED
  BY <1>2, <1>3 DEF Opened

(* Where all that is forced is there, clauses are open. *)
LEMMA ClosedOpens ==
  ASSUME NEW cs \in SUBSET SUBSET Lits, NEW T \in SUBSET Lits, Forced(cs, T) \subseteq T, ~Contradicts(T),
         NEW c \in cs, c # {}
  PROVE  Opened(T, c)
<1> DEFINE o == {p \in c : Neg(p) \notin T}
<1>1. SUFFICES ASSUME c \cap T = {} PROVE Cardinality(o) > 1
  BY DEF Opened
<1>2. \A p \in c : \E q \in c \ {p} : Neg(q) \notin T
  <2>1. ASSUME NEW p \in c, \A q \in c \ {p} : Neg(q) \in T PROVE FALSE
    <3>1. p \in Forced(cs, T)
      BY <2>1 DEF Forced
    <3> QED
      BY <1>1, <3>1
  <2> QED
    BY <2>1
<1>3. o \in SUBSET Lits
  OBVIOUS
<1>4. o # {} /\ ~\E p \in o : o = {p}
  <2>1. PICK p \in c : TRUE
    OBVIOUS
  <2>2. PICK q \in c \ {p} : Neg(q) \notin T
    BY <1>2, <2>1
  <2>3. q \in o
    BY <2>2
  <2>4. ASSUME NEW r \in o, o = {r} PROVE FALSE
    <3>1. PICK u \in c \ {r} : Neg(u) \notin T
      BY <1>2, <2>4
    <3> QED
      BY <2>4, <3>1
  <2> QED
    BY <2>3, <2>4
<1> HIDE DEF o
<1> QED
  BY <1>3, <1>4, ManyFacts

(* propagate. *)
LEMMA PropagateStep ==
  ASSUME NEW d, Good(d), NEW new, new \in SUBSET Lits
  PROVE  /\ Moves(d, propagate(d, new), VarsOf(new)) /\ Kept_(d, propagate(d, new), Units(new))
         /\ Live(propagate(d, new)) = Live(d) /\ propagate(d, new).ca = d.ca
         /\ propagate(d, new).ok => new \subseteq propagate(d, new).fixed
<1> DEFINE t == propagate(d, new)
           cs == Clauses(d)
           S == d.fixed \cup new
           all == Closure(cs, S)
<1>0. /\ Good(t) /\ Same(t, d, {"ok", "fixed", "unchecked"}) /\ Live(t) = Live(d)
      /\ IF Contradicts(all) THEN t.ok = FALSE /\ t.fixed = d.fixed /\ t.unchecked = d.unchecked
            ELSE t.ok = d.ok /\ t.fixed = all /\ t.unchecked = d.unchecked \cup (all \ d.fixed)
  BY PropagateFacts
<1>1. cs \in SUBSET SUBSET Lits /\ S \in SUBSET Lits /\ d.unchecked \subseteq d.fixed
      /\ d.fixed \in SUBSET Lits /\ d.learnts \in SUBSET SUBSET Lits
  <2>1. cs \in SUBSET SUBSET Lits
    BY ClausesType DEF Good
  <2> QED
    BY <2>1 DEF Good, DbType, Values
<1>2. UNION cs = (UNION LiveClauses(d)) \cup (UNION d.learnts)
  BY DEF Clauses, LiveClauses
<1> HIDE DEF cs, S
<1>3. /\ S \subseteq all /\ all \subseteq S \cup UNION cs
      /\ \A m \in Assignments : Satisfies(m, cs) /\ MakesAll(m, S) => MakesAll(m, all)
  BY <1>1, ClosureFacts
<1> HIDE DEF all, t
<1>4. /\ t.ca = d.ca /\ t.learnts = d.learnts
      /\ t.occurs = d.occurs /\ t.dirty = d.dirty /\ t.n_occ = d.n_occ /\ t.queue = d.queue
      /\ t.touched = d.touched /\ t.elim_heap = d.elim_heap /\ t.frozen = d.frozen
      /\ t.eliminated = d.eliminated /\ t.elimclauses = d.elimclauses /\ t.simp = d.simp
  BY <1>0 DEF Same, DbFields
<1>5. LiveVars(t) = LiveVars(d) /\ Waiting(t) = Waiting(d) /\ VarsOf(UNION LiveClauses(d)) = LiveVars(d)
  BY <1>0, <1>4 DEF LiveVars, Waiting, LiveClauses, VarsOf
<1>6. VarsOf(t.fixed) \subseteq Known(d) \cup VarsOf(new)
  <2>1. t.fixed \subseteq d.fixed \cup new \cup (UNION LiveClauses(d)) \cup (UNION d.learnts)
    BY <1>0, <1>2, <1>3 DEF S
  <2> QED
    BY <1>5, <2>1 DEF Known, VarsOf
<1>o. ASSUME t.ok, LearntsOpen(d) PROVE LearntsOpen(t)
  <2>1. ~Contradicts(all) /\ t.fixed = all
    BY <1>0, <1>o
  <2>2. all \in SUBSET Lits
    BY <1>1, <1>3
  <2>f. Forced(cs, all) \subseteq all
    BY <1>1, ClosureClosed DEF all
  <2>3. ASSUME NEW c \in d.learnts PROVE Opened(all, c)
    <3>1. c \in SUBSET Lits /\ c # {} /\ c \in cs
      BY <1>o, <1>1, OpenedSome DEF LearntsOpen, cs, Clauses
    <3> QED
      BY <1>1, <2>1, <2>2, <2>f, <3>1, ClosedOpens
  <2> QED
    BY <1>4, <2>1, <2>3 DEF LearntsOpen
<1>7. Held(d, t)
  BY <1>0, <1>1, <1>3, <1>4, <1>o DEF Held, S
<1>8. Moves(d, t, VarsOf(new))
  BY <1>0, <1>4, <1>5, <1>6, <1>7 DEF Moves, Narrow, Queues
<1>9. Kept_(d, t, Units(new))
  <2>0. Clauses(t) = cs /\ LiveClauses(t) = LiveClauses(d)
    BY <1>0, <1>4 DEF Clauses, LiveClauses, cs
  <2>1. ASSUME NEW m \in Full(d), Satisfies(m, Units(new)) PROVE MakesAll(m, all) /\ m \in Assignments /\ Satisfies(m, cs)
    <3>1. MakesAll(m, new)
      <4>1. ASSUME NEW p \in new PROVE Makes(m, p)
        <5>1. {p} \in Units(new)
          BY DEF Units
        <5> QED
          BY <2>1, <5>1 DEF Satisfies, SatisfiesClause
      <4> QED
        BY <4>1 DEF MakesAll
    <3>2. MakesAll(m, S) /\ Satisfies(m, cs) /\ m \in Assignments
      BY <3>1 DEF Full, MakesAll, S, cs
    <3> QED
      BY <1>3, <3>2
  <2>2. CASE Contradicts(all)
    <3>1. all \in SUBSET Lits
      BY <1>1, <1>3
    <3>2. \A m \in Full(d) : ~Satisfies(m, Units(new))
      BY <2>1, <2>2, <3>1, NoContradiction
    <3> QED
      BY <1>0, <2>2, <3>2 DEF Kept_
  <2>3. CASE ~Contradicts(all)
    <3>1. t.fixed = all /\ t.ok = d.ok
      BY <1>0, <2>3
    <3>2. \A m \in Full(d) : Satisfies(m, Units(new)) => m \in Full(t)
      BY <2>0, <2>1, <3>1 DEF Full
    <3>3. ASSUME NEW m \in Says(t) PROVE m \in Says(d) /\ Satisfies(m, Units(new))
      <4>1. MakesAll(m, d.fixed) /\ MakesAll(m, new)
        BY <1>3, <3>1 DEF Says, MakesAll, S
      <4>2. Satisfies(m, Units(new))
        BY <4>1 DEF MakesAll, Satisfies, SatisfiesClause, Units
      <4> QED
        BY <2>0, <4>1, <4>2 DEF Says
    <3>4. ASSUME ~d.ok PROVE t.ok = d.ok
      BY <3>1
    <3>5. CASE t.ok
      BY <3>2, <3>3, <3>5 DEF Kept_
    <3>6. CASE ~t.ok
      BY <3>1, <3>6 DEF Kept_
    <3> QED
      BY <3>5, <3>6
  <2> QED
    BY <2>2, <2>3
<1>10. t.ok => new \subseteq t.fixed
  BY <1>0, <1>3 DEF S
<1> QED
  BY <1>0, <1>4, <1>8, <1>9, <1>10 DEF t

(* Only the queue changes. *)
LEMMA QueueStep ==
  ASSUME NEW d, Good(d), NEW t, Same(t, d, {"queue"}), t.queue \in Seq(DOMAIN d.ca)
  PROVE  /\ Good(t) /\ Live(t) = Live(d) /\ \A v : Lists(t, v) = Lists(d, v)
         /\ Full(t) = Full(d) /\ Says(t) = Says(d) /\ LiveVars(t) = LiveVars(d) /\ Kept_(d, t, {})
         /\ Waiting(d) \subseteq Waiting(t) => Moves(d, t, {})
<1>1. /\ t.ca = d.ca /\ t.learnts = d.learnts /\ t.fixed = d.fixed /\ t.unchecked = d.unchecked
      /\ t.ok = d.ok /\ t.touched = d.touched /\ t.elim_heap = d.elim_heap /\ t.frozen = d.frozen
      /\ t.occurs = d.occurs /\ t.dirty = d.dirty /\ t.n_occ = d.n_occ
      /\ t.eliminated = d.eliminated /\ t.elimclauses = d.elimclauses /\ t.simp = d.simp /\ Rec(t)
  BY DEF Same, DbFields
<1>2. Live(t) = Live(d) /\ \A v : Lists(t, v) = Lists(d, v)
  BY <1>1 DEF Live, Lists
<1>3. \A v : Holding(t, v) = Holding(d, v) /\ Counted(t, v) = Counted(d, v)
  BY <1>1, <1>2 DEF Holding, Counted
<1>4. DbType(t)
  BY <1>1 DEF Good, DbType, Memory, Values, Lists_
<1>5. Proper(t)
  BY <1>1, <1>2 DEF Good, Proper
<1>6. t.simp => Listed(t)
  BY <1>1, <1>2, <1>3 DEF Good, Listed
<1>7. Good(t)
  BY <1>4, <1>5, <1>6 DEF Good
<1>8. LiveVars(t) = LiveVars(d)
  BY <1>1, <1>2 DEF LiveVars
<1>9. Clauses(t) = Clauses(d) /\ LiveClauses(t) = LiveClauses(d)
  BY <1>1, <1>2 DEF Clauses, LiveClauses
<1>10. Full(t) = Full(d) /\ Says(t) = Says(d)
  BY <1>1, <1>9 DEF Full, Says
<1>11. Kept_(d, t, {})
  BY <1>1, <1>10 DEF Kept_, Satisfies
<1>12. ASSUME Waiting(d) \subseteq Waiting(t) PROVE Moves(d, t, {})
  BY <1>1, <1>2, <1>7, <1>8, <1>12 DEF Moves, Held, Narrow, Known, Queues, LearntsOpen
<1> QED
  BY <1>2, <1>7, <1>8, <1>10, <1>11, <1>12

(* A clause that enters the queue is in it. *)
LEMMA Enqueued ==
  ASSUME NEW d, Good(d), NEW cr \in DOMAIN d.ca, NEW t, t = [d EXCEPT !.queue = Append(@, cr)]
  PROVE  /\ Same(t, d, {"queue"}) /\ t.queue \in Seq(DOMAIN d.ca)
         /\ Waiting(t) = Waiting(d) \cup {cr}
<1>1. Rec(d) /\ d.queue \in Seq(DOMAIN d.ca)
  BY DEF Good, DbType, Lists_
<1>2. Same(t, d, {"queue"}) /\ t.queue = Append(d.queue, cr)
  <2> DEFINE x == Append(d.queue, cr)
  <2>1. t = [d EXCEPT !.queue = x]
    OBVIOUS
  <2> HIDE DEF x
  <2>2. Same([d EXCEPT !.queue = x], d, {"queue"}) /\ [d EXCEPT !.queue = x].queue = x
    BY <1>1, FieldFacts
  <2> QED
    BY <2>1, <2>2 DEF x
<1> DEFINE q == d.queue
           S == DOMAIN d.ca
<1>3. q \in Seq(S) /\ cr \in S
  BY <1>1
<1> HIDE DEF q, S
<1>4. /\ Append(q, cr) \in Seq(S) /\ Len(Append(q, cr)) = Len(q) + 1 /\ Len(q) \in Nat
      /\ \A k \in 1 .. Len(q) : Append(q, cr)[k] = q[k]
      /\ Append(q, cr)[Len(q) + 1] = cr
  BY <1>3
<1>5. DOMAIN Append(q, cr) = 1 .. Len(q) + 1 /\ DOMAIN q = 1 .. Len(q)
  BY <1>3, <1>4
<1>6. {Append(q, cr)[k] : k \in DOMAIN Append(q, cr)} = {q[k] : k \in DOMAIN q} \cup {cr}
  <2>1. ASSUME NEW k \in 1 .. Len(q) + 1 PROVE k \in 1 .. Len(q) \/ k = Len(q) + 1
    BY <1>4
  <2>2. 1 .. Len(q) \subseteq 1 .. Len(q) + 1 /\ Len(q) + 1 \in 1 .. Len(q) + 1
    BY <1>4
  <2> QED
    BY <1>4, <1>5, <2>1, <2>2
<1> QED
  BY <1>2, <1>4, <1>6, ZenonT(60) DEF Waiting, q, S

(* t differs from d in the clause cr only. *)
Only(d, t, cr) ==
  /\ DOMAIN t.ca = DOMAIN d.ca /\ Live(t) \subseteq Live(d) /\ Live(d) \ {cr} \subseteq Live(t)
  /\ \A o \in Live(t) \ {cr} : t.ca[o].lits = d.ca[o].lits

(* The clause of cr became c, one literal l shorter. *)
Shorter(d, t, cr, l) ==
  /\ Same(t, d, {"ca", "occurs", "n_occ"})
  /\ t.ca = [d.ca EXCEPT ![cr].lits = @ \ {l}]
  /\ t.occurs = [d.occurs EXCEPT ![Var(l)] = @ \ {cr}]
  /\ t.n_occ = [d.n_occ EXCEPT ![l] = @ - 1]

(* strengthenClause (SimpSolver.cc:178-194) where two literals are left:
   one clause is shorter, all else stays. *)
LEMMA ShorterFacts ==
  ASSUME NEW d, Good(d), d.simp, NEW cr \in Live(d), NEW l \in d.ca[cr].lits, NEW t, Shorter(d, t, cr, l),
         Cardinality(d.ca[cr].lits \ {l}) # 1
  PROVE  /\ Good(t) /\ Live(t) = Live(d) /\ Only(d, t, cr) /\ t.ca[cr].lits = d.ca[cr].lits \ {l}
<1> DEFINE c == d.ca[cr].lits
<1>0. Rec(d) /\ Memory(d) /\ Values(d) /\ Lists_(d) /\ Proper(d) /\ Listed(d)
  BY DEF Good, DbType
<1>1. /\ t.learnts = d.learnts /\ t.fixed = d.fixed /\ t.unchecked = d.unchecked
      /\ t.ok = d.ok /\ t.touched = d.touched /\ t.elim_heap = d.elim_heap /\ t.frozen = d.frozen
      /\ t.dirty = d.dirty /\ t.queue = d.queue
      /\ t.eliminated = d.eliminated /\ t.elimclauses = d.elimclauses /\ t.simp = d.simp /\ Rec(t)
  BY DEF Shorter, Same, DbFields
<1>2. cr \in DOMAIN d.ca
  BY DEF Live
<1>3. c \in SUBSET Lits /\ l \in Lits /\ Var(l) \in Vars
  <2>1. c \in SUBSET Lits
    BY <1>0, <1>2, EntryFacts
  <2> QED
    BY <2>1, LitFacts
<1>4. Cardinality(c \ {l}) > 1 /\ ~Contradicts(c \ {l}) /\ ~Contradicts(c)
  <2>1. Cardinality(c) > 1 /\ ~Contradicts(c)
    BY <1>0 DEF Proper
  <2>2. Cardinality(c \ {l}) = Cardinality(c) - 1 /\ Cardinality(c) \in Nat
    BY <1>3, ManyFacts
  <2>3. ~Contradicts(c \ {l})
    BY <2>1 DEF Contradicts
  <2> QED
    BY <2>1, <2>2, <2>3
<1>5. /\ DOMAIN t.ca = DOMAIN d.ca /\ t.ca[cr].lits = c \ {l} /\ t.ca[cr].removed = d.ca[cr].removed
      /\ \A o \in DOMAIN d.ca : o # cr => t.ca[o] = d.ca[o]
      /\ t.ca \in [DOMAIN d.ca -> Entries]
  <2>1. d.ca \in [DOMAIN d.ca -> Entries] /\ d.ca[cr] = [lits |-> c, removed |-> d.ca[cr].removed]
        /\ d.ca[cr].removed \in BOOLEAN
    BY <1>0, <1>2, EntryFacts DEF Memory
  <2> DEFINE ca == d.ca
             x == [d.ca[cr] EXCEPT !.lits = @ \ {l}]
  <2>2. t.ca = [ca EXCEPT ![cr] = x]
    BY DEF Shorter
  <2>3. x = [lits |-> c \ {l}, removed |-> d.ca[cr].removed]
    BY <2>1
  <2>4. x \in Entries /\ x.lits = c \ {l} /\ x.removed = d.ca[cr].removed
    BY <1>3, <2>1, <2>3 DEF Entries
  <2> HIDE DEF x
  <2>5. ca \in [DOMAIN ca -> Entries] /\ cr \in DOMAIN ca
    BY <1>2, <2>1
  <2> HIDE DEF ca
  <2>6. DOMAIN t.ca = DOMAIN ca /\ t.ca[cr] = x /\ (\A o \in DOMAIN ca : o # cr => t.ca[o] = ca[o])
        /\ t.ca \in [DOMAIN ca -> Entries]
    BY <2>2, <2>4, <2>5
  <2> QED
    BY <2>4, <2>6 DEF ca
<1>6. Live(t) = Live(d) /\ \A o \in Live(d) : o # cr => t.ca[o].lits = d.ca[o].lits
  BY <1>2, <1>5 DEF Live
<1>7. /\ t.occurs \in [Vars -> SUBSET DOMAIN d.ca]
      /\ \A v \in Vars : t.occurs[v] = IF v = Var(l) THEN d.occurs[v] \ {cr} ELSE d.occurs[v]
  <2>1. t.occurs = [d.occurs EXCEPT ![Var(l)] = @ \ {cr}] /\ d.occurs \in [Vars -> SUBSET DOMAIN d.ca]
    BY <1>0 DEF Shorter, Lists_
  <2> QED
    BY <1>3, <2>1
<1>8. ASSUME NEW v \in Vars
      PROVE  Lists(t, v) = (IF v = Var(l) THEN Lists(d, v) \ {cr} ELSE Lists(d, v))
  <2>1. t.occurs[v] = (IF v = Var(l) THEN d.occurs[v] \ {cr} ELSE d.occurs[v]) /\ d.occurs[v] \subseteq DOMAIN d.ca
    BY <1>0, <1>7 DEF Lists_
  <2>2. \A o \in DOMAIN d.ca : t.ca[o].removed = d.ca[o].removed
    BY <1>5
  <2> QED
    BY <2>1, <2>2 DEF Lists
<1>9. ASSUME NEW v \in Vars
      PROVE  Holding(t, v) = (IF v = Var(l) THEN Holding(d, v) \ {cr} ELSE Holding(d, v))
  <2>1. \A o \in Live(d) \ {cr} : o \in Holding(t, v) <=> o \in Holding(d, v)
    BY <1>6 DEF Holding
  <2>2. v # Var(l) => (cr \in Holding(t, v) <=> cr \in Holding(d, v))
    BY <1>5, <1>6 DEF Holding, VarsOf
  <2>3. v = Var(l) => cr \notin Holding(t, v)
    <3>1. SUFFICES ASSUME v = Var(l), NEW p \in c \ {l}, Var(p) = Var(l) PROVE FALSE
      BY <1>5 DEF Holding, VarsOf
    <3>2. p = l \/ p = Neg(l)
      BY <1>3, <3>1, SameVar
    <3>3. Neg(l) \in c
      BY <3>1, <3>2
    <3> QED
      BY <1>4, <3>3 DEF Contradicts
  <2>4. Holding(t, v) \subseteq Live(d) /\ Holding(d, v) \subseteq Live(d)
    BY <1>6 DEF Holding
  <2> QED
    BY <2>1, <2>2, <2>3, <2>4
<1>10. ASSUME NEW p \in Lits
       PROVE  Counted(t, p) = (IF p = l THEN Counted(d, p) \ {cr} ELSE Counted(d, p))
  <2>1. \A o \in Live(d) \ {cr} : o \in Counted(t, p) <=> o \in Counted(d, p)
    BY <1>6 DEF Counted
  <2>2. cr \in Counted(t, p) <=> p # l /\ cr \in Counted(d, p)
    BY <1>5, <1>6 DEF Counted
  <2>3. Counted(t, p) \subseteq Live(d) /\ Counted(d, p) \subseteq Live(d)
    BY <1>6 DEF Counted
  <2> QED
    BY <2>1, <2>2, <2>3
<1>11. ASSUME NEW p \in Lits
       PROVE  t.n_occ[p] = Cardinality(Counted(t, p)) /\ t.n_occ[p] \in Nat
  <2>1. d.n_occ[p] = Cardinality(Counted(d, p)) /\ d.n_occ \in [Lits -> Nat]
    BY <1>0 DEF Listed, Lists_
  <2>2. t.n_occ = [d.n_occ EXCEPT ![l] = @ - 1]
    BY DEF Shorter
  <2>3. Counted(d, p) \in SUBSET DOMAIN d.ca
    BY DEF Counted, Live
  <2>4. IsFiniteSet(Counted(d, p)) /\ Cardinality(Counted(d, p)) \in Nat
    BY <1>0, <2>3, RefsFinite
  <2>5. CASE p = l
    <3>1. cr \in Counted(d, l)
      BY DEF Counted
    <3> DEFINE A == Counted(d, l)
    <3>2. IsFiniteSet(A) /\ cr \in A
      BY <2>4, <2>5, <3>1
    <3> HIDE DEF A
    <3>3. Cardinality(A \ {cr}) = Cardinality(A) - 1 /\ IsFiniteSet(A \ {cr})
      BY <3>2, FS_RemoveElement
    <3>4. Cardinality(A \ {cr}) \in Nat
      BY <3>3, FS_CardinalityType
    <3>5. t.n_occ[l] = d.n_occ[l] - 1
      BY <1>3, <2>1, <2>2
    <3> QED
      BY <1>10, <2>1, <2>5, <3>3, <3>4, <3>5 DEF A
  <2>6. CASE p # l
    BY <1>10, <2>1, <2>2, <2>6
  <2> QED
    BY <2>5, <2>6
<1>12. t.n_occ \in [Lits -> Nat]
  <2>1. t.n_occ = [d.n_occ EXCEPT ![l] = @ - 1] /\ d.n_occ \in [Lits -> Nat]
    BY <1>0 DEF Shorter, Lists_
  <2> DEFINE n == d.n_occ
             x == d.n_occ[l] - 1
  <2>2. t.n_occ = [n EXCEPT ![l] = x] /\ n \in [Lits -> Nat]
    BY <2>1
  <2>3. x \in Nat
    <3>1. t.n_occ[l] = x
      BY <1>3, <2>2
    <3> QED
      BY <1>3, <1>11, <3>1
  <2> HIDE DEF n, x
  <2> QED
    BY <2>2, <2>3
<1>13. DbType(t)
  BY <1>0, <1>1, <1>5, <1>7, <1>12 DEF DbType, Memory, Values, Lists_
<1>14. Proper(t)
  BY <1>0, <1>4, <1>5, <1>6 DEF Proper
<1>15. Listed(t)
  <2>1. \A v \in Vars : Lists(t, v) \subseteq Holding(t, v)
    BY <1>0, <1>8, <1>9 DEF Listed
  <2>2. \A v \in Vars \ t.eliminated : Holding(t, v) \subseteq t.occurs[v]
    BY <1>0, <1>1, <1>7, <1>9, ZenonT(60) DEF Listed
  <2>3. \A v \in Vars \ t.dirty : t.occurs[v] \subseteq Live(t)
    BY <1>0, <1>1, <1>6, <1>7, ZenonT(60) DEF Listed
  <2> QED
    BY <1>11, <2>1, <2>2, <2>3 DEF Listed
<1>16. Only(d, t, cr)
  BY <1>5, <1>6 DEF Only
<1> QED
  BY <1>5, <1>6, <1>13, <1>14, <1>15, <1>16 DEF Good

(* What strengthenClause does to the database. *)
Strengthened(d, t, cr, l) ==
  /\ Moves(d, t, {}) /\ Kept_(d, t, {}) /\ Only(d, t, cr)
  /\ cr \in Live(t) => t.ca[cr].lits = d.ca[cr].lits \ {l}

(* The clause has still two literals. *)
LEMMA ShorterStep ==
  ASSUME NEW d, Good(d), d.simp, NEW cr \in Live(d), NEW l \in d.ca[cr].lits,
         \A m \in Full(d) : SatisfiesClause(m, d.ca[cr].lits \ {l}),
         Cardinality(d.ca[cr].lits \ {l}) # 1
  PROVE  Strengthened(d, strengthenClause(d, cr, l), cr, l)
<1> DEFINE c == d.ca[cr].lits \ {l}
           e == [d EXCEPT !.queue = Append(@, cr)]
           s == [e EXCEPT !.ca[cr].lits = c, !.occurs[Var(l)] = @ \ {cr}, !.n_occ[l] = @ - 1]
           t == strengthenClause(d, cr, l)
<1>1. t = updateElimHeap(s, {Var(l)})
  BY DEF strengthenClause
<1>2. cr \in DOMAIN d.ca
  BY DEF Live
<1> HIDE DEF e
<1>3. Same(e, d, {"queue"}) /\ e.queue \in Seq(DOMAIN d.ca) /\ Waiting(e) = Waiting(d) \cup {cr}
  BY <1>2, Enqueued DEF e
<1>4. Good(e) /\ Live(e) = Live(d) /\ Full(e) = Full(d) /\ Kept_(d, e, {}) /\ Moves(d, e, {})
  BY <1>3, QueueStep
<1>5. e.ca = d.ca /\ e.simp = d.simp /\ e.n_occ = d.n_occ /\ Rec(e)
  BY <1>3 DEF Same, DbFields
<1>6. l \in Lits /\ Var(l) \in Vars
  <2>1. d.ca[cr].lits \in SUBSET Lits
    BY <1>2, EntryFacts DEF Good, DbType
  <2> QED
    BY <2>1, LitFacts
<1>7. Shorter(e, s, cr, l)
  <2>1. e = [f \in DbFields |-> e[f]]
    BY <1>5 DEF Rec
  <2>2. e.ca[cr].lits \ {l} = c
    BY <1>5
  <2> HIDE DEF c
  <2> QED
    BY <2>1, <2>2 DEF Same, Rec, DbFields, Shorter
<1> HIDE DEF s, t
<1>8. Good(s) /\ Live(s) = Live(e) /\ Only(e, s, cr) /\ s.ca[cr].lits = c
  <2>1. e.simp /\ cr \in Live(e) /\ l \in e.ca[cr].lits /\ Cardinality(e.ca[cr].lits \ {l}) # 1 /\ Good(e)
    BY <1>4, <1>5
  <2>2. Good(s) /\ Live(s) = Live(e) /\ Only(e, s, cr) /\ s.ca[cr].lits = e.ca[cr].lits \ {l}
    BY <1>7, <2>1, ShorterFacts
  <2> QED
    BY <1>5, <2>2
<1>9. /\ s.learnts = e.learnts /\ s.fixed = e.fixed /\ s.unchecked = e.unchecked
      /\ s.ok = e.ok /\ s.touched = e.touched /\ s.elim_heap = e.elim_heap /\ s.frozen = e.frozen
      /\ s.dirty = e.dirty /\ s.queue = e.queue
      /\ s.eliminated = e.eliminated /\ s.elimclauses = e.elimclauses /\ s.simp = e.simp /\ Rec(s)
  BY <1>7 DEF Shorter, Same, DbFields
<1>10. \A o \in Live(s) : s.ca[o].lits \subseteq e.ca[o].lits /\ (o # cr => s.ca[o].lits = e.ca[o].lits)
  BY <1>5, <1>8 DEF Only
<1>11. LiveVars(s) \subseteq LiveVars(e) /\ Waiting(s) = Waiting(e)
  BY <1>8, <1>9, <1>10 DEF LiveVars, Waiting, VarsOf
<1>12. Moves(e, s, {})
  <2>1. Queues(e, s)
    BY <1>3, <1>8, <1>9, <1>10, <1>11 DEF Queues
  <2> QED
    BY <1>8, <1>9, <1>11, <2>1 DEF Moves, Held, Narrow, Known, Only, LearntsOpen
<1>13. Kept_(e, s, {})
  <2>1. ASSUME NEW m \in Full(e) PROVE m \in Full(s)
    <3>1. m \in Assignments /\ m \in Says(e) /\ Satisfies(m, e.learnts)
      BY SaysFacts DEF Full
    <3>2. MakesAll(m, e.fixed) /\ \A o \in Live(e) : SatisfiesClause(m, e.ca[o].lits)
      BY <3>1, SaysFacts
    <3>3. SatisfiesClause(m, c)
      BY <1>4, <2>1
    <3>4. \A o \in Live(s) : SatisfiesClause(m, s.ca[o].lits)
      BY <1>8, <1>10, <3>2, <3>3
    <3>5. m \in Says(s)
      BY <1>9, <3>1, <3>2, <3>4, SaysFacts
    <3> QED
      BY <1>9, <3>1, <3>5, SaysFacts
  <2>2. ASSUME NEW m \in Says(s) PROVE m \in Says(e)
    <3>1. m \in Assignments
      BY DEF Says
    <3>2. MakesAll(m, s.fixed) /\ \A o \in Live(s) : SatisfiesClause(m, s.ca[o].lits)
      BY <3>1, SaysFacts
    <3>3. \A o \in Live(e) : SatisfiesClause(m, e.ca[o].lits)
      BY <1>8, <1>10, <3>2 DEF SatisfiesClause
    <3> QED
      BY <1>9, <3>1, <3>2, <3>3, SaysFacts
  <2>3. \A m : Satisfies(m, {})
    BY DEF Satisfies
  <2> QED
    BY <1>9, <2>1, <2>2, <2>3 DEF Kept_
<1>14. Good(t) /\ Same(t, s, {"elim_heap"}) /\ Live(t) = Live(s)
  BY <1>1, <1>6, <1>8, HeapFacts
<1>15. t.ca = s.ca /\ t.touched = s.touched /\ Same(t, s, {"occurs", "dirty", "n_occ", "elim_heap", "touched"})
  BY <1>14 DEF Same, DbFields
<1>16. Moves(s, t, {}) /\ Kept_(s, t, {})
  BY <1>8, <1>14, <1>15, AlikeStep
<1>17. Moves(d, t, {}) /\ Kept_(d, t, {})
  <2>1. Moves(d, s, {} \cup {}) /\ Kept_(d, s, {} \cup {})
    BY <1>4, <1>9, <1>12, <1>13, MovesOn, KeptOn
  <2>2. Moves(d, s, {}) /\ Kept_(d, s, {}) /\ (t.ok => s.ok)
    BY <1>16, <2>1 DEF Moves, Held
  <2>3. Moves(d, t, {} \cup {}) /\ Kept_(d, t, {} \cup {})
    BY <1>16, <2>2, MovesOn, KeptOn
  <2> QED
    BY <2>3
<1>18. Only(d, t, cr) /\ t.ca[cr].lits = c
  BY <1>4, <1>5, <1>8, <1>14, <1>15 DEF Only
<1> QED
  BY <1>17, <1>18 DEF Strengthened, t

(* Only one literal is left, and it becomes a fact. *)
LEMMA UnitStep ==
  ASSUME NEW d, Good(d), d.simp, NEW cr \in Live(d), NEW l \in d.ca[cr].lits,
         \A m \in Full(d) : SatisfiesClause(m, d.ca[cr].lits \ {l}),
         Cardinality(d.ca[cr].lits \ {l}) = 1
  PROVE  Strengthened(d, strengthenClause(d, cr, l), cr, l)
<1> DEFINE c == d.ca[cr].lits \ {l}
           e == [d EXCEPT !.queue = Append(@, cr)]
           s == removeClauses(e, {cr})
           t == strengthenClause(d, cr, l)
<1>1. t = propagate(s, c)
  BY DEF strengthenClause
<1>2. cr \in DOMAIN d.ca
  BY DEF Live
<1> HIDE DEF e
<1>3. Same(e, d, {"queue"}) /\ e.queue \in Seq(DOMAIN d.ca) /\ Waiting(e) = Waiting(d) \cup {cr}
  BY <1>2, Enqueued DEF e
<1>4. /\ Good(e) /\ Live(e) = Live(d) /\ Full(e) = Full(d) /\ Says(e) = Says(d) /\ LiveVars(e) = LiveVars(d)
      /\ Kept_(d, e, {}) /\ Moves(d, e, {})
  BY <1>3, QueueStep
<1>5. e.ca = d.ca /\ e.simp = d.simp /\ e.ok = d.ok
  BY <1>3 DEF Same, DbFields
<1>6. c \in SUBSET Lits /\ d.ca[cr].lits \in SUBSET Lits
  BY <1>2, EntryFacts DEF Good, DbType
<1>7. Good(s) /\ Fewer(e, {cr}, s) /\ Moves(e, s, {}) /\ s.ok = e.ok /\ s.fixed = e.fixed /\ Full(e) \subseteq Full(s)
  <2>1. {cr} \in SUBSET Live(e)
    BY <1>4
  <2> QED
    BY <1>4, <2>1, RemoveFacts, RemoveStep
<1> HIDE DEF s, c, t
<1>8. /\ Moves(s, t, VarsOf(c)) /\ Kept_(s, t, Units(c)) /\ Live(t) = Live(s) /\ t.ca = s.ca
  BY <1>1, <1>6, <1>7, PropagateStep
<1>9. \A m \in Full(d) : Satisfies(m, Units(c))
  <2>1. PICK q \in c : c = {q}
    BY <1>6, ManyFacts DEF c
  <2>2. Units(c) = {c}
    BY <2>1 DEF Units
  <2> QED
    BY <2>2 DEF Satisfies, c
<1>10. Moves(d, t, {})
  <2>1. Moves(d, s, {} \cup {})
    BY <1>4, <1>7, MovesOn
  <2>2. Moves(d, t, {} \cup VarsOf(c))
    BY <1>8, <2>1, MovesOn
  <2>3. {} \cup VarsOf(c) \subseteq LiveVars(d) \cup {}
    BY DEF LiveVars, VarsOf, c
  <2> QED
    BY <2>2, <2>3, MovesWithin
<1>11. Kept_(d, t, {})
  <2>1. \A m \in Full(d) : m \in Full(s) /\ Satisfies(m, Units(c))
    BY <1>4, <1>7, <1>9
  <2>2. t.ok => s.ok
    BY <1>8 DEF Moves, Held
  <2>3. ASSUME NEW m \in Says(s), Satisfies(m, Units(c)) PROVE m \in Says(d)
    <3>1. m \in Assignments
      BY DEF Says
    <3>2. MakesAll(m, s.fixed) /\ \A o \in Live(s) : SatisfiesClause(m, s.ca[o].lits)
      BY <3>1, SaysFacts
    <3>3. SatisfiesClause(m, e.ca[cr].lits)
      <4>1. PICK q \in c : c = {q}
        BY <1>6, ManyFacts DEF c
      <4>2. {q} \in Units(c)
        BY <4>1 DEF Units
      <4>3. Makes(m, q)
        BY <2>3, <4>2 DEF Satisfies, SatisfiesClause
      <4>4. q \in e.ca[cr].lits
        BY <1>5, <4>1 DEF c
      <4> QED
        BY <4>3, <4>4 DEF SatisfiesClause
    <3>4. ASSUME NEW o \in Live(e) PROVE SatisfiesClause(m, e.ca[o].lits)
      <4>1. o = cr \/ (o \in Live(s) /\ s.ca[o].lits = e.ca[o].lits)
        BY <1>7 DEF Fewer, Live
      <4> QED
        BY <3>2, <3>3, <4>1
    <3>5. m \in Says(e)
      BY <1>7, <3>1, <3>2, <3>4, SaysFacts
    <3> QED
      BY <1>4, <3>5
  <2>4. \A m : Satisfies(m, {})
    BY DEF Satisfies
  <2>5. CASE t.ok
    <3>1. \A m \in Full(d) : m \in Full(t)
      BY <1>8, <2>1, <2>5 DEF Kept_
    <3>2. \A m \in Says(t) : m \in Says(d)
      BY <1>8, <2>3, <2>5 DEF Kept_
    <3>3. d.ok
      BY <1>5, <1>7, <2>2, <2>5
    <3> QED
      BY <2>4, <2>5, <3>1, <3>2, <3>3 DEF Kept_
  <2>6. CASE ~t.ok
    <3>1. s.ok => Full(d) = {}
      BY <1>8, <2>1, <2>6 DEF Kept_
    <3> QED
      BY <1>5, <1>7, <2>6, <3>1 DEF Kept_
  <2> QED
    BY <2>5, <2>6
<1>12. Only(d, t, cr) /\ cr \notin Live(t)
  <2>1. Live(e) = Live(d) /\ Live(t) = Live(d) \ {cr} /\ DOMAIN t.ca = DOMAIN d.ca
        /\ \A o \in DOMAIN d.ca : t.ca[o].lits = d.ca[o].lits
    BY <1>4, <1>5, <1>7, <1>8 DEF Fewer
  <2> QED
    BY <2>1 DEF Only, Live
<1> QED
  BY <1>10, <1>11, <1>12 DEF Strengthened, t

(* strengthenClause. *)
LEMMA StrengthenStep ==
  ASSUME NEW d, Good(d), d.simp, NEW cr \in Live(d), NEW l \in d.ca[cr].lits,
         \A m \in Full(d) : SatisfiesClause(m, d.ca[cr].lits \ {l})
  PROVE  Strengthened(d, strengthenClause(d, cr, l), cr, l)
BY ShorterStep, UnitStep

(* A reference that is not in use. *)
LEMMA FreshFacts ==
  ASSUME NEW d, Memory(d)
  PROVE  Fresh(d) \in Nat \ {0} /\ Fresh(d) \notin DOMAIN d.ca
<1> DEFINE S == DOMAIN d.ca \cup {0}
<1>1. S \in SUBSET Nat /\ IsFiniteSet(S) /\ S # {}
  <2>1. DOMAIN d.ca \in SUBSET Nat /\ IsFiniteSet(DOMAIN d.ca)
    BY DEF Memory, CRefs
  <2> DEFINE D == DOMAIN d.ca
  <2> HIDE DEF D
  <2>2. IsFiniteSet(D \cup {0})
    BY <2>1, FS_AddElement DEF D
  <2> QED
    BY <2>1, <2>2 DEF D
<1> HIDE DEF S
<1>2. Max(S) \in Nat /\ \A y \in S : Max(S) >= y
  BY <1>1, MaxFacts
<1>3. Fresh(d) = Max(S) + 1
  BY DEF Fresh, S
<1>4. Fresh(d) \notin S /\ Fresh(d) \in Nat \ {0}
  <2>1. ASSUME Max(S) + 1 \in S PROVE FALSE
    BY <1>2, <2>1
  <2> QED
    BY <1>2, <1>3, <2>1
<1> QED
  BY <1>4 DEF S

(* A sequence over a set is one over a larger set. *)
LEMMA SeqWider ==
  ASSUME NEW S, NEW T, S \subseteq T, NEW q \in Seq(S)
  PROVE  q \in Seq(T)
OBVIOUS

(* t has one clause more than d. *)
Grown(d, t, cr, c) ==
  /\ Same(t, d, {"ca", "queue", "occurs", "n_occ", "touched"})
  /\ t.ca = WithClause(d.ca, cr, c)
  /\ IF d.simp
     THEN /\ t.queue = Append(d.queue, cr)
          /\ t.occurs = [v \in Vars |-> IF v \in VarsOf(c) THEN d.occurs[v] \cup {cr} ELSE d.occurs[v]]
          /\ t.n_occ = [p \in Lits |-> IF p \in c THEN d.n_occ[p] + 1 ELSE d.n_occ[p]]
          /\ t.touched = d.touched \cup VarsOf(c)
     ELSE t.queue = d.queue /\ t.occurs = d.occurs /\ t.n_occ = d.n_occ /\ t.touched = d.touched

(* A clause at an unused reference is live and, while simplifying, waits in
   the queue (addClause_, SimpSolver.cc:139-157). *)
LEMMA GrownFacts ==
  ASSUME NEW d, Good(d), NEW c, c \in SUBSET Lits, Cardinality(c) > 1, ~Contradicts(c),
         NEW cr, cr \in Nat \ {0}, cr \notin DOMAIN d.ca, NEW t, Grown(d, t, cr, c)
  PROVE  /\ Good(t) /\ Live(t) = Live(d) \cup {cr} /\ t.ca[cr].lits = c
         /\ DOMAIN t.ca = DOMAIN d.ca \cup {cr} /\ \A o \in DOMAIN d.ca : t.ca[o] = d.ca[o]
         /\ d.simp => Waiting(t) = Waiting(d) \cup {cr}
<1>0. Rec(d) /\ Memory(d) /\ Values(d) /\ Lists_(d) /\ Proper(d) /\ (d.simp => Listed(d))
  BY DEF Good, DbType
<1>1. /\ t.learnts = d.learnts /\ t.fixed = d.fixed /\ t.unchecked = d.unchecked
      /\ t.ok = d.ok /\ t.elim_heap = d.elim_heap /\ t.frozen = d.frozen /\ t.dirty = d.dirty
      /\ t.eliminated = d.eliminated /\ t.elimclauses = d.elimclauses /\ t.simp = d.simp /\ Rec(t)
  BY DEF Grown, Same, DbFields
<1>2. /\ DOMAIN t.ca = DOMAIN d.ca \cup {cr} /\ t.ca[cr] = [lits |-> c, removed |-> FALSE]
      /\ \A o \in DOMAIN d.ca : t.ca[o] = d.ca[o]
  BY DEF Grown, WithClause
<1>3. VarsOf(c) \in SUBSET Vars
  BY VarsOfFacts
<1>4. Memory(t)
  <2>1. IsFiniteSet(DOMAIN t.ca) /\ DOMAIN t.ca \in SUBSET CRefs
    <3> DEFINE D == DOMAIN d.ca
    <3>1. IsFiniteSet(D) /\ D \in SUBSET CRefs
      BY <1>0 DEF Memory
    <3> HIDE DEF D
    <3>2. IsFiniteSet(D \cup {cr})
      BY <3>1, FS_AddElement
    <3> QED
      BY <1>2, <3>1, <3>2 DEF D, CRefs
  <2>2. \A o \in DOMAIN t.ca : t.ca[o] \in Entries
    <3>1. t.ca[cr] \in Entries
      <4>1. [lits |-> c, removed |-> FALSE] \in Entries
        BY DEF Entries
      <4> QED
        BY <1>2, <4>1
    <3>2. \A o \in DOMAIN d.ca : d.ca[o] \in Entries
      BY <1>0 DEF Memory
    <3> QED
      BY <1>2, <3>1, <3>2
  <2>3. t.ca = [o \in DOMAIN t.ca |-> t.ca[o]]
    BY <1>2 DEF Grown, WithClause
  <2> DEFINE ca == t.ca
             D == DOMAIN t.ca
  <2>4. ca = [o \in D |-> ca[o]] /\ \A o \in D : ca[o] \in Entries
    BY <2>2, <2>3
  <2> HIDE DEF ca, D
  <2>5. ca \in [D -> Entries]
    BY <2>4
  <2> QED
    BY <2>1, <2>5 DEF Memory, ca, D
<1>5. Live(t) = Live(d) \cup {cr}
  BY <1>2 DEF Live
<1>6. Proper(t)
  BY <1>0, <1>2, <1>5 DEF Proper, Live
<1>7. Values(t) /\ t.simp = d.simp
  <2>1. t.touched \in SUBSET Vars
    BY <1>0, <1>3 DEF Grown, Values
  <2> QED
    BY <1>0, <1>1, <2>1 DEF Values
<1>8. CASE ~d.simp
  <2>1. t.queue = d.queue /\ t.occurs = d.occurs /\ t.n_occ = d.n_occ /\ t.touched = d.touched
    BY <1>8 DEF Grown
  <2>2. Lists_(t)
    <3>1. DOMAIN d.ca \subseteq DOMAIN t.ca
      BY <1>2
    <3> DEFINE D == DOMAIN d.ca
               T == DOMAIN t.ca
    <3>2. D \subseteq T /\ d.queue \in Seq(D) /\ d.occurs \in [Vars -> SUBSET D]
      BY <1>0, <3>1 DEF Lists_
    <3> HIDE DEF D, T
    <3>3. d.queue \in Seq(T) /\ d.occurs \in [Vars -> SUBSET T]
      BY <3>2, SeqWider
    <3> QED
      BY <1>0, <1>1, <2>1, <3>3 DEF Lists_, T
  <2> QED
    BY <1>1, <1>2, <1>4, <1>5, <1>6, <1>7, <1>8, <2>2 DEF Good, DbType
<1>9. CASE d.simp
  <2>1. /\ t.queue = Append(d.queue, cr)
        /\ \A v \in Vars : t.occurs[v] = IF v \in VarsOf(c) THEN d.occurs[v] \cup {cr} ELSE d.occurs[v]
        /\ \A p \in Lits : t.n_occ[p] = IF p \in c THEN d.n_occ[p] + 1 ELSE d.n_occ[p]
    BY <1>9 DEF Grown
  <2>2. ASSUME NEW v \in Vars
        PROVE  Lists(t, v) = IF v \in VarsOf(c) THEN Lists(d, v) \cup {cr} ELSE Lists(d, v)
    <3>1. d.occurs[v] \subseteq DOMAIN d.ca
      BY <1>0 DEF Lists_
    <3>2. t.ca[cr].removed = FALSE /\ cr \notin d.occurs[v] /\ \A o \in d.occurs[v] : t.ca[o] = d.ca[o]
      BY <1>2, <3>1
    <3>3. CASE v \in VarsOf(c)
      <4>1. t.occurs[v] = d.occurs[v] \cup {cr}
        BY <2>1, <3>3
      <4>2. Lists(t, v) = Lists(d, v) \cup {cr}
        BY <3>2, <4>1 DEF Lists
      <4> QED
        BY <3>3, <4>2
    <3>4. CASE v \notin VarsOf(c)
      <4>1. t.occurs[v] = d.occurs[v]
        BY <2>1, <3>4
      <4>2. Lists(t, v) = Lists(d, v)
        BY <3>2, <4>1 DEF Lists
      <4> QED
        BY <3>4, <4>2
    <3> QED
      BY <3>3, <3>4
  <2>3. ASSUME NEW v
        PROVE  /\ Holding(t, v) = IF v \in VarsOf(c) THEN Holding(d, v) \cup {cr} ELSE Holding(d, v)
               /\ Counted(t, v) = IF v \in c THEN Counted(d, v) \cup {cr} ELSE Counted(d, v)
    BY <1>2, <1>5 DEF Holding, Counted, Live
  <2>4. ASSUME NEW p \in Lits PROVE t.n_occ[p] = Cardinality(Counted(t, p)) /\ t.n_occ[p] \in Nat
    <3> DEFINE A == Counted(d, p)
    <3>1. A \in SUBSET DOMAIN d.ca /\ cr \notin A
      BY DEF Counted, Live
    <3>2. IsFiniteSet(A) /\ Cardinality(A) \in Nat
      BY <1>0, <3>1, RefsFinite
    <3>3. d.n_occ[p] = Cardinality(A)
      BY <1>0, <1>9 DEF Listed
    <3> HIDE DEF A
    <3>4. Cardinality(A \cup {cr}) = Cardinality(A) + 1
      BY <3>1, <3>2, FS_AddElement
    <3>5. CASE p \in c
      <4>1. Counted(t, p) = A \cup {cr} /\ t.n_occ[p] = d.n_occ[p] + 1
        BY <2>1, <2>3, <3>5 DEF A
      <4> QED
        BY <3>2, <3>3, <3>4, <4>1
    <3>6. CASE p \notin c
      <4>1. Counted(t, p) = A /\ t.n_occ[p] = d.n_occ[p]
        BY <2>1, <2>3, <3>6 DEF A
      <4> QED
        BY <3>2, <3>3, <4>1
    <3> QED
      BY <3>5, <3>6
  <2>5. Lists_(t)
    <3> DEFINE D == DOMAIN d.ca
               T == DOMAIN t.ca
    <3>1. T = D \cup {cr} /\ d.queue \in Seq(D) /\ d.occurs \in [Vars -> SUBSET D]
      BY <1>0, <1>2 DEF Lists_
    <3> HIDE DEF D, T
    <3>2. d.queue \in Seq(T)
      BY <3>1, SeqWider
    <3>3. Append(d.queue, cr) \in Seq(T)
      BY <3>1, <3>2
    <3>4. t.occurs \in [Vars -> SUBSET T]
      <4>1. t.occurs = [v \in Vars |-> t.occurs[v]]
        BY <1>9 DEF Grown
      <4>2. \A v \in Vars : t.occurs[v] \in SUBSET T
        BY <2>1, <3>1
      <4> DEFINE o == t.occurs
      <4>3. o = [v \in Vars |-> o[v]] /\ \A v \in Vars : o[v] \in SUBSET T
        BY <4>1, <4>2
      <4> HIDE DEF o
      <4>4. o \in [Vars -> SUBSET T]
        BY <4>3
      <4> QED
        BY <4>4 DEF o
    <3>5. t.n_occ \in [Lits -> Nat]
      <4>1. t.n_occ = [p \in Lits |-> t.n_occ[p]]
        BY <1>9 DEF Grown
      <4> DEFINE o == t.n_occ
      <4>3. o = [p \in Lits |-> o[p]] /\ \A p \in Lits : o[p] \in Nat
        BY <2>4, <4>1
      <4> HIDE DEF o
      <4>4. o \in [Lits -> Nat]
        BY <4>3
      <4> QED
        BY <4>4 DEF o
    <3> QED
      BY <1>0, <1>1, <2>1, <3>3, <3>4, <3>5 DEF Lists_, T
  <2>6. Listed(t)
    <3>1. Listed(d)
      BY <1>0, <1>9
    <3>2. \A v \in Vars : Lists(t, v) \subseteq Holding(t, v)
      BY <2>2, <2>3, <3>1 DEF Listed
    <3>3. \A v \in Vars \ t.eliminated : Holding(t, v) \subseteq t.occurs[v]
      BY <1>1, <2>1, <2>3, <3>1, ZenonT(60) DEF Listed
    <3>4. \A v \in Vars \ t.dirty : t.occurs[v] \subseteq Live(t)
      BY <1>1, <1>5, <2>1, <3>1, ZenonT(60) DEF Listed
    <3> QED
      BY <2>4, <3>2, <3>3, <3>4 DEF Listed
  <2>7. Waiting(t) = Waiting(d) \cup {cr}
    <3> DEFINE q == d.queue
    <3>1. q \in Seq(DOMAIN d.ca)
      BY <1>0 DEF Lists_
    <3> HIDE DEF q
    <3>2. /\ Len(Append(q, cr)) = Len(q) + 1 /\ Len(q) \in Nat
          /\ \A k \in 1 .. Len(q) : Append(q, cr)[k] = q[k]
          /\ Append(q, cr)[Len(q) + 1] = cr
          /\ DOMAIN Append(q, cr) = 1 .. Len(q) + 1 /\ DOMAIN q = 1 .. Len(q)
      BY <3>1
    <3>3. {Append(q, cr)[k] : k \in DOMAIN Append(q, cr)} = {q[k] : k \in DOMAIN q} \cup {cr}
      <4>1. \A k \in 1 .. Len(q) + 1 : k \in 1 .. Len(q) \/ k = Len(q) + 1
        BY <3>2
      <4>2. 1 .. Len(q) \subseteq 1 .. Len(q) + 1 /\ Len(q) + 1 \in 1 .. Len(q) + 1
        BY <3>2
      <4> QED
        BY <3>2, <4>1, <4>2
    <3> QED
      BY <2>1, <3>3 DEF Waiting, q
  <2> QED
    BY <1>1, <1>2, <1>4, <1>5, <1>6, <1>7, <2>5, <2>6, <2>7 DEF Good, DbType
<1> QED
  BY <1>8, <1>9

(* The clauses of d are in t. *)
Added(d, t) == Live(d) \subseteq Live(t) /\ \A o \in Live(d) : t.ca[o].lits = d.ca[o].lits

(* What is new in t is part of c, and says all that c says. *)
Part(d, t, c) == \A o \in Live(t) \ Live(d) : t.ca[o].lits \subseteq c
Tells(d, t, c) ==
  t.ok => \A w \in Assignments :
            MakesAll(w, t.fixed) /\ (\A o \in Live(t) \ Live(d) : SatisfiesClause(w, t.ca[o].lits))
              => SatisfiesClause(w, c)

(* A new clause in memory. *)
LEMMA AllocatedStep ==
  ASSUME NEW d, Good(d), NEW c, c \in SUBSET Lits, Cardinality(c) > 1, ~Contradicts(c),
         VarsOf(c) \cap AssignedVars(d) = {}
  PROVE  /\ Moves(d, Allocated(d, c), VarsOf(c)) /\ Kept_(d, Allocated(d, c), {c})
         /\ Added(d, Allocated(d, c)) /\ Part(d, Allocated(d, c), c) /\ Tells(d, Allocated(d, c), c)
<1> DEFINE t == Allocated(d, c)
           cr == Fresh(d)
<1>1. cr \in Nat \ {0} /\ cr \notin DOMAIN d.ca
  BY FreshFacts DEF Good, DbType
<1>2. Grown(d, t, cr, c)
  <2> DEFINE x == WithClause(d.ca, cr, c)
  <2>1. d = [f \in DbFields |-> d[f]]
    BY DEF Good, DbType, Rec
  <2>2. CASE ~d.simp
    <3>1. t = [d EXCEPT !.ca = x]
      BY <2>2 DEF Allocated
    <3> HIDE DEF x, t, cr
    <3>2. Same(t, d, {"ca", "queue", "occurs", "n_occ", "touched"}) /\ t.ca = x
          /\ t.queue = d.queue /\ t.occurs = d.occurs /\ t.n_occ = d.n_occ /\ t.touched = d.touched
      BY <2>1, <3>1 DEF Same, Rec, DbFields
    <3> QED
      BY <2>2, <3>2 DEF Grown, x
  <2>3. CASE d.simp
    <3> DEFINE q == Append(d.queue, cr)
               oc == [v \in Vars |-> IF v \in VarsOf(c) THEN d.occurs[v] \cup {cr} ELSE d.occurs[v]]
               n == [p \in Lits |-> IF p \in c THEN d.n_occ[p] + 1 ELSE d.n_occ[p]]
               tv == d.touched \cup VarsOf(c)
               s == [d EXCEPT !.ca = x]
    <3>0. Same(s, d, {"ca"}) /\ s.ca = x /\ s = [f \in DbFields |-> s[f]]
      <4> HIDE DEF x
      <4> QED
        BY <2>1 DEF Same, Rec, DbFields
    <3>01. s.queue = d.queue /\ s.occurs = d.occurs /\ s.n_occ = d.n_occ /\ s.touched = d.touched
      BY <3>0 DEF Same, DbFields
    <3>1. t = [s EXCEPT !.queue = q, !.occurs = oc, !.n_occ = n, !.touched = tv]
      <4>1. t = [s EXCEPT !.queue = Append(s.queue, cr),
              !.occurs = [v \in Vars |-> IF v \in VarsOf(c) THEN s.occurs[v] \cup {cr} ELSE s.occurs[v]],
              !.n_occ = [p \in Lits |-> IF p \in c THEN s.n_occ[p] + 1 ELSE s.n_occ[p]],
              !.touched = s.touched \cup VarsOf(c)]
        BY <2>3 DEF Allocated
      <4> HIDE DEF s, cr, t, x
      <4> QED
        BY <3>01, <4>1
    <3> HIDE DEF x, q, oc, n, tv, t, s, cr
    <3>2. Same(t, d, {"ca", "queue", "occurs", "n_occ", "touched"}) /\ t.ca = x
          /\ t.queue = q /\ t.occurs = oc /\ t.n_occ = n /\ t.touched = tv
      BY <3>0, <3>1 DEF Same, Rec, DbFields
    <3> QED
      BY <2>3, <3>2 DEF Grown, x, q, oc, n, tv
  <2> QED
    BY <2>2, <2>3
<1> HIDE DEF t, cr
<1>3. /\ Good(t) /\ Live(t) = Live(d) \cup {cr} /\ t.ca[cr].lits = c
      /\ DOMAIN t.ca = DOMAIN d.ca \cup {cr} /\ \A o \in DOMAIN d.ca : t.ca[o] = d.ca[o]
      /\ d.simp => Waiting(t) = Waiting(d) \cup {cr}
  BY <1>1, <1>2, GrownFacts
<1>4. /\ t.learnts = d.learnts /\ t.fixed = d.fixed /\ t.unchecked = d.unchecked
      /\ t.ok = d.ok /\ t.frozen = d.frozen
      /\ t.eliminated = d.eliminated /\ t.elimclauses = d.elimclauses /\ t.simp = d.simp
      /\ d.simp => t.touched = d.touched \cup VarsOf(c)
  BY <1>2 DEF Grown, Same, DbFields
<1>5. Added(d, t)
  BY <1>3 DEF Added, Live
<1>6. LiveVars(t) = LiveVars(d) \cup VarsOf(c)
  BY <1>3 DEF LiveVars, Live
<1>7. Moves(d, t, VarsOf(c))
  <2>1. Held(d, t) /\ Narrow(d, t, VarsOf(c))
    BY <1>3, <1>4, <1>6 DEF Held, Narrow, Known, LearntsOpen
  <2>2. ASSUME d.simp PROVE Queues(d, t)
    BY <1>3, <1>4, <1>5, <2>2 DEF Queues, Added
  <2> QED
    BY <1>3, <2>1, <2>2 DEF Moves
<1>8. \A m \in Assignments : m \in Says(t) <=> m \in Says(d) /\ SatisfiesClause(m, c)
  BY <1>3, <1>4, <1>5, SaysFacts DEF Added
<1>9. \A m : Satisfies(m, {c}) <=> SatisfiesClause(m, c)
  BY DEF Satisfies
<1>10. Kept_(d, t, {c})
  <2>1. ASSUME NEW m \in Full(d), SatisfiesClause(m, c) PROVE m \in Full(t)
    <3>1. m \in Assignments /\ m \in Says(d) /\ Satisfies(m, d.learnts)
      BY SaysFacts DEF Full
    <3> QED
      BY <1>4, <1>8, <2>1, <3>1, SaysFacts
  <2>2. \A m \in Says(t) : m \in Says(d) /\ SatisfiesClause(m, c)
    BY <1>8 DEF Says
  <2>3. CASE t.ok
    BY <1>4, <1>9, <2>1, <2>2, <2>3 DEF Kept_
  <2>4. CASE ~t.ok
    BY <1>4, <2>4 DEF Kept_
  <2> QED
    BY <2>3, <2>4
<1>11. Part(d, t, c) /\ Tells(d, t, c)
  <2>1. cr \notin Live(d)
    BY <1>1 DEF Live
  <2> QED
    BY <1>3, <2>1 DEF Part, Tells
<1> QED
  BY <1>5, <1>7, <1>10, <1>11 DEF t

(* An assignment that makes the facts true makes none of their negations. *)
LEMMA FalsifiedFacts ==
  ASSUME NEW d, d.fixed \in SUBSET Lits, NEW c \in SUBSET Lits, NEW m \in Assignments, MakesAll(m, d.fixed)
  PROVE  /\ SatisfiesClause(m, c) <=> SatisfiesClause(m, {p \in c : ~Falsified(d, p)})
         /\ satisfied(d, c) => SatisfiesClause(m, c)
         /\ Contradicts(c) => SatisfiesClause(m, c)
<1>1. ASSUME NEW p \in c, Falsified(d, p) PROVE ~Makes(m, p)
  BY <1>1, MakesNeg DEF Falsified, MakesAll
<1>2. ASSUME Contradicts(c) PROVE SatisfiesClause(m, c)
  <2>1. PICK p \in c : Neg(p) \in c
    BY <1>2 DEF Contradicts
  <2>2. Makes(m, p) \/ Makes(m, Neg(p))
    BY MakesNeg
  <2> QED
    BY <2>1, <2>2 DEF SatisfiesClause
<1>3. ASSUME satisfied(d, c) PROVE SatisfiesClause(m, c)
  <2>1. PICK p \in c : p \in d.fixed
    BY <1>3 DEF satisfied
  <2>2. Makes(m, p)
    BY <2>1 DEF MakesAll
  <2> QED
    BY <2>2 DEF SatisfiesClause
<1> QED
  BY <1>1, <1>2, <1>3 DEF SatisfiesClause

(* The database is dead. *)
LEMMA DeadStep ==
  ASSUME NEW d, Good(d), NEW t, t = [d EXCEPT !.ok = FALSE]
  PROVE  /\ Good(t) /\ Live(t) = Live(d) /\ t.ca = d.ca /\ t.ok = FALSE /\ \A U : Moves(d, t, U)
<1>1. Rec(d) /\ Values(d)
  BY DEF Good, DbType
<1>2. Same(t, d, {"ok"}) /\ t.ok = FALSE
  <2>1. Same([d EXCEPT !.ok = FALSE], d, {"ok"}) /\ [d EXCEPT !.ok = FALSE].ok = FALSE
    BY <1>1, FieldFacts, ZenonT(60)
  <2> QED
    BY <2>1
<1>3. /\ t.ca = d.ca /\ t.learnts = d.learnts /\ t.fixed = d.fixed /\ t.unchecked = d.unchecked
      /\ t.frozen = d.frozen /\ t.queue = d.queue /\ t.touched = d.touched /\ t.elim_heap = d.elim_heap
      /\ t.eliminated = d.eliminated /\ t.elimclauses = d.elimclauses /\ t.simp = d.simp
      /\ Same(t, d, {"ok", "touched", "elim_heap", "frozen"})
  BY <1>2 DEF Same, DbFields
<1>4. t.ok \in BOOLEAN /\ t.touched \in SUBSET Vars /\ t.elim_heap \in SUBSET Vars /\ t.frozen \in SUBSET Vars
  BY <1>1, <1>2, <1>3 DEF Values
<1>5. Good(t) /\ Live(t) = Live(d)
  BY <1>3, <1>4, SameGood
<1>6. LiveVars(t) = LiveVars(d) /\ Waiting(t) = Waiting(d)
  BY <1>3, <1>5 DEF LiveVars, Waiting
<1>7. \A U : Moves(d, t, U)
  BY <1>2, <1>3, <1>5, <1>6 DEF Moves, Held, Narrow, Known, Queues
<1> QED
  BY <1>2, <1>3, <1>5, <1>7

(* addClause_ of the solver below. *)
LEMMA StoredStep ==
  ASSUME NEW d, Good(d), NEW c, c \in SUBSET Lits
  PROVE  /\ Moves(d, Stored(d, c), VarsOf(c)) /\ Kept_(d, Stored(d, c), {c})
         /\ Added(d, Stored(d, c)) /\ Part(d, Stored(d, c), c) /\ Tells(d, Stored(d, c), c)
<1> DEFINE t == Stored(d, c)
           rest == {p \in c : ~Falsified(d, p)}
<1>0. d.fixed \in SUBSET Lits /\ d.ok \in BOOLEAN
  BY DEF Good, DbType, Values
<1>1. t = IF ~d.ok \/ satisfied(d, c) \/ Contradicts(c) THEN d
          ELSE IF rest = {} THEN [d EXCEPT !.ok = FALSE]
          ELSE IF Cardinality(rest) = 1 THEN propagate(d, rest) ELSE Allocated(d, rest)
  BY DEF Stored
<1>2. rest \in SUBSET c /\ rest \in SUBSET Lits /\ VarsOf(rest) \subseteq VarsOf(c)
  BY DEF VarsOf
<1>3. \A m \in Assignments : MakesAll(m, d.fixed) =>
        /\ SatisfiesClause(m, c) <=> SatisfiesClause(m, rest)
        /\ satisfied(d, c) => SatisfiesClause(m, c)
        /\ Contradicts(c) => SatisfiesClause(m, c)
  BY <1>0, FalsifiedFacts
<1>4. \A m, N : Satisfies(m, {N}) <=> SatisfiesClause(m, N)
  BY DEF Satisfies
<1>5. \A m \in Full(d) : m \in Assignments /\ MakesAll(m, d.fixed)
  BY DEF Full
<1>6. \A m \in Says(d) : m \in Assignments /\ MakesAll(m, d.fixed)
  BY DEF Says
<1>c. Cardinality(rest) \in Nat /\ (rest = {} <=> Cardinality(rest) = 0)
  BY <1>2, ManyFacts
<1> HIDE DEF rest
<1>7. CASE ~d.ok \/ satisfied(d, c) \/ Contradicts(c)
  <2>1. t = d
    BY <1>1, <1>7
  <2>2. Moves(d, d, VarsOf(c)) /\ Added(d, d)
    BY Stays DEF Added
  <2>3. Kept_(d, d, {c})
    <3>1. CASE d.ok
      <4>1. \A m \in Says(d) : SatisfiesClause(m, c)
        BY <1>3, <1>6, <1>7, <3>1
      <4> QED
        BY <1>4, <3>1, <4>1 DEF Kept_
    <3>2. CASE ~d.ok
      BY <3>2 DEF Kept_
    <3> QED
      BY <3>1, <3>2
  <2>4. Part(d, d, c) /\ Tells(d, d, c)
    BY <1>3, <1>7 DEF Part, Tells
  <2> QED
    BY <2>1, <2>2, <2>3, <2>4
<1> DEFINE skip == ~d.ok \/ satisfied(d, c) \/ Contradicts(c)
<1>8. CASE ~skip /\ rest = {}
  <2>1. t = [d EXCEPT !.ok = FALSE]
    BY <1>1, <1>8
  <2> HIDE DEF t
  <2>2. Good(t) /\ Live(t) = Live(d) /\ t.ca = d.ca /\ t.ok = FALSE /\ Moves(d, t, VarsOf(c))
    BY <2>1, DeadStep
  <2>3. \A m \in Full(d) : ~Satisfies(m, {c})
    BY <1>3, <1>4, <1>5, <1>8 DEF SatisfiesClause
  <2>4. Kept_(d, t, {c}) /\ Added(d, t)
    BY <2>2, <2>3 DEF Kept_, Added
  <2>5. Part(d, t, c) /\ Tells(d, t, c)
    BY <2>2 DEF Part, Tells
  <2> QED
    BY <2>2, <2>4, <2>5 DEF t
<1>9. CASE ~skip /\ rest # {} /\ Cardinality(rest) = 1
  <2>1. t = propagate(d, rest)
    BY <1>1, <1>9
  <2> HIDE DEF t
  <2>2. Moves(d, t, VarsOf(rest)) /\ Kept_(d, t, Units(rest)) /\ Live(t) = Live(d) /\ t.ca = d.ca
        /\ (t.ok => rest \subseteq t.fixed)
    BY <1>2, <2>1, PropagateStep
  <2>3. PICK q \in rest : rest = {q}
    BY <1>2, <1>9, ManyFacts
  <2>4. Units(rest) = {rest}
    BY <2>3 DEF Units
  <2>5. \A m \in Full(d) : Satisfies(m, {c}) => Satisfies(m, Units(rest))
    BY <1>3, <1>4, <1>5, <2>4
  <2>6. \A m \in Says(t) : m \in Says(d) /\ Satisfies(m, Units(rest)) => Satisfies(m, {c})
    BY <1>3, <1>4, <1>6, <2>4
  <2>7. Kept_(d, t, {c})
    BY <2>2, <2>5, <2>6, KeptWithin
  <2>8. Moves(d, t, VarsOf(c))
    BY <1>2, <2>2, MovesWithin
  <2>9. Part(d, t, c) /\ Tells(d, t, c)
    <3>1. ASSUME t.ok, NEW w \in Assignments, MakesAll(w, t.fixed) PROVE SatisfiesClause(w, c)
      <4>1. q \in c /\ q \in t.fixed
        BY <1>2, <2>2, <3>1
      <4> QED
        BY <3>1, <4>1 DEF MakesAll, SatisfiesClause
    <3> QED
      BY <2>2, <3>1 DEF Part, Tells
  <2> QED
    BY <2>2, <2>7, <2>8, <2>9 DEF Added, t
<1>10. CASE ~skip /\ rest # {} /\ Cardinality(rest) # 1
  <2>1. t = Allocated(d, rest)
    BY <1>1, <1>10
  <2> HIDE DEF t
  <2>2. Cardinality(rest) > 1
    BY <1>c, <1>10
  <2>3. ~Contradicts(rest)
    BY <1>2, <1>10 DEF Contradicts
  <2>4. VarsOf(rest) \cap AssignedVars(d) = {}
    <3>1. SUFFICES ASSUME NEW p \in rest, NEW q \in d.fixed, Var(p) = Var(q) PROVE FALSE
      BY DEF VarsOf, AssignedVars
    <3>2. q = p \/ q = Neg(p)
      BY <1>0, <1>2, <3>1, SameVar
    <3>3. p \in c /\ Neg(p) \notin d.fixed
      BY DEF rest, Falsified
    <3> QED
      BY <1>10, <3>2, <3>3 DEF satisfied
  <2>5. Moves(d, t, VarsOf(rest)) /\ Kept_(d, t, {rest}) /\ Added(d, t) /\ Part(d, t, rest) /\ Tells(d, t, rest)
    BY <1>2, <2>1, <2>2, <2>3, <2>4, AllocatedStep
  <2>6. \A m \in Full(d) : Satisfies(m, {c}) => Satisfies(m, {rest})
    BY <1>3, <1>4, <1>5
  <2>7. \A m \in Says(t) : m \in Says(d) /\ Satisfies(m, {rest}) => Satisfies(m, {c})
    BY <1>3, <1>4, <1>6
  <2>8. Kept_(d, t, {c})
    BY <2>5, <2>6, <2>7, KeptWithin
  <2>9. Moves(d, t, VarsOf(c))
    BY <1>2, <2>5, MovesWithin
  <2>10. Part(d, t, c) /\ Tells(d, t, c)
    BY <1>2, <2>5 DEF Part, Tells, SatisfiesClause
  <2> QED
    BY <2>5, <2>8, <2>9, <2>10 DEF t
<1> QED
  BY <1>7, <1>8, <1>9, <1>10

(* addClause_; with use_rcheck it may leave a clause out. *)
LEMMA AddStep ==
  ASSUME NEW d, Good(d), NEW c, c \in SUBSET Lits
  PROVE  /\ Moves(d, addClause_(d, c), VarsOf(c)) /\ Added(d, addClause_(d, c))
         /\ Part(d, addClause_(d, c), c) /\ (~options.use_rcheck => Tells(d, addClause_(d, c), c))
         /\ ~options.use_rcheck => Kept_(d, addClause_(d, c), {c})
<1>1. CASE options.use_rcheck /\ implied(d, c)
  <2>1. addClause_(d, c) = d
    BY <1>1 DEF addClause_
  <2>2. Moves(d, d, VarsOf(c)) /\ Added(d, d) /\ Part(d, d, c)
    BY Stays DEF Added, Part
  <2> QED
    BY <1>1, <2>1, <2>2
<1>2. CASE ~(options.use_rcheck /\ implied(d, c))
  <2>1. addClause_(d, c) = Stored(d, c)
    BY <1>2 DEF addClause_
  <2> QED
    BY <2>1, StoredStep
<1> QED
  BY <1>1, <1>2

(* The clauses of d are in t as they were, and new ones are touched. *)
Grows(d, t) ==
  /\ d.touched \subseteq t.touched
  /\ \A cr \in Live(t) : \/ VarsOf(t.ca[cr].lits) \subseteq t.touched
                         \/ cr \in Live(d) /\ t.ca[cr].lits = d.ca[cr].lits

(* Such steps add up. *)
LEMMA GrowsOn ==
  ASSUME NEW d, NEW e, NEW t, Grows(d, e), Grows(e, t)
  PROVE  Grows(d, t)
<1>1. d.touched \subseteq t.touched /\ e.touched \subseteq t.touched
  BY DEF Grows
<1> SUFFICES ASSUME NEW cr \in Live(t), ~(VarsOf(t.ca[cr].lits) \subseteq t.touched)
             PROVE  cr \in Live(d) /\ t.ca[cr].lits = d.ca[cr].lits
  BY <1>1 DEF Grows
<1>2. cr \in Live(e) /\ t.ca[cr].lits = e.ca[cr].lits
  BY DEF Grows
<1> QED
  BY <1>1, <1>2 DEF Grows

(* Adding a clause and removing clauses are such steps. *)
LEMMA AddGrows ==
  ASSUME NEW d, d.simp, NEW t, NEW U, Moves(d, t, U), Added(d, t)
  PROVE  Grows(d, t)
BY DEF Grows, Moves, Queues, Added

(* Removing clauses brings none in. *)
LEMMA FewerGrows ==
  ASSUME NEW d, NEW t, NEW crs, Fewer(d, crs, t), t.touched = d.touched
  PROVE  Grows(d, t)
BY DEF Grows, Fewer, Live

(* The clause c is said by the database: it is a fact, or that of cr. *)
Saying(d, c, cr) ==
  IF cr = 0 THEN \E l \in d.fixed : c = {l} ELSE cr \in Live(d) /\ d.ca[cr].lits = c
(* It has nothing to say of the clause e. *)
Silent(c, e) == ~(c \subseteq e) /\ Flips(c, e) = {}

(* Every assignment of the database satisfies what it says. *)
LEMMA SayingHolds ==
  ASSUME NEW d, NEW c, NEW cr, Saying(d, c, cr), NEW m \in Says(d)
  PROVE  SatisfiesClause(m, c)
<1>1. m \in Assignments /\ MakesAll(m, d.fixed) /\ \A o \in Live(d) : SatisfiesClause(m, d.ca[o].lits)
  BY SaysFacts DEF Says
<1>2. CASE cr = 0
  <2>1. PICK l \in d.fixed : c = {l}
    BY <1>2 DEF Saying
  <2>2. Makes(m, l)
    BY <1>1 DEF MakesAll
  <2> QED
    BY <2>1, <2>2 DEF SatisfiesClause
<1>3. CASE cr # 0
  BY <1>1, <1>3 DEF Saying
<1> QED
  BY <1>2, <1>3

(* A step on another clause keeps it. *)
LEMMA SayingKept ==
  ASSUME NEW d, NEW c, NEW cr, Saying(d, c, cr), NEW t, NEW o, o # cr, Only(d, t, o), Held(d, t)
  PROVE  Saying(t, c, cr)
BY DEF Saying, Only, Held

(* A step that takes the clause cr away, or a literal out of it. *)
Compared(d, t, c, cr) ==
  /\ Moves(d, t, {}) /\ Kept_(d, t, {}) /\ Only(d, t, cr)
  /\ cr \in Live(t) => t.ca[cr].lits \subseteq d.ca[cr].lits
  /\ t.ok => cr \notin Live(t) \/ Silent(c, t.ca[cr].lits)

(* One comparison of backwardSubsumptionCheck: a clause that is subsumed
   goes, one that is strengthened says as much. *)
LEMMA SimplifiedStep ==
  ASSUME NEW d, Good(d), d.simp, NEW c, c \in SUBSET Lits, ~Contradicts(c),
         NEW cr0, Saying(d, c, cr0), NEW cr, cr \in DOMAIN d.ca, cr # cr0
  PROVE  Compared(d, Simplified(d, c, cr), c, cr)
<1> DEFINE t == Simplified(d, c, cr)
           e == d.ca[cr].lits
<1>0. e \in SUBSET Lits /\ (cr \in Live(d) <=> ~d.ca[cr].removed)
  BY EntryFacts DEF Good, DbType
<1>1. t = IF d.ca[cr].removed \/ ~d.ok THEN d
          ELSE IF c \subseteq e THEN removeClauses(d, {cr})
          ELSE IF Flips(c, e) # {} THEN strengthenClause(d, cr, Neg(CHOOSE l \in Flips(c, e) : TRUE))
          ELSE d
  BY DEF Simplified
<1>s. Moves(d, d, {}) /\ Kept_(d, d, {}) /\ Only(d, d, cr)
  BY Stays DEF Only
<1> HIDE DEF t
<1>2. CASE d.ca[cr].removed \/ ~d.ok
  <2>1. t = d
    BY <1>1, <1>2
  <2> QED
    BY <1>0, <1>2, <1>s, <2>1 DEF Compared, t
<1>3. CASE ~(d.ca[cr].removed \/ ~d.ok) /\ c \subseteq e
  <2>1. t = removeClauses(d, {cr}) /\ {cr} \in SUBSET Live(d)
    BY <1>0, <1>1, <1>3
  <2> DEFINE crs == {cr}
  <2>2. crs \in SUBSET Live(d) /\ t = removeClauses(d, crs)
    BY <2>1
  <2> HIDE DEF crs
  <2>3. Moves(d, t, {}) /\ t.ok = d.ok /\ t.fixed = d.fixed /\ Full(d) \subseteq Full(t) /\ Fewer(d, crs, t)
    BY <2>2, RemoveStep, RemoveFacts
  <2>4. Only(d, t, cr) /\ cr \notin Live(t)
    BY <2>3 DEF Fewer, Only, Live, crs
  <2>5. Saying(t, c, cr0)
    BY <2>3, <2>4, SayingKept DEF Moves
  <2>6. ASSUME NEW m \in Says(t) PROVE m \in Says(d)
    <3>1. m \in Assignments /\ MakesAll(m, t.fixed) /\ \A o \in Live(t) : SatisfiesClause(m, t.ca[o].lits)
      BY SaysFacts DEF Says
    <3>2. SatisfiesClause(m, c)
      BY <2>5, SayingHolds
    <3>3. SatisfiesClause(m, e)
      BY <1>3, <3>2 DEF SatisfiesClause
    <3>4. \A o \in Live(d) : SatisfiesClause(m, d.ca[o].lits)
      BY <2>4, <3>1, <3>3 DEF Only
    <3> QED
      BY <2>3, <3>1, <3>4, SaysFacts
  <2>7. Kept_(d, t, {})
    BY <2>3, <2>6 DEF Kept_, Satisfies
  <2> QED
    BY <2>3, <2>4, <2>7 DEF Compared, t
<1>4. CASE ~(d.ca[cr].removed \/ ~d.ok) /\ ~(c \subseteq e) /\ Flips(c, e) # {}
  <2> DEFINE l == CHOOSE l \in Flips(c, e) : TRUE
             n == Neg(l)
  <2>1. t = strengthenClause(d, cr, n) /\ cr \in Live(d)
    BY <1>0, <1>1, <1>4
  <2>2. l \in Flips(c, e)
    BY <1>4
  <2> HIDE DEF l
  <2>3. l \in c /\ n \in e /\ c \ {l} \subseteq e /\ l \in Lits /\ n \in Lits /\ Neg(n) = l /\ n # l
    BY <2>2, LitFacts DEF Flips
  <2> HIDE DEF n
  <2>4. ASSUME NEW m \in Full(d) PROVE SatisfiesClause(m, e \ {n})
    <3>1. m \in Says(d) /\ m \in Assignments
      BY SaysFacts DEF Full
    <3>2. SatisfiesClause(m, c)
      BY <3>1, SayingHolds
    <3>3. SatisfiesClause(m, e)
      BY <2>1, <3>1, SaysFacts
    <3>4. CASE Makes(m, l)
      <4>1. ~Makes(m, n)
        BY <2>3, <3>1, <3>4, MakesNeg
      <4> QED
        BY <3>3, <4>1 DEF SatisfiesClause
    <3>5. CASE ~Makes(m, l)
      <4>1. PICK q \in c : Makes(m, q)
        BY <3>2 DEF SatisfiesClause
      <4>2. q # l /\ q \in e
        BY <2>3, <3>5, <4>1
      <4>3. q # n
        BY <2>3, <4>1 DEF Contradicts
      <4> QED
        BY <4>1, <4>2, <4>3 DEF SatisfiesClause
    <3> QED
      BY <3>4, <3>5
  <2>5. Strengthened(d, t, cr, n)
    BY <2>1, <2>3, <2>4, StrengthenStep
  <2>6. Silent(c, e \ {n})
    <3>0. ~Contradicts(e)
      BY <2>1 DEF Good, Proper
    <3>1. l \notin e
      BY <2>3, <3>0 DEF Contradicts
    <3>2. ~(c \subseteq e \ {n})
      BY <2>3, <3>1
    <3>3. ASSUME NEW k \in Flips(c, e \ {n}) PROVE FALSE
      <4>1. k \in c /\ Neg(k) \in e \ {n} /\ c \ {k} \subseteq e \ {n}
        BY DEF Flips
      <4>2. k = l
        BY <2>3, <3>1, <4>1
      <4>3. Neg(l) = n
        BY <2>3, LitFacts DEF n
      <4> QED
        BY <4>1, <4>2, <4>3
    <3> QED
      BY <3>2, <3>3 DEF Silent
  <2> QED
    BY <2>5, <2>6 DEF Compared, Strengthened, t
<1>5. CASE ~(d.ca[cr].removed \/ ~d.ok) /\ ~(c \subseteq e) /\ Flips(c, e) = {}
  <2>1. t = d
    BY <1>1, <1>5
  <2> QED
    BY <1>5, <1>s, <2>1 DEF Compared, Silent, t
<1> QED
  BY <1>2, <1>3, <1>4, <1>5 DEF t

-----------------------------------------------------------------------------
(* A clause compared with all of a list. *)
SimplifyOp(ctx, e, k) == Simplified(e, ctx[1], ctx[2][k])
Simplifies == INSTANCE FoldTheorems WITH op <- SimplifyOp, pick <- OneOf

AllSimplified(d, c, s) == (CHOOSE f : Simplifies!Chooses(<<c, s>>, d, Len(s), f))[Len(s)]

(* What is so of the first k of the list. *)
ComparedTo(d, t, c, cr0, s, k) ==
  /\ Moves(d, t, {}) /\ Kept_(d, t, {}) /\ Saying(t, c, cr0)
  /\ DOMAIN t.ca = DOMAIN d.ca /\ Live(t) \subseteq Live(d)
  /\ \A o \in Live(t) : t.ca[o].lits \subseteq d.ca[o].lits
  /\ t.ok => \A j \in 1 .. k : s[j] \in Live(t) => Silent(c, t.ca[s[j]].lits)

(* A clause is compared with one after the other. *)
LEMMA ComparedAll ==
  ASSUME NEW d, Good(d), d.simp, NEW c, c \in SUBSET Lits, ~Contradicts(c),
         NEW cr0, Saying(d, c, cr0), NEW s, s \in Seq(DOMAIN d.ca \ {cr0})
  PROVE  ComparedTo(d, AllSimplified(d, c, s), c, cr0, s, Len(s))
<1> DEFINE n == Len(s)
           t == AllSimplified(d, c, s)
<1>0. n \in Nat /\ \A k \in 1 .. n : s[k] \in DOMAIN d.ca \ {cr0}
  OBVIOUS
<1>1. t = (CHOOSE f : Simplifies!Chooses(<<c, s>>, d, n, f))[n]
  BY DEF AllSimplified
<1> HIDE DEF n, t
<1>2. PICK g : Simplifies!Trace(<<c, s>>, d, n, g) /\ g[n] = (CHOOSE f : Simplifies!Chooses(<<c, s>>, d, n, f))[n]
  BY <1>0, Least, Simplifies!EachTrace
<1>3. g[n] = t
  BY <1>1, <1>2
<1>4. g[0] = d /\ \A k \in 1 .. n : g[k] = Simplified(g[k - 1], c, s[k])
  BY <1>2 DEF Simplifies!Trace, SimplifyOp
<1> DEFINE P(k) == ComparedTo(d, g[k], c, cr0, s, k)
           G == {k \in 0 .. n : P(k)}
<1>5. 0 \in G
  <2>1. Moves(d, d, {}) /\ Kept_(d, d, {})
    BY Stays
  <2>2. ComparedTo(d, d, c, cr0, s, 0)
    BY <2>1 DEF ComparedTo
  <2> QED
    BY <1>0, <1>4, <2>2
<1>6. ASSUME NEW k \in 1 .. n, k - 1 \in G PROVE k \in G
  <2> DEFINE x == g[k - 1]
             y == g[k]
  <2>1. ComparedTo(d, x, c, cr0, s, k - 1) /\ y = Simplified(x, c, s[k]) /\ k \in 0 .. n /\ k \in Nat \ {0}
    BY <1>0, <1>4, <1>6
  <2> HIDE DEF x, y
  <2>2. Good(x) /\ x.simp /\ Saying(x, c, cr0) /\ s[k] \in DOMAIN x.ca /\ s[k] # cr0
    BY <1>0, <2>1 DEF ComparedTo, Moves, Held
  <2>3. Compared(x, y, c, s[k])
    <3> DEFINE o == s[k]
    <3>1. o \in DOMAIN x.ca /\ o # cr0 /\ y = Simplified(x, c, o)
      BY <2>1, <2>2
    <3> HIDE DEF o
    <3>2. Compared(x, y, c, o)
      BY <2>2, <3>1, SimplifiedStep
    <3> QED
      BY <3>2 DEF o
  <2>4. Moves(d, y, {}) /\ Kept_(d, y, {})
    <3>1. Moves(d, x, {}) /\ Kept_(d, x, {}) /\ Moves(x, y, {}) /\ Kept_(x, y, {}) /\ (y.ok => x.ok)
      BY <2>1, <2>3 DEF ComparedTo, Compared, Moves, Held
    <3>2. Moves(d, y, {} \cup {}) /\ Kept_(d, y, {} \cup {})
      BY <3>1, MovesOn, KeptOn
    <3> QED
      BY <3>2
  <2>5. Saying(y, c, cr0)
    BY <2>2, <2>3, SayingKept DEF Compared, Moves
  <2>6. DOMAIN y.ca = DOMAIN d.ca /\ Live(y) \subseteq Live(d)
    BY <2>1, <2>3 DEF ComparedTo, Compared, Only
  <2>7. \A o \in Live(y) : y.ca[o].lits \subseteq x.ca[o].lits /\ (o # s[k] => y.ca[o].lits = x.ca[o].lits) /\ o \in Live(x)
    <3>1. Queues(x, y) /\ Only(x, y, s[k])
      BY <2>2, <2>3 DEF Compared, Moves
    <3>2. s[k] \in Live(y) => y.ca[s[k]].lits \subseteq x.ca[s[k]].lits
      BY <2>3 DEF Compared
    <3> QED
      BY <3>1, <3>2 DEF Only
  <2>8. \A o \in Live(y) : y.ca[o].lits \subseteq d.ca[o].lits
    BY <2>1, <2>6, <2>7 DEF ComparedTo
  <2>9. ASSUME y.ok, NEW j \in 1 .. k, s[j] \in Live(y) PROVE Silent(c, y.ca[s[j]].lits)
    <3>1. CASE s[j] = s[k]
      BY <2>3, <2>9, <3>1 DEF Compared
    <3>2. CASE s[j] # s[k]
      <4>1. j \in 1 .. k - 1 /\ x.ok
        BY <2>1, <2>3, <2>9, <3>2 DEF Compared, Moves, Held
      <4>2. s[j] \in Live(x) /\ y.ca[s[j]].lits = x.ca[s[j]].lits
        BY <2>7, <2>9, <3>2
      <4>3. Silent(c, x.ca[s[j]].lits)
        BY <2>1, <4>1, <4>2 DEF ComparedTo
      <4> QED
        BY <4>2, <4>3
    <3> QED
      BY <3>1, <3>2
  <2>10. ComparedTo(d, y, c, cr0, s, k)
    BY <2>4, <2>5, <2>6, <2>8, <2>9 DEF ComparedTo
  <2> QED
    BY <2>1, <2>10 DEF y
<1> HIDE DEF G
<1>7. n \in G
  BY <1>0, <1>5, <1>6, Least, Simplifies!Climb
<1> QED
  BY <1>3, <1>7 DEF G, n, t

Clean(d) == \A cr \in Live(d) : VarsOf(d.ca[cr].lits) \cap d.eliminated = {}

(* There is a variable that occurs least. *)
LEMMA BestFacts ==
  ASSUME NEW d, Good(d), NEW c, c \in SUBSET Lits, c # {}
  PROVE  best(d, c) \in VarsOf(c) /\ best(d, c) \in Vars
<1> DEFINE size(v) == Cardinality(d.occurs[v])
           B == {size(v) : v \in VarsOf(c)}
<1>1. VarsOf(c) \in SUBSET Vars /\ VarsOf(c) # {}
  BY VarsOfFacts DEF VarsOf
<1>2. ASSUME NEW v \in VarsOf(c) PROVE size(v) \in Nat
  <2>1. d.occurs[v] \in SUBSET DOMAIN d.ca
    BY <1>1 DEF Good, DbType, Lists_
  <2> QED
    BY <2>1, RefsFinite DEF Good, DbType
<1>3. B \in SUBSET Nat /\ B # {}
  BY <1>1, <1>2
<1> HIDE DEF B
<1>4. PICK b \in B : \A e \in B : b <= e
  BY <1>3, Least
<1>5. PICK v \in VarsOf(c) : b = size(v)
  BY <1>4 DEF B
<1>6. \A w \in VarsOf(c) : size(v) <= size(w)
  BY <1>4, <1>5 DEF B
<1>7. best(d, c) = CHOOSE u \in VarsOf(c) : \A w \in VarsOf(c) : size(u) <= size(w)
  BY DEF best
<1> HIDE DEF size
<1>8. best(d, c) \in VarsOf(c)
  BY <1>5, <1>6, <1>7
<1> QED
  BY <1>1, <1>8

(* What has something to say of a clause has its variables. *)
LEMMA SpeakingVars ==
  ASSUME NEW c, c \in SUBSET Lits, NEW e, e \in SUBSET Lits, ~Silent(c, e)
  PROVE  VarsOf(c) \subseteq VarsOf(e)
<1>1. CASE c \subseteq e
  BY <1>1 DEF VarsOf
<1>2. CASE Flips(c, e) # {}
  <2>1. PICK l \in c : Neg(l) \in e /\ c \ {l} \subseteq e
    BY <1>2 DEF Flips
  <2>2. Var(Neg(l)) = Var(l)
    BY <2>1, LitFacts
  <2>3. ASSUME NEW p \in c PROVE Var(p) \in VarsOf(e)
    BY <2>1, <2>2 DEF VarsOf
  <2> QED
    BY <2>3 DEF VarsOf
<1> QED
  BY <1>1, <1>2 DEF Silent

(* A clause compared with all that share a variable. *)
LEMMA AgainstStep ==
  ASSUME NEW d0, Good(d0), d0.simp, NEW c, c \in SUBSET Lits, c # {}, ~Contradicts(c),
         NEW cr, Saying(d0, c, cr)
  PROVE  LET t == Against(d0, c, cr) IN
         /\ Moves(d0, t, {}) /\ Kept_(d0, t, {}) /\ Saying(t, c, cr)
         /\ Live(t) \subseteq Live(d0) /\ \A o \in Live(t) : t.ca[o].lits \subseteq d0.ca[o].lits
         /\ t.ok /\ Clean(d0) /\ options.subsumption_lim = -1 =>
              \A o \in Live(t) \ {cr} : Silent(c, t.ca[o].lits)
<1> DEFINE b == best(d0, c)
           d == lookup(d0, b)
           others == {o \in d.occurs[b] \ {cr} : SmallEnough(d.ca[o].lits)}
           s == InOrder(others)
           t == Against(d0, c, cr)
<1>1. t = AllSimplified(d, c, s)
  BY DEF Against, Each, AllSimplified, Simplifies!Chooses, SimplifyOp
<1>2. b \in VarsOf(c) /\ b \in Vars
  BY BestFacts
<1> HIDE DEF b
<1>3. /\ Good(d) /\ Same(d, d0, {"occurs", "dirty"}) /\ Live(d) = Live(d0)
      /\ d.occurs[b] = Lists(d0, b) /\ d.occurs[b] \in SUBSET Live(d0)
  BY <1>2, LookupFacts
<1> HIDE DEF d
<1>4. d.ca = d0.ca /\ d.fixed = d0.fixed /\ d.simp /\ d.touched = d0.touched
      /\ Same(d, d0, {"occurs", "dirty", "n_occ", "elim_heap", "touched"})
  BY <1>3 DEF Same, DbFields
<1>5. Moves(d0, d, {}) /\ Kept_(d0, d, {})
  BY <1>3, <1>4, AlikeStep
<1>6. others \in SUBSET Live(d0) /\ others \in SUBSET (DOMAIN d.ca \ {cr}) /\ others \in SUBSET DOMAIN d.ca
  BY <1>3, <1>4 DEF Live
<1>7. others \in SUBSET Nat /\ IsFiniteSet(others)
  BY <1>3, <1>6, RefsFinite DEF Good, DbType
<1> HIDE DEF others
<1>8. /\ s \in Seq(others) /\ Len(s) \in Nat /\ \A x \in others : \E k \in 1 .. Len(s) : s[k] = x
  BY <1>7, InOrderFacts
<1> HIDE DEF s
<1>9. s \in Seq(DOMAIN d.ca \ {cr})
  <2> DEFINE T == DOMAIN d.ca \ {cr}
  <2>1. others \subseteq T
    BY <1>6
  <2> HIDE DEF T
  <2>2. s \in Seq(T)
    BY <1>8, <2>1, SeqWider
  <2> QED
    BY <2>2 DEF T
<1>10. Saying(d, c, cr)
  BY <1>3, <1>4 DEF Saying
<1> HIDE DEF t
<1>11. ComparedTo(d, t, c, cr, s, Len(s))
  BY <1>1, <1>3, <1>4, <1>9, <1>10, ComparedAll
<1>12. Moves(d0, t, {}) /\ Kept_(d0, t, {})
  <2>1. Moves(d, t, {}) /\ Kept_(d, t, {}) /\ (t.ok => d.ok)
    BY <1>11 DEF ComparedTo, Moves, Held
  <2>2. Moves(d0, t, {} \cup {}) /\ Kept_(d0, t, {} \cup {})
    BY <1>5, <2>1, MovesOn, KeptOn
  <2> QED
    BY <2>2
<1>13. Saying(t, c, cr) /\ Live(t) \subseteq Live(d0) /\ \A o \in Live(t) : t.ca[o].lits \subseteq d0.ca[o].lits
  BY <1>3, <1>4, <1>11 DEF ComparedTo
<1>14. ASSUME t.ok, Clean(d0), options.subsumption_lim = -1, NEW o \in Live(t) \ {cr}
       PROVE  Silent(c, t.ca[o].lits)
  <2>1. CASE o \in others
    BY <1>8, <1>11, <1>14, <2>1 DEF ComparedTo
  <2>2. CASE o \notin others
    <3>1. o \notin Lists(d0, b)
      BY <1>3, <1>14, <2>2 DEF others, SmallEnough
    <3>2. b \notin VarsOf(d0.ca[o].lits)
      <4>1. o \in Live(d0)
        BY <1>13, <1>14
      <4>2. CASE b \in d0.eliminated
        BY <1>14, <4>1, <4>2 DEF Clean
      <4>3. CASE b \notin d0.eliminated
        <5>1. Holding(d0, b) \subseteq d0.occurs[b]
          BY <1>2, <4>3 DEF Good, Listed
        <5> QED
          BY <3>1, <4>1, <5>1 DEF Holding, Lists, Live
      <4> QED
        BY <4>2, <4>3
    <3>3. b \notin VarsOf(t.ca[o].lits)
      BY <1>13, <1>14, <3>2 DEF VarsOf
    <3>4. t.ca[o].lits \in SUBSET Lits
      <4>1. Good(t) /\ o \in DOMAIN t.ca
        BY <1>12, <1>14 DEF Moves, Live
      <4> QED
        BY <4>1, EntryFacts DEF Good, DbType
    <3> QED
      BY <1>2, <3>3, <3>4, SpeakingVars
  <2> QED
    BY <2>1, <2>2
<1> QED
  BY <1>12, <1>13, <1>14 DEF t

-----------------------------------------------------------------------------
(* The clauses of touched variables are queued. *)
QueueOp(ctx, e, k) == Queued(e, ctx[k])
Queueing == INSTANCE FoldTheorems WITH op <- QueueOp, pick <- OneOf

(* t has other lists and a longer queue. *)
Relisted(d, t) ==
  /\ Good(t) /\ Same(t, d, {"occurs", "dirty", "queue"}) /\ Waiting(d) \subseteq Waiting(t)
  /\ \A u \in Vars : Lists(t, u) = Lists(d, u)

(* gatherTouchedClauses puts every clause of a touched variable into the
   queue. *)
LEMMA QueuedStep ==
  ASSUME NEW d, Good(d), NEW v \in Vars
  PROVE  Relisted(d, Queued(d, v)) /\ Lists(d, v) \subseteq Waiting(Queued(d, v))
<1> DEFINE e == lookup(d, v)
           new == Lists(e, v) \ {e.queue[k] : k \in DOMAIN e.queue}
           q == e.queue
           t == Queued(d, v)
<1>0. Lists(e, v) = Lists(lookup(d, v), v)
  OBVIOUS
<1>1. Good(e) /\ Same(e, d, {"occurs", "dirty"}) /\ \A u \in Vars : Lists(e, u) = Lists(d, u)
  BY LookupFacts
<1>2. t = [e EXCEPT !.queue = q \o InOrder(Lists(d, v) \ {q[k] : k \in DOMAIN q})]
  BY DEF Queued
<1> HIDE DEF e, t
<1> DEFINE add == Lists(d, v) \ {q[k] : k \in DOMAIN q}
           a == InOrder(add)
<1>3. Lists(d, v) \in SUBSET DOMAIN e.ca
  <2>1. e.occurs[v] \in SUBSET DOMAIN e.ca
    BY <1>1 DEF Good, DbType, Lists_
  <2> QED
    BY <1>1, <2>1 DEF Lists
<1>4. add \in SUBSET DOMAIN e.ca /\ add \in SUBSET Nat /\ IsFiniteSet(add)
  <2>1. add \in SUBSET DOMAIN e.ca
    BY <1>3
  <2> HIDE DEF add
  <2> QED
    BY <1>1, <2>1, RefsFinite DEF Good, DbType
<1>5. /\ a \in Seq(add) /\ Len(a) \in Nat /\ DOMAIN a = 1 .. Len(a)
      /\ \A x \in add : \E k \in 1 .. Len(a) : a[k] = x
  <2> HIDE DEF add
  <2> QED
    BY <1>4, InOrderFacts
<1> DEFINE D == DOMAIN e.ca
<1>6. q \in Seq(D) /\ Rec(e)
  BY <1>1 DEF Good, DbType, Lists_
<1>7. a \in Seq(D)
  <2>1. add \subseteq D
    BY <1>4
  <2> HIDE DEF add, D, a
  <2> QED
    BY <1>5, <2>1, SeqWider
<1>a. {q[k] : k \in DOMAIN q} \cup add = {q[k] : k \in DOMAIN q} \cup Lists(d, v)
  OBVIOUS
<1> HIDE DEF q, a, D, add
<1>8. /\ q \o a \in Seq(D) /\ DOMAIN (q \o a) = 1 .. Len(q) + Len(a) /\ DOMAIN q = 1 .. Len(q) /\ Len(q) \in Nat
      /\ \A k \in 1 .. Len(q) : (q \o a)[k] = q[k]
      /\ \A k \in 1 .. Len(a) : (q \o a)[Len(q) + k] = a[k]
  BY <1>5, <1>6, <1>7
<1>9. Same(t, e, {"queue"}) /\ t.queue = q \o a
  <2> DEFINE x == q \o a
  <2>1. t = [e EXCEPT !.queue = x]
    BY <1>2 DEF a, add
  <2> HIDE DEF x
  <2>2. Same([e EXCEPT !.queue = x], e, {"queue"}) /\ [e EXCEPT !.queue = x].queue = x
    BY <1>6, FieldFacts
  <2> QED
    BY <2>1, <2>2 DEF x
<1>10. {q[k] : k \in DOMAIN q} \subseteq Waiting(t) /\ add \subseteq Waiting(t)
  <2>1. \A k \in 1 .. Len(q) : k \in 1 .. Len(q) + Len(a)
    BY <1>5, <1>8
  <2>2. \A k \in 1 .. Len(a) : Len(q) + k \in 1 .. Len(q) + Len(a)
    BY <1>5, <1>8
  <2>3. {q[k] : k \in DOMAIN q} \subseteq Waiting(t)
    BY <1>8, <1>9, <2>1 DEF Waiting
  <2>4. ASSUME NEW x \in add PROVE x \in Waiting(t)
    <3>1. PICK k \in 1 .. Len(a) : a[k] = x
      BY <1>5
    <3>2. (q \o a)[Len(q) + k] = x /\ Len(q) + k \in DOMAIN (q \o a)
      BY <1>8, <2>2, <3>1
    <3> QED
      BY <1>9, <3>2 DEF Waiting
  <2> QED
    BY <2>3, <2>4
<1>11. Good(t) /\ \A u \in Vars : Lists(t, u) = Lists(d, u)
  <2>1. t.queue \in Seq(DOMAIN e.ca)
    BY <1>8, <1>9 DEF D
  <2>2. Good(e) /\ Same(t, e, {"queue"})
    BY <1>1, <1>9
  <2>3. Good(t) /\ \A u : Lists(t, u) = Lists(e, u)
    BY <2>1, <2>2, QueueStep
  <2> QED
    BY <1>1, <2>3
<1>12. Same(t, d, {"occurs", "dirty", "queue"})
  BY <1>1, <1>9 DEF Same, DbFields
<1>13. Waiting(d) \subseteq Waiting(t) /\ Lists(d, v) \subseteq Waiting(t)
  <2>1. Waiting(d) = {q[k] : k \in DOMAIN q}
    BY <1>1 DEF Waiting, q, Same, DbFields
  <2> QED
    BY <1>10, <1>a, <2>1
<1> QED
  BY <1>11, <1>12, <1>13 DEF Relisted, t

(* Two steps that only clean lists or fill the queue are such a step
   together. *)
LEMMA RelistedOn ==
  ASSUME NEW d, NEW e, NEW t, Relisted(d, e), Relisted(e, t)
  PROVE  Relisted(d, t)
BY DEF Relisted, Same, DbFields

(* gatherTouchedClauses. *)
LEMMA GatherStep ==
  ASSUME NEW d, Good(d)
  PROVE  LET t == gatherTouchedClauses(d) IN
         /\ Good(t) /\ Same(t, d, {"occurs", "dirty", "queue", "touched"}) /\ t.touched = {}
         /\ Waiting(d) \subseteq Waiting(t) /\ \A v \in d.touched : Lists(d, v) \subseteq Waiting(t)
<1> DEFINE s == InOrder(d.touched)
           n == Len(s)
           all == (CHOOSE f : Queueing!Chooses(s, d, n, f))[n]
           t == gatherTouchedClauses(d)
<1>1. t = [all EXCEPT !.touched = {}]
  BY DEF gatherTouchedClauses, Each, Queueing!Chooses, QueueOp
<1> HIDE DEF t, all
<1>2. d.touched \in SUBSET Vars /\ d.touched \in SUBSET Nat /\ IsFiniteSet(d.touched)
  <2>1. d.touched \in SUBSET Vars
    BY DEF Good, DbType, Values
  <2> QED
    BY <2>1, VarsFinite
<1>3. /\ n \in Nat /\ \A k \in 1 .. n : s[k] \in d.touched
      /\ \A x \in d.touched : \E k \in 1 .. n : s[k] = x
  BY <1>2, InOrderFacts
<1> HIDE DEF s, n
<1>n. n \in Nat
  BY <1>3
<1>4. PICK g : Queueing!Trace(s, d, n, g) /\ g[n] = (CHOOSE f : Queueing!Chooses(s, d, n, f))[n]
  BY <1>n, Least, Queueing!EachTrace
<1>5. g[n] = all
  BY <1>4 DEF all
<1>6. g[0] = d /\ \A k \in 1 .. n : g[k] = Queued(g[k - 1], s[k])
  BY <1>4 DEF Queueing!Trace, QueueOp
<1> DEFINE P(k, x) == Relisted(d, x) /\ \A j \in 1 .. k : Lists(d, s[j]) \subseteq Waiting(x)
           G == {k \in 0 .. n : P(k, g[k])}
<1>7. 0 \in G
  <2>1. Relisted(d, d)
    BY DEF Relisted, Same, Good, DbType
  <2> QED
    BY <1>3, <1>6, <2>1
<1>8. ASSUME NEW k \in 1 .. n, k - 1 \in G PROVE k \in G
  <2> DEFINE x == g[k - 1]
             y == g[k]
             v == s[k]
  <2>1. P(k - 1, x) /\ y = Queued(x, v) /\ k \in 0 .. n /\ v \in Vars
    BY <1>2, <1>3, <1>6, <1>8
  <2> HIDE DEF x, y, v
  <2>2. Relisted(x, y) /\ Lists(x, v) \subseteq Waiting(y)
    BY <2>1, QueuedStep DEF Relisted
  <2>3. Relisted(d, y)
    BY <2>1, <2>2, RelistedOn
  <2>4. ASSUME NEW j \in 1 .. k PROVE Lists(d, s[j]) \subseteq Waiting(y)
    <3>1. CASE j = k
      BY <2>1, <2>2, <3>1 DEF Relisted, v
    <3>2. CASE j # k
      <4>1. j \in 1 .. k - 1
        BY <1>3, <3>2
      <4> QED
        BY <2>1, <2>2, <4>1 DEF Relisted
    <3> QED
      BY <3>1, <3>2
  <2> QED
    BY <2>1, <2>3, <2>4 DEF y
<1> HIDE DEF G
<1>9. n \in G
  BY <1>3, <1>7, <1>8, Least, Queueing!Climb
<1>10. Relisted(d, all) /\ \A v \in d.touched : Lists(d, v) \subseteq Waiting(all)
  BY <1>3, <1>5, <1>9 DEF G
<1>11. Same(t, all, {"touched"}) /\ t.touched = {}
  <2>1. Rec(all)
    BY <1>10 DEF Relisted, Same
  <2>2. Same([all EXCEPT !.touched = {}], all, {"touched"}) /\ [all EXCEPT !.touched = {}].touched = {}
    BY <2>1, FieldFacts
  <2> QED
    BY <1>1, <2>2
<1>12. /\ Same(t, all, {"ok", "touched", "elim_heap", "frozen"}) /\ t.ok = all.ok /\ t.elim_heap = all.elim_heap
       /\ t.frozen = all.frozen /\ t.queue = all.queue
  BY <1>11 DEF Same, DbFields
<1>13. Good(t)
  BY <1>10, <1>11, <1>12, SameGood DEF Relisted, Good, DbType, Values
<1>14. Same(t, d, {"occurs", "dirty", "queue", "touched"})
  BY <1>10, <1>11 DEF Same, DbFields, Relisted
<1>15. Waiting(t) = Waiting(all)
  BY <1>12 DEF Waiting
<1> QED
  BY <1>10, <1>11, <1>13, <1>14, <1>15 DEF Relisted, t

-----------------------------------------------------------------------------
(* Resolvents. *)
ResolventsOf(d, v, i, J) ==
  {Resolvent(d.ca[i].lits, d.ca[j].lits, v) : j \in {o \in J : <<i, o>> \in Pairs(d, v)}}
Resolvents(d, v, I, J) == UNION {ResolventsOf(d, v, i, J) : i \in I}

(* What eliminateVar resolves: two live clauses and their resolvent, which
   no longer has the variable. *)
LEMMA PairFacts ==
  ASSUME NEW d, Good(d), NEW v \in Vars, NEW i, NEW j, <<i, j>> \in Pairs(d, v)
  PROVE  /\ i \in Live(d) /\ j \in Live(d)
         /\ Resolvent(d.ca[i].lits, d.ca[j].lits, v) \in SUBSET Lits
         /\ VarsOf(Resolvent(d.ca[i].lits, d.ca[j].lits, v)) \subseteq LiveVars(d) \ {v}
<1>1. i \in WithLit(d, v, mkLit(v, 0)) /\ j \in WithLit(d, v, mkLit(v, 1))
  BY DEF Pairs
<1>2. ~d.ca[i].removed /\ ~d.ca[j].removed /\ i \in d.occurs[v] /\ j \in d.occurs[v]
  BY <1>1 DEF WithLit, Lists
<1>3. Memory(d) /\ d.occurs[v] \in SUBSET DOMAIN d.ca
  BY DEF Good, DbType, Lists_
<1>4. i \in Live(d) /\ j \in Live(d) /\ i \in DOMAIN d.ca /\ j \in DOMAIN d.ca
  BY <1>2, <1>3 DEF Live
<1>5. d.ca[i].lits \in SUBSET Lits /\ d.ca[j].lits \in SUBSET Lits
  BY <1>3, <1>4, EntryFacts
<1>6. VarsOf(d.ca[i].lits) \subseteq LiveVars(d) /\ VarsOf(d.ca[j].lits) \subseteq LiveVars(d)
  BY <1>4 DEF LiveVars
<1> QED
  BY <1>4, <1>5, <1>6 DEF Resolvent, VarsOf

MergeOp(ctx, f, k) ==
  LET d == ctx[1] v == ctx[2] i == ctx[3] j == ctx[4][k] IN
  IF <<i, j>> \in Pairs(d, v)
  THEN addClause_(f, Resolvent(d.ca[i].lits, d.ca[j].lits, v)) ELSE f
Merges == INSTANCE FoldTheorems WITH op <- MergeOp, pick <- OneOf

(* The database t has the clauses N more than e, of variables of U. *)
Extended_(e, t, U, N) == Moves(e, t, U) /\ (~options.use_rcheck => Kept_(e, t, N))

(* Two additions make one. *)
LEMMA ExtendedOn ==
  ASSUME NEW d, NEW e, NEW t, NEW U, NEW N, NEW M, Extended_(d, e, U, N), Extended_(e, t, U, M)
  PROVE  Extended_(d, t, U, N \cup M)
<1>1. Moves(d, t, U \cup U)
  BY MovesOn DEF Extended_
<1>2. t.ok => e.ok
  BY DEF Extended_, Moves, Held
<1>3. ~options.use_rcheck => Kept_(d, t, N \cup M)
  BY <1>2, KeptOn DEF Extended_
<1> QED
  BY <1>1, <1>3 DEF Extended_

(* One clause merged with each of a list. *)
LEMMA MergedStep ==
  ASSUME NEW d, Good(d), NEW v \in Vars, NEW e, Good(e), NEW i, NEW neg, neg \in SUBSET DOMAIN d.ca
  PROVE  Extended_(e, Merged(e, d, v, i, neg), LiveVars(d) \ {v}, ResolventsOf(d, v, i, neg))
<1> DEFINE s == InOrder(neg)
           n == Len(s)
           c == <<d, v, i, s>>
           t == Merged(e, d, v, i, neg)
           U == LiveVars(d) \ {v}
           N(k) == ResolventsOf(d, v, i, {s[j] : j \in 1 .. k})
<1>1. t = (CHOOSE f : Merges!Chooses(c, e, n, f))[n]
  BY DEF Merged, Each, Merges!Chooses, MergeOp
<1>2. neg \in SUBSET Nat /\ IsFiniteSet(neg)
  BY RefsFinite DEF Good, DbType
<1>3. /\ n \in Nat /\ (\A k \in 1 .. n : s[k] \in neg)
      /\ \A x \in neg : \E k \in 1 .. n : s[k] = x
  BY <1>2, InOrderFacts
<1> HIDE DEF s, n, t
<1>4. PICK g : Merges!Trace(c, e, n, g) /\ g[n] = (CHOOSE f : Merges!Chooses(c, e, n, f))[n]
  <2>1. n \in Nat
    BY <1>3
  <2> HIDE DEF c
  <2> QED
    BY <2>1, Least, Merges!EachTrace
<1>5. g[n] = t
  BY <1>1, <1>4
<1>6. /\ g[0] = e
      /\ \A k \in 1 .. n : g[k] = IF <<i, s[k]>> \in Pairs(d, v)
                                 THEN addClause_(g[k - 1], Resolvent(d.ca[i].lits, d.ca[s[k]].lits, v)) ELSE g[k - 1]
  BY <1>4 DEF Merges!Trace, MergeOp
<1> DEFINE G == {k \in 0 .. n : Extended_(e, g[k], U, N(k))}
<1> HIDE DEF U
<1>7. 0 \in G
  <2>1. N(0) = {}
    BY DEF ResolventsOf
  <2> HIDE DEF N
  <2>2. Extended_(e, e, U, {})
    BY Stays DEF Extended_
  <2> QED
    BY <1>3, <1>6, <2>1, <2>2
<1>8. ASSUME NEW k \in 1 .. n, k - 1 \in G PROVE k \in G
  <2> DEFINE x == g[k - 1]
             y == g[k]
             o == s[k]
             M == ResolventsOf(d, v, i, {o})
  <2>1. Extended_(e, x, U, N(k - 1)) /\ k \in 0 .. n /\ k \in Nat \ {0}
    BY <1>3, <1>8
  <2>2. y = IF <<i, o>> \in Pairs(d, v) THEN addClause_(x, Resolvent(d.ca[i].lits, d.ca[o].lits, v)) ELSE x
    BY <1>6
  <2>3. N(k) = N(k - 1) \cup M
    <3>1. {s[j] : j \in 1 .. k} = {s[j] : j \in 1 .. k - 1} \cup {o}
      <4>1. \A j \in 1 .. k : j \in 1 .. k - 1 \/ j = k
        BY <2>1
      <4>2. k \in 1 .. k /\ \A j \in 1 .. k - 1 : j \in 1 .. k
        BY <2>1
      <4> QED
        BY <4>1, <4>2
    <3> DEFINE A == {s[j] : j \in 1 .. k}
               B == {s[j] : j \in 1 .. k - 1}
    <3>2. N(k) = ResolventsOf(d, v, i, A) /\ N(k - 1) = ResolventsOf(d, v, i, B) /\ A = B \cup {o}
      BY <3>1
    <3> HIDE DEF A, B, N, o
    <3>3. ResolventsOf(d, v, i, B \cup {o}) = ResolventsOf(d, v, i, B) \cup ResolventsOf(d, v, i, {o})
      BY DEF ResolventsOf
    <3> QED
      BY <3>2, <3>3
  <2> HIDE DEF x, y, o, N, M
  <2>4. Extended_(x, y, U, M)
    <3>1. Good(x)
      BY <2>1 DEF Extended_, Moves
    <3>2. CASE <<i, o>> \in Pairs(d, v)
      <4> DEFINE r == Resolvent(d.ca[i].lits, d.ca[o].lits, v)
      <4>1. r \in SUBSET Lits /\ VarsOf(r) \subseteq U
        BY <3>2, PairFacts DEF U
      <4>2. M = {r}
        BY <3>2 DEF M, ResolventsOf
      <4>3. y = addClause_(x, r)
        BY <2>2, <3>2
      <4> HIDE DEF r
      <4>4. Moves(x, y, VarsOf(r)) /\ (~options.use_rcheck => Kept_(x, y, {r}))
        BY <3>1, <4>1, <4>3, AddStep
      <4>5. Moves(x, y, U)
        BY <4>1, <4>4, MovesWithin
      <4> QED
        BY <4>2, <4>4, <4>5 DEF Extended_
    <3>3. CASE <<i, o>> \notin Pairs(d, v)
      <4>1. y = x /\ M = {}
        BY <2>2, <3>3 DEF M, ResolventsOf
      <4> QED
        BY <3>1, <4>1, Stays DEF Extended_
    <3> QED
      BY <3>2, <3>3
  <2>5. Extended_(e, y, U, N(k))
    BY <2>1, <2>3, <2>4, ExtendedOn
  <2> QED
    BY <2>1, <2>5 DEF y
<1>9. n \in G
  <2> HIDE DEF G
  <2> QED
    BY <1>3, <1>7, <1>8, Least, Merges!Climb
<1>10. {s[j] : j \in 1 .. n} = neg
  BY <1>3
<1> QED
  BY <1>5, <1>9, <1>10 DEF U, t

OuterOp(ctx, e, k) == Merged(e, ctx[1], ctx[2], ctx[3][k], ctx[4])
Outers == INSTANCE FoldTheorems WITH op <- OuterOp, pick <- OneOf

AllMerged(e, d, v, pos, neg) ==
  (CHOOSE f : Outers!Chooses(<<d, v, InOrder(pos), neg>>, e, Len(InOrder(pos)), f))[Len(InOrder(pos))]

(* Each of a list merged with each of another. *)
LEMMA AllMergedStep ==
  ASSUME NEW d, Good(d), NEW v \in Vars, NEW e, Good(e), NEW pos, NEW neg,
         pos \in SUBSET DOMAIN d.ca, neg \in SUBSET DOMAIN d.ca
  PROVE  Extended_(e, AllMerged(e, d, v, pos, neg), LiveVars(d) \ {v}, Resolvents(d, v, pos, neg))
<1> DEFINE s == InOrder(pos)
           n == Len(s)
           c == <<d, v, s, neg>>
           t == AllMerged(e, d, v, pos, neg)
           U == LiveVars(d) \ {v}
           N(k) == Resolvents(d, v, {s[j] : j \in 1 .. k}, neg)
<1>1. t = (CHOOSE f : Outers!Chooses(c, e, n, f))[n]
  BY DEF AllMerged
<1>2. pos \in SUBSET Nat /\ IsFiniteSet(pos)
  BY RefsFinite DEF Good, DbType
<1>3. /\ n \in Nat /\ (\A k \in 1 .. n : s[k] \in pos)
      /\ \A x \in pos : \E k \in 1 .. n : s[k] = x
  BY <1>2, InOrderFacts
<1> HIDE DEF s, n, t
<1>n. n \in Nat
  BY <1>3
<1>4. PICK g : Outers!Trace(c, e, n, g) /\ g[n] = (CHOOSE f : Outers!Chooses(c, e, n, f))[n]
  BY <1>n, Least, Outers!EachTrace
<1>5. g[n] = t
  BY <1>1, <1>4
<1>6. g[0] = e /\ \A k \in 1 .. n : g[k] = Merged(g[k - 1], d, v, s[k], neg)
  BY <1>4 DEF Outers!Trace, OuterOp
<1> DEFINE G == {k \in 0 .. n : Extended_(e, g[k], U, N(k))}
<1> HIDE DEF U
<1>7. 0 \in G
  <2>1. N(0) = {}
    BY DEF Resolvents
  <2> HIDE DEF N
  <2>2. Extended_(e, e, U, {})
    BY Stays DEF Extended_
  <2> QED
    BY <1>3, <1>6, <2>1, <2>2
<1>8. ASSUME NEW k \in 1 .. n, k - 1 \in G PROVE k \in G
  <2> DEFINE x == g[k - 1]
             y == g[k]
             o == s[k]
             M == ResolventsOf(d, v, o, neg)
  <2>1. Extended_(e, x, U, N(k - 1)) /\ k \in 0 .. n /\ k \in Nat \ {0}
    BY <1>3, <1>8
  <2>2. y = Merged(x, d, v, o, neg)
    BY <1>6
  <2>3. N(k) = N(k - 1) \cup M
    <3>1. {s[j] : j \in 1 .. k} = {s[j] : j \in 1 .. k - 1} \cup {o}
      <4>1. \A j \in 1 .. k : j \in 1 .. k - 1 \/ j = k
        BY <2>1
      <4>2. k \in 1 .. k /\ \A j \in 1 .. k - 1 : j \in 1 .. k
        BY <2>1
      <4> QED
        BY <4>1, <4>2
    <3> DEFINE A == {s[j] : j \in 1 .. k}
               B == {s[j] : j \in 1 .. k - 1}
    <3>2. N(k) = Resolvents(d, v, A, neg) /\ N(k - 1) = Resolvents(d, v, B, neg) /\ A = B \cup {o}
      BY <3>1
    <3> HIDE DEF A, B, N, o
    <3>3. Resolvents(d, v, B \cup {o}, neg) = Resolvents(d, v, B, neg) \cup ResolventsOf(d, v, o, neg)
      BY DEF Resolvents
    <3> QED
      BY <3>2, <3>3
  <2> HIDE DEF x, y, o, N, M
  <2>4. Extended_(x, y, U, M)
    <3>1. Good(x)
      BY <2>1 DEF Extended_, Moves
    <3> QED
      BY <2>2, <3>1, MergedStep DEF U, M
  <2>5. Extended_(e, y, U, N(k))
    BY <2>1, <2>3, <2>4, ExtendedOn
  <2> QED
    BY <2>1, <2>5 DEF y
<1>9. n \in G
  <2> HIDE DEF G
  <2> QED
    BY <1>3, <1>7, <1>8, Least, Outers!Climb
<1>10. {s[j] : j \in 1 .. n} = pos
  BY <1>3
<1> QED
  BY <1>5, <1>9, <1>10 DEF U, t

-----------------------------------------------------------------------------
(* What is recorded. *)
LEMMA RecordedType ==
  ASSUME NEW d, Good(d), NEW v, NEW p \in Lits, NEW crs, crs \in SUBSET DOMAIN d.ca
  PROVE  Recorded(d, v, p, crs) \in Seq(Records)
<1> DEFINE n == Cardinality(crs)
           s == InOrder(crs)
           r(k) == [lit |-> p, others |-> d.ca[s[k]].lits \ {p}]
           a == [k \in 1 .. n |-> r(k)]
           b == <<[lit |-> Neg(p), others |-> {}]>>
<1>1. crs \in SUBSET Nat /\ IsFiniteSet(crs)
  BY RefsFinite DEF Good, DbType
<1>2. n \in Nat /\ Len(s) = n /\ \A k \in 1 .. Len(s) : s[k] \in crs
  BY <1>1, InOrderFacts
<1>3. ASSUME NEW k \in 1 .. n PROVE r(k) \in Records
  <2> DEFINE o == s[k]
  <2>1. o \in DOMAIN d.ca
    BY <1>2
  <2> HIDE DEF o
  <2>2. d.ca[o].lits \in SUBSET Lits
    BY <2>1, EntryFacts DEF Good, DbType
  <2> QED
    BY <2>2 DEF Records, o
<1>4. a \in Seq(Records)
  <2> HIDE DEF n, r
  <2> QED
    BY <1>2, <1>3
<1>5. b \in Seq(Records)
  <2> DEFINE q == [lit |-> Neg(p), others |-> {}]
  <2>1. q \in Records
    BY LitFacts DEF Records
  <2> HIDE DEF q
  <2>2. <<q>> \in Seq(Records)
    BY <2>1
  <2> QED
    BY <2>2 DEF q
<1>6. Recorded(d, v, p, crs) = a \o b
  BY DEF Recorded
<1> HIDE DEF a, b
<1> QED
  BY <1>4, <1>5, <1>6

(* Only the notes on eliminated variables change. *)
LEMMA NotedStep ==
  ASSUME NEW d, Good(d), NEW t, Same(t, d, {"eliminated", "elimclauses"}),
         t.eliminated \in SUBSET Vars, d.eliminated \subseteq t.eliminated, t.elimclauses \in Seq(Records)
  PROVE  /\ Good(t) /\ Live(t) = Live(d) /\ Full(t) = Full(d) /\ Says(t) = Says(d)
         /\ LiveVars(t) = LiveVars(d) /\ Waiting(t) = Waiting(d) /\ Known(t) = Known(d)
<1>1. /\ t.ca = d.ca /\ t.learnts = d.learnts /\ t.fixed = d.fixed /\ t.unchecked = d.unchecked
      /\ t.ok = d.ok /\ t.touched = d.touched /\ t.elim_heap = d.elim_heap /\ t.frozen = d.frozen
      /\ t.occurs = d.occurs /\ t.dirty = d.dirty /\ t.n_occ = d.n_occ /\ t.queue = d.queue
      /\ t.simp = d.simp /\ Rec(t)
  BY DEF Same, DbFields
<1>2. Live(t) = Live(d) /\ \A v : Lists(t, v) = Lists(d, v)
  BY <1>1 DEF Live, Lists
<1>3. \A v : Holding(t, v) = Holding(d, v) /\ Counted(t, v) = Counted(d, v)
  BY <1>1, <1>2 DEF Holding, Counted
<1>4. DbType(t)
  BY <1>1 DEF Good, DbType, Memory, Values, Lists_
<1>5. Proper(t)
  BY <1>1, <1>2 DEF Good, Proper
<1>6. t.simp => Listed(t)
  BY <1>1, <1>2, <1>3 DEF Good, Listed
<1>7. Clauses(t) = Clauses(d) /\ LiveClauses(t) = LiveClauses(d)
  BY <1>1, <1>2 DEF Clauses, LiveClauses
<1>8. LiveVars(t) = LiveVars(d) /\ Waiting(t) = Waiting(d)
  BY <1>1, <1>2 DEF LiveVars, Waiting
<1> QED
  BY <1>1, <1>2, <1>4, <1>5, <1>6, <1>7, <1>8 DEF Good, Full, Says, Known

(* The list of an eliminated variable is emptied. *)
LEMMA EmptiedStep ==
  ASSUME NEW d, Good(d), NEW v \in Vars, v \in d.eliminated, NEW t, t = [d EXCEPT !.occurs[v] = {}]
  PROVE  Moves(d, t, {}) /\ Kept_(d, t, {}) /\ Live(t) = Live(d)
<1> DEFINE o == [d.occurs EXCEPT ![v] = {}]
<1>0. Rec(d) /\ Memory(d) /\ Values(d) /\ Lists_(d)
  BY DEF Good, DbType
<1>1. Same(t, d, {"occurs"}) /\ t.occurs = o
  <2>1. d = [f \in DbFields |-> d[f]]
    BY <1>0 DEF Rec
  <2> QED
    BY <2>1 DEF Same, Rec, DbFields
<1>2. /\ t.ca = d.ca /\ t.learnts = d.learnts /\ t.fixed = d.fixed /\ t.unchecked = d.unchecked
      /\ t.ok = d.ok /\ t.touched = d.touched /\ t.elim_heap = d.elim_heap /\ t.frozen = d.frozen
      /\ t.dirty = d.dirty /\ t.n_occ = d.n_occ /\ t.queue = d.queue
      /\ t.eliminated = d.eliminated /\ t.elimclauses = d.elimclauses /\ t.simp = d.simp /\ Rec(t)
      /\ Same(t, d, {"occurs", "dirty", "n_occ", "elim_heap", "touched"})
  BY <1>1 DEF Same, DbFields
<1>3. o \in [Vars -> SUBSET DOMAIN d.ca] /\ o[v] = {} /\ \A u \in Vars : u # v => o[u] = d.occurs[u]
  BY <1>0 DEF Lists_
<1> HIDE DEF o
<1>4. Live(t) = Live(d)
  BY <1>2 DEF Live
<1>5. \A u : Holding(t, u) = Holding(d, u) /\ Counted(t, u) = Counted(d, u)
  BY <1>2, <1>4 DEF Holding, Counted
<1>6. ASSUME NEW u \in Vars PROVE Lists(t, u) \subseteq Lists(d, u)
  BY <1>1, <1>2, <1>3 DEF Lists
<1>7. DbType(t)
  BY <1>0, <1>1, <1>2, <1>3 DEF DbType, Memory, Values, Lists_
<1>8. Proper(t)
  BY <1>2, <1>4 DEF Good, Proper
<1>9. ASSUME t.simp PROVE Listed(t)
  <2>1. Listed(d)
    BY <1>2, <1>9 DEF Good
  <2>2. \A u \in Vars : Lists(t, u) \subseteq Holding(t, u)
    BY <1>5, <1>6, <2>1 DEF Listed
  <2>3. \A u \in Vars \ t.eliminated : Holding(t, u) \subseteq t.occurs[u]
    BY <1>1, <1>2, <1>3, <1>5, <2>1, ZenonT(60) DEF Listed
  <2>4. \A u \in Vars \ t.dirty : t.occurs[u] \subseteq Live(t)
    BY <1>1, <1>2, <1>3, <1>4, <2>1 DEF Listed
  <2>5. \A p \in Lits : t.n_occ[p] = Cardinality(Counted(t, p))
    BY <1>2, <1>5, <2>1 DEF Listed
  <2> QED
    BY <2>2, <2>3, <2>4, <2>5 DEF Listed
<1>10. Good(t)
  BY <1>7, <1>8, <1>9 DEF Good
<1> QED
  BY <1>2, <1>4, <1>10, AlikeStep

(* The assignments agree on all variables but v. *)
AgreeBut(m, w, v) == \A u \in Vars \ {v} : m[u] = w[u]

(* Literals of other variables do not notice. *)
LEMMA MakesElsewhere ==
  ASSUME NEW m, NEW w, NEW v, AgreeBut(m, w, v), NEW p \in Lits, Var(p) # v
  PROVE  Makes(m, p) <=> Makes(w, p)
<1>1. Var(p) \in Vars \ {v}
  BY LitFacts
<1>2. m[Var(p)] = w[Var(p)]
  BY <1>1 DEF AgreeBut
<1> QED
  BY <1>2 DEF Makes

(* A variable that is not eliminated is in the clauses of its list. *)
LEMMA SplitFacts ==
  ASSUME NEW d, Good(d), d.simp, NEW v \in Vars, v \notin d.eliminated
  PROVE  LET pos == WithLit(d, v, mkLit(v, 0))
             neg == WithLit(d, v, mkLit(v, 1)) IN
         /\ pos \in SUBSET Live(d) /\ neg \in SUBSET Live(d)
         /\ pos \in SUBSET DOMAIN d.ca /\ neg \in SUBSET DOMAIN d.ca
         /\ \A o \in Live(d) : v \in VarsOf(d.ca[o].lits) <=> o \in pos \cup neg
         /\ \A o \in pos : mkLit(v, 0) \in d.ca[o].lits
         /\ \A o \in neg : mkLit(v, 1) \in d.ca[o].lits
<1>1. Lists(d, v) \subseteq Holding(d, v) /\ Holding(d, v) \subseteq d.occurs[v]
  BY DEF Good, Listed
<1>2. Holding(d, v) \subseteq Live(d) /\ Live(d) \subseteq DOMAIN d.ca
  BY DEF Holding, Live
<1>3. ASSUME NEW o \in Live(d), v \in VarsOf(d.ca[o].lits)
      PROVE  o \in WithLit(d, v, mkLit(v, 0)) \cup WithLit(d, v, mkLit(v, 1))
  <2>1. o \in Lists(d, v)
    BY <1>1, <1>3 DEF Holding, Lists, Live
  <2>2. d.ca[o].lits \in SUBSET Lits
    BY <1>2, EntryFacts DEF Good, DbType
  <2>3. PICK p \in d.ca[o].lits : Var(p) = v
    BY <1>3 DEF VarsOf
  <2>4. p = mkLit(v, 0) \/ p = mkLit(v, 1)
    BY <2>2, <2>3, MkLitFacts
  <2> QED
    BY <2>1, <2>3, <2>4 DEF WithLit
<1>4. \A o \in WithLit(d, v, mkLit(v, 0)) \cup WithLit(d, v, mkLit(v, 1)) : o \in Holding(d, v)
  BY <1>1 DEF WithLit
<1> QED
  BY <1>2, <1>3, <1>4 DEF WithLit, Holding

(* Another value of one variable. *)
LEMMA Flipped ==
  ASSUME NEW w \in Assignments, NEW v \in Vars, NEW b \in BOOLEAN, NEW m, m = [w EXCEPT ![v] = b]
  PROVE  /\ m \in Assignments /\ AgreeBut(m, w, v)
         /\ Makes(m, mkLit(v, 0)) <=> b
         /\ Makes(m, mkLit(v, 1)) <=> ~b
<1>1. m \in Assignments /\ m[v] = b /\ AgreeBut(m, w, v)
  BY DEF Assignments, AgreeBut
<1>2. /\ Var(mkLit(v, 0)) = v /\ Var(mkLit(v, 1)) = v
      /\ sign(mkLit(v, 0)) = 0 /\ sign(mkLit(v, 1)) = 1
  BY MkLitFacts
<1> QED
  BY <1>1, <1>2 DEF Makes

Elsewhere(w, c, v) == \E q \in c : Var(q) # v /\ Makes(w, q)

(* When the resolvents hold, some value of v makes the clauses of v true. *)
LEMMA Resolution ==
  ASSUME NEW d, Good(d), d.simp, NEW v \in Vars, v \notin d.eliminated, v \notin AssignedVars(d),
         NEW w \in Assignments, MakesAll(w, d.fixed),
         \A o \in Live(d) : v \notin VarsOf(d.ca[o].lits) => SatisfiesClause(w, d.ca[o].lits),
         Satisfies(w, Resolvents(d, v, WithLit(d, v, mkLit(v, 0)), WithLit(d, v, mkLit(v, 1))))
  PROVE  /\ \E m \in Says(d) : AgreeBut(m, w, v)
         /\ \/ \A o \in WithLit(d, v, mkLit(v, 0)) : Elsewhere(w, d.ca[o].lits, v)
            \/ \A o \in WithLit(d, v, mkLit(v, 1)) : Elsewhere(w, d.ca[o].lits, v)
<1> DEFINE P == mkLit(v, 0)
           N == mkLit(v, 1)
           pos == WithLit(d, v, P)
           neg == WithLit(d, v, N)
<1>1. /\ pos \in SUBSET Live(d) /\ neg \in SUBSET Live(d)
      /\ \A o \in Live(d) : v \in VarsOf(d.ca[o].lits) <=> o \in pos \cup neg
      /\ \A o \in pos : P \in d.ca[o].lits
      /\ \A o \in neg : N \in d.ca[o].lits
  BY SplitFacts
<1>2. \A o \in Live(d) : d.ca[o].lits \in SUBSET Lits
  BY EntryFacts DEF Good, DbType, Live
<1>3. d.fixed \in SUBSET Lits
  BY DEF Good, DbType, Values
<1> HIDE DEF pos, neg, P, N
<1>4. ASSUME NEW b \in BOOLEAN,
             b => \A o \in neg : Elsewhere(w, d.ca[o].lits, v),
             ~b => \A o \in pos : Elsewhere(w, d.ca[o].lits, v)
      PROVE  \E m \in Says(d) : AgreeBut(m, w, v)
  <2> DEFINE m == [w EXCEPT ![v] = b]
  <2>1. m \in Assignments /\ AgreeBut(m, w, v) /\ (Makes(m, P) <=> b) /\ (Makes(m, N) <=> ~b)
    BY Flipped DEF P, N
  <2> HIDE DEF m
  <2>2. MakesAll(m, d.fixed)
    <3>1. ASSUME NEW p \in d.fixed PROVE Makes(m, p)
      <4>1. Var(p) # v
        BY DEF AssignedVars, VarsOf
      <4> QED
        BY <1>3, <2>1, <4>1, MakesElsewhere DEF MakesAll
    <3> QED
      BY <3>1 DEF MakesAll
  <2>3. ASSUME NEW o \in Live(d) PROVE SatisfiesClause(m, d.ca[o].lits)
    <3>1. \A q \in d.ca[o].lits : Var(q) # v /\ Makes(w, q) => Makes(m, q)
      BY <1>2, <2>1, MakesElsewhere
    <3>2. CASE v \notin VarsOf(d.ca[o].lits)
      <4>1. PICK q \in d.ca[o].lits : Makes(w, q)
        BY <3>2 DEF SatisfiesClause
      <4>2. Var(q) # v
        BY <3>2 DEF VarsOf
      <4> QED
        BY <3>1, <4>1, <4>2 DEF SatisfiesClause
    <3>3. CASE v \in VarsOf(d.ca[o].lits) /\ Elsewhere(w, d.ca[o].lits, v)
      BY <3>1, <3>3 DEF Elsewhere, SatisfiesClause
    <3>4. CASE v \in VarsOf(d.ca[o].lits) /\ ~Elsewhere(w, d.ca[o].lits, v)
      <4>1. o \in pos \cup neg
        BY <1>1, <3>4
      <4>2. CASE b
        <5>1. o \in pos /\ P \in d.ca[o].lits /\ Makes(m, P)
          BY <1>1, <1>4, <2>1, <3>4, <4>1, <4>2
        <5> QED
          BY <5>1 DEF SatisfiesClause
      <4>3. CASE ~b
        <5>1. o \in neg /\ N \in d.ca[o].lits /\ Makes(m, N)
          BY <1>1, <1>4, <2>1, <3>4, <4>1, <4>3
        <5> QED
          BY <5>1 DEF SatisfiesClause
      <4> QED
        BY <4>2, <4>3
    <3> QED
      BY <3>2, <3>3, <3>4
  <2>4. m \in Says(d)
    BY <2>1, <2>2, <2>3, SaysFacts
  <2> QED
    BY <2>1, <2>4
<1>5. CASE \A o \in neg : Elsewhere(w, d.ca[o].lits, v)
  <2>1. \E m \in Says(d) : AgreeBut(m, w, v)
    BY <1>4, <1>5
  <2> QED
    BY <1>5, <2>1 DEF neg, N
<1>6. CASE ~\A o \in neg : Elsewhere(w, d.ca[o].lits, v)
  <2>1. PICK j \in neg : ~Elsewhere(w, d.ca[j].lits, v)
    BY <1>6
  <2>2. ASSUME NEW i \in pos PROVE Elsewhere(w, d.ca[i].lits, v)
    <3>0. d.ca[i].lits \in SUBSET Lits /\ d.ca[j].lits \in SUBSET Lits
      BY <1>1, <1>2
    <3>1. CASE Resolvable(d.ca[i].lits, d.ca[j].lits, v)
      <4> DEFINE r == Resolvent(d.ca[i].lits, d.ca[j].lits, v)
      <4>1. <<i, j>> \in Pairs(d, v)
        BY <3>1 DEF Pairs, pos, neg, P, N
      <4>2. r \in Resolvents(d, v, pos, neg)
        <5>1. r \in ResolventsOf(d, v, i, neg)
          BY <4>1 DEF ResolventsOf
        <5> HIDE DEF r
        <5> QED
          BY <5>1 DEF Resolvents
      <4>3. SatisfiesClause(w, r)
        BY <4>2 DEF Satisfies, pos, neg, P, N
      <4>4. PICK q \in r : Makes(w, q)
        BY <4>3 DEF SatisfiesClause
      <4>5. q \in d.ca[i].lits \cup d.ca[j].lits /\ Var(q) # v
        BY DEF Resolvent
      <4>6. q \in d.ca[i].lits
        BY <2>1, <4>4, <4>5 DEF Elsewhere
      <4> QED
        BY <4>4, <4>5, <4>6 DEF Elsewhere
    <3>2. CASE ~Resolvable(d.ca[i].lits, d.ca[j].lits, v)
      <4>1. PICK p \in d.ca[i].lits : Neg(p) \in d.ca[j].lits /\ Var(p) # v
        BY <3>2 DEF Resolvable
      <4>2. p \in Lits /\ Var(Neg(p)) # v
        BY <3>0, <4>1, LitFacts
      <4>3. ~Makes(w, Neg(p))
        BY <2>1, <4>1, <4>2 DEF Elsewhere
      <4>4. Makes(w, p)
        BY <4>2, <4>3, MakesNeg
      <4> QED
        BY <4>1, <4>4 DEF Elsewhere
    <3> QED
      BY <3>1, <3>2
  <2>3. \E m \in Says(d) : AgreeBut(m, w, v)
    BY <1>4, <2>2
  <2> QED
    BY <2>2, <2>3 DEF pos, P
<1> QED
  BY <1>5, <1>6

(* Resolvents hold where the clauses do. *)
LEMMA ResolventsHold ==
  ASSUME NEW d, Good(d), NEW v \in Vars, NEW I, NEW J, NEW m \in Says(d)
  PROVE  Satisfies(m, Resolvents(d, v, I, J))
<1>1. ASSUME NEW i \in I, NEW j \in J, <<i, j>> \in Pairs(d, v)
      PROVE  SatisfiesClause(m, Resolvent(d.ca[i].lits, d.ca[j].lits, v))
  <2> DEFINE a == d.ca[i].lits
             b == d.ca[j].lits
             P == mkLit(v, 0)
             N == mkLit(v, 1)
  <2>1. i \in Live(d) /\ j \in Live(d) /\ m \in Assignments
    BY <1>1, PairFacts DEF Says
  <2>2. a \in SUBSET Lits /\ b \in SUBSET Lits
    BY <2>1, EntryFacts DEF Good, DbType, Live
  <2>3. SatisfiesClause(m, a) /\ SatisfiesClause(m, b)
    BY <2>1, SaysFacts
  <2>4. P \in a /\ N \in b /\ ~Contradicts(a) /\ ~Contradicts(b)
    <3>1. P \in a /\ N \in b
      BY <1>1 DEF Pairs, WithLit
    <3> QED
      BY <2>1, <3>1 DEF Good, Proper
  <2>5. /\ P \in Lits /\ N \in Lits /\ Neg(P) = N /\ Neg(N) = P
        /\ \A p \in Lits : Var(p) = v <=> p = P \/ p = N
    BY MkLitFacts
  <2> HIDE DEF a, b, P, N
  <2>6. PICK p \in a : Makes(m, p)
    BY <2>3 DEF SatisfiesClause
  <2>7. PICK q \in b : Makes(m, q)
    BY <2>3 DEF SatisfiesClause
  <2>8. Var(p) # v \/ Var(q) # v
    <3>1. SUFFICES ASSUME Var(p) = v, Var(q) = v PROVE FALSE
      OBVIOUS
    <3>2. p = P /\ q = N
      BY <2>2, <2>4, <2>5, <3>1 DEF Contradicts
    <3> QED
      BY <2>1, <2>5, <2>6, <2>7, <3>2, MakesNeg
  <2>9. SatisfiesClause(m, Resolvent(a, b, v))
    BY <2>6, <2>7, <2>8 DEF Resolvent, SatisfiesClause
  <2> QED
    BY <2>9 DEF a, b
<1> QED
  BY <1>1 DEF Satisfies, Resolvents, ResolventsOf

(* What eliminateVar records: the smaller half of the clauses of v. *)
RecordsOf(d, v) ==
  LET pos == WithLit(d, v, mkLit(v, 0))
      neg == WithLit(d, v, mkLit(v, 1))
  IN  IF Cardinality(pos) > Cardinality(neg)
      THEN Recorded(d, v, mkLit(v, 1), neg) ELSE Recorded(d, v, mkLit(v, 0), pos)

(* What eliminateVar makes of the database. *)
Resolved(d, t, v) ==
  /\ Good(t) /\ t.simp = d.simp /\ t.frozen = d.frozen /\ t.learnts = d.learnts
  /\ t.eliminated = d.eliminated \cup {v}
  /\ d.fixed \subseteq t.fixed /\ t.fixed \ t.unchecked = d.fixed \ d.unchecked
  /\ LiveVars(t) \subseteq LiveVars(d) \ {v} /\ VarsOf(t.fixed) \subseteq Known(d)
  /\ Queues(d, t) /\ (t.ok /\ LearntsOpen(d) => LearntsOpen(t))
SameModels(d, t, v) ==
  IF t.ok THEN Full(d) \subseteq Full(t) /\ \A w \in Says(t) : \E m \in Says(d) : AgreeBut(m, w, v)
  ELSE Full(d) = {}

(* The database without the clauses of v. *)
Cleared(d, v, r) ==
  removeClauses([lookup(d, v) EXCEPT !.eliminated = @ \cup {v}, !.elimclauses = @ \o r],
                WithLit(d, v, mkLit(v, 0)) \cup WithLit(d, v, mkLit(v, 1)))
WithoutVar(d, e, v) ==
  /\ Good(e) /\ e.simp = d.simp /\ e.frozen = d.frozen /\ e.learnts = d.learnts
  /\ e.eliminated = d.eliminated \cup {v} /\ e.fixed = d.fixed /\ e.unchecked = d.unchecked
  /\ e.ok = d.ok /\ LiveVars(e) \subseteq LiveVars(d) \ {v} /\ Known(e) \subseteq Known(d)
  /\ Queues(d, e) /\ Full(d) \subseteq Full(e)
  /\ \A o \in Live(d) : v \notin VarsOf(d.ca[o].lits) => o \in Live(e) /\ e.ca[o].lits = d.ca[o].lits

(* eliminateVar forgets the clauses of the variable after the resolvents
   were added (SimpSolver.cc:536-542). *)
LEMMA ClearedStep ==
  ASSUME NEW d, Good(d), d.simp, NEW v \in Vars, v \notin d.eliminated, NEW r \in Seq(Records)
  PROVE  WithoutVar(d, Cleared(d, v, r), v) /\ Cleared(d, v, r).elimclauses = d.elimclauses \o r
<1> DEFINE pos == WithLit(d, v, mkLit(v, 0))
           neg == WithLit(d, v, mkLit(v, 1))
           e1 == lookup(d, v)
           x == d.eliminated \cup {v}
           y == d.elimclauses \o r
           e2 == [e1 EXCEPT !.eliminated = x, !.elimclauses = y]
           e == Cleared(d, v, r)
<1>1. /\ Good(e1) /\ Same(e1, d, {"occurs", "dirty"}) /\ Live(e1) = Live(d)
  BY LookupFacts
<1>2. /\ pos \cup neg \in SUBSET Live(d)
      /\ \A o \in Live(d) : v \in VarsOf(d.ca[o].lits) <=> o \in pos \cup neg
  BY SplitFacts
<1> HIDE DEF e1
<1>3. /\ e1.ca = d.ca /\ e1.learnts = d.learnts /\ e1.fixed = d.fixed /\ e1.unchecked = d.unchecked
      /\ e1.ok = d.ok /\ e1.touched = d.touched /\ e1.elim_heap = d.elim_heap /\ e1.frozen = d.frozen
      /\ e1.queue = d.queue /\ e1.eliminated = d.eliminated /\ e1.elimclauses = d.elimclauses
      /\ e1.simp = d.simp
  BY <1>1 DEF Same, DbFields
<1>4. x \in SUBSET Vars /\ d.eliminated \subseteq x /\ y \in Seq(Records)
  <2>1. d.eliminated \in SUBSET Vars /\ d.elimclauses \in Seq(Records)
    BY DEF Good, DbType, Values
  <2> QED
    BY <2>1
<1>5. e2 = [e1 EXCEPT !.eliminated = @ \cup {v}, !.elimclauses = @ \o r]
  BY <1>3
<1> DEFINE crs == pos \cup neg
<1>7. e = removeClauses(e2, crs)
  BY <1>5 DEF e1, Cleared
<1> HIDE DEF x, y, pos, neg, crs, e
<1>e. e2 = [e1 EXCEPT !.eliminated = x, !.elimclauses = y] /\ Rec(e1)
  BY <1>1 DEF Good, DbType
<1> HIDE DEF e2
<1>6. Same(e2, e1, {"eliminated", "elimclauses"}) /\ e2.eliminated = x /\ e2.elimclauses = y
  <2> DEFINE f == [e1 EXCEPT !.eliminated = x, !.elimclauses = y]
  <2>1. Same(f, e1, {"eliminated", "elimclauses"}) /\ f.eliminated = x /\ f.elimclauses = y
    <3>1. e1 = [g \in DbFields |-> e1[g]]
      BY <1>e DEF Rec
    <3> QED
      BY <3>1 DEF Same, Rec, DbFields
  <2>2. e2 = f
    BY <1>e
  <2> HIDE DEF f
  <2> QED
    BY <2>1, <2>2
<1>8. /\ Good(e2) /\ Live(e2) = Live(e1) /\ Full(e2) = Full(e1) /\ Says(e2) = Says(e1)
      /\ LiveVars(e2) = LiveVars(e1) /\ Waiting(e2) = Waiting(e1) /\ Known(e2) = Known(e1)
  BY <1>1, <1>3, <1>4, <1>6, NotedStep
<1>9. /\ e2.ca = d.ca /\ e2.learnts = d.learnts /\ e2.fixed = d.fixed /\ e2.unchecked = d.unchecked
      /\ e2.ok = d.ok /\ e2.touched = d.touched /\ e2.elim_heap = d.elim_heap /\ e2.frozen = d.frozen
      /\ e2.queue = d.queue /\ e2.simp = d.simp
  BY <1>3, <1>6 DEF Same, DbFields
<1>10. /\ Full(e2) = Full(d) /\ LiveVars(e2) = LiveVars(d) /\ Waiting(e2) = Waiting(d)
       /\ Known(e2) = Known(d) /\ Live(e2) = Live(d)
  <2>1. LiveVars(e2) = LiveVars(d) /\ Waiting(e2) = Waiting(d) /\ Live(e2) = Live(d)
    BY <1>1, <1>8, <1>9 DEF LiveVars, Waiting
  <2>2. Clauses(e2) = Clauses(d)
    BY <1>9, <2>1 DEF Clauses
  <2> QED
    BY <1>9, <2>1, <2>2 DEF Full, Known
<1>11. crs \in SUBSET Live(e2)
  BY <1>2, <1>10 DEF pos, neg, crs
<1>12. /\ Moves(e2, e, {}) /\ e.ok = e2.ok /\ e.fixed = e2.fixed /\ Full(e2) \subseteq Full(e)
  <2>1. LET f == removeClauses(e2, crs) IN
        /\ Moves(e2, f, {}) /\ f.ok = e2.ok /\ f.fixed = e2.fixed /\ Full(e2) \subseteq Full(f)
    BY <1>8, <1>11, RemoveStep
  <2> DEFINE f == removeClauses(e2, crs)
  <2>2. e = f /\ Moves(e2, f, {}) /\ f.ok = e2.ok /\ f.fixed = e2.fixed /\ Full(e2) \subseteq Full(f)
    BY <1>7, <2>1
  <2> HIDE DEF f
  <2> QED
    BY <2>2
<1>13. Fewer(e2, crs, e) /\ Same(e, e2, {"ca", "dirty", "n_occ", "elim_heap"})
  BY <1>7, <1>8, <1>11, RemoveFacts
<1>14. Live(e) = Live(d) \ crs /\ \A o \in Live(d) : e.ca[o].lits = d.ca[o].lits
  BY <1>9, <1>10, <1>13 DEF Fewer, Live
<1>15. \A o \in Live(d) : v \in VarsOf(d.ca[o].lits) <=> o \in crs
  BY <1>2 DEF crs, pos, neg
<1>16. LiveVars(e) \subseteq LiveVars(d) \ {v}
  BY <1>14, <1>15 DEF LiveVars
<1>17. Known(e) \subseteq Known(d)
  BY <1>9, <1>12, <1>13, <1>16 DEF Known, Same, DbFields
<1>18. Queues(d, e)
  <2>0. e.queue = e2.queue /\ e.touched = e2.touched
    BY <1>13 DEF Same, DbFields
  <2>1. Waiting(e) = Waiting(d) /\ e.touched = d.touched
    BY <1>9, <2>0 DEF Waiting
  <2> QED
    BY <1>14, <2>1 DEF Queues
<1>19. e.elimclauses = y
  BY <1>6, <1>13 DEF Same, DbFields
<1>20. WithoutVar(d, e, v)
  BY <1>6, <1>9, <1>10, <1>12, <1>13, <1>14, <1>15, <1>16, <1>17, <1>18 DEF Moves, Same, DbFields, x, WithoutVar
<1> QED
  BY <1>19, <1>20 DEF y, e

(* Queues add up. *)
LEMMA QueuesOn ==
  ASSUME NEW d, NEW e, NEW t, Queues(d, e), Queues(e, t)
  PROVE  Queues(d, t)
<1>1. ASSUME NEW cr \in Live(t)
      PROVE  VarsOf(t.ca[cr].lits) \subseteq t.touched
                            \/ (cr \in Live(d) /\ t.ca[cr].lits \subseteq d.ca[cr].lits)
  <2>1. CASE cr \in Live(e) /\ t.ca[cr].lits \subseteq e.ca[cr].lits
    <3>1. VarsOf(t.ca[cr].lits) \subseteq VarsOf(e.ca[cr].lits)
      BY <2>1 DEF VarsOf
    <3> QED
      BY <2>1, <3>1 DEF Queues
  <2> QED
    BY <2>1 DEF Queues
<1>2. \A cr \in Live(t) : cr \in Waiting(t) \/ (cr \in Live(d) /\ t.ca[cr].lits = d.ca[cr].lits)
  BY DEF Queues
<1>3. Waiting(d) \subseteq Waiting(t) /\ d.touched \subseteq t.touched
  BY DEF Queues
<1> QED
  BY <1>1, <1>2, <1>3 DEF Queues

(* eliminateVar, when its variable is not eliminated and has no value. *)
THEOREM EliminateStep ==
  ASSUME NEW d, Good(d), d.simp, d.ok, NEW v \in Vars, v \notin d.eliminated, v \notin AssignedVars(d)
  PROVE  /\ Resolved(d, eliminateVar(d, v), v)
         /\ ~options.use_rcheck => SameModels(d, eliminateVar(d, v), v)
         /\ eliminateVar(d, v).elimclauses = d.elimclauses \o RecordsOf(d, v)
<1> DEFINE pos == WithLit(d, v, mkLit(v, 0))
           neg == WithLit(d, v, mkLit(v, 1))
           r == RecordsOf(d, v)
           e == Cleared(d, v, r)
           a == AllMerged(e, d, v, pos, neg)
           t == eliminateVar(d, v)
           N == Resolvents(d, v, pos, neg)
<1>1. t = IF a.ok THEN [a EXCEPT !.occurs[v] = {}] ELSE a
  BY DEF eliminateVar, Cleared, RecordsOf, Each, AllMerged, Outers!Chooses, OuterOp
<1>2. /\ pos \in SUBSET DOMAIN d.ca /\ neg \in SUBSET DOMAIN d.ca
  BY SplitFacts
<1>3. r \in Seq(Records)
  <2>1. mkLit(v, 0) \in Lits /\ mkLit(v, 1) \in Lits
    BY MkLitFacts
  <2>2. Recorded(d, v, mkLit(v, 1), neg) \in Seq(Records)
    BY <1>2, <2>1, RecordedType
  <2>3. Recorded(d, v, mkLit(v, 0), pos) \in Seq(Records)
    BY <1>2, <2>1, RecordedType
  <2> QED
    BY <2>2, <2>3 DEF RecordsOf
<1> HIDE DEF r
<1>w. WithoutVar(d, e, v) /\ e.elimclauses = d.elimclauses \o r
  BY <1>3, ClearedStep
<1> HIDE DEF e
<1>4. /\ Good(e) /\ e.simp = d.simp /\ e.frozen = d.frozen /\ e.learnts = d.learnts
      /\ e.eliminated = d.eliminated \cup {v} /\ e.fixed = d.fixed /\ e.unchecked = d.unchecked
      /\ e.ok = d.ok /\ LiveVars(e) \subseteq LiveVars(d) \ {v} /\ Known(e) \subseteq Known(d)
      /\ Queues(d, e) /\ Full(d) \subseteq Full(e)
      /\ \A o \in Live(d) : v \notin VarsOf(d.ca[o].lits) => o \in Live(e) /\ e.ca[o].lits = d.ca[o].lits
  BY <1>w DEF WithoutVar
<1>r. e.elimclauses = d.elimclauses \o RecordsOf(d, v)
  BY <1>w DEF r
<1>5. Extended_(e, a, LiveVars(d) \ {v}, N)
  BY <1>2, <1>4, AllMergedStep
<1> HIDE DEF t, a
<1>6. Moves(e, a, LiveVars(d) \ {v}) /\ (~options.use_rcheck => Kept_(e, a, N))
  BY <1>5 DEF Extended_
<1>7. /\ Good(t) /\ Held(a, t) /\ Narrow(a, t, {}) /\ Queues(a, t) /\ t.ok = a.ok
      /\ (t.ok => Kept_(a, t, {}))
  <2>0. Good(a) /\ a.simp /\ v \in a.eliminated
    BY <1>4, <1>6 DEF Moves, Held
  <2>1. CASE a.ok
    <3>1. t = [a EXCEPT !.occurs[v] = {}]
      BY <1>1, <2>1
    <3>2. Moves(a, t, {}) /\ Kept_(a, t, {})
      BY <2>0, <3>1, EmptiedStep
    <3>3. t.ok = a.ok
      <4>1. Rec(a)
        BY <2>0 DEF Good, DbType
      <4> QED
        BY <3>1, <4>1 DEF Rec, DbFields
    <3> QED
      BY <2>0, <3>2, <3>3 DEF Moves
  <2>2. CASE ~a.ok
    <3>1. t = a
      BY <1>1, <2>2
    <3>2. Moves(a, a, {})
      BY <2>0, Stays
    <3> QED
      BY <2>0, <2>2, <3>1, <3>2 DEF Moves
  <2> QED
    BY <2>1, <2>2
<1>8. /\ Good(a) /\ Held(e, a) /\ Narrow(e, a, LiveVars(d) \ {v}) /\ Queues(e, a)
  BY <1>4, <1>6 DEF Moves
<1>9. Moves(e, t, (LiveVars(d) \ {v}) \cup {})
  <2>1. Moves(a, t, {})
    BY <1>7 DEF Moves
  <2> QED
    BY <1>6, <2>1, MovesOn
<1>10. Held(e, t) /\ Narrow(e, t, LiveVars(d) \ {v}) /\ Queues(e, t)
  <2>1. (LiveVars(d) \ {v}) \cup {} = LiveVars(d) \ {v}
    OBVIOUS
  <2> QED
    BY <1>4, <1>9, <2>1 DEF Moves
<1>11. Queues(d, t)
  <2>1. e.simp /\ d.simp
    BY <1>4
  <2> QED
    BY <1>4, <1>10, QueuesOn
<1>12. LiveVars(t) \subseteq LiveVars(d) \ {v} /\ VarsOf(t.fixed) \subseteq Known(d)
  BY <1>4, <1>10 DEF Narrow, Known
<1>13. Resolved(d, t, v)
  <2>1. LearntsOpen(e) <=> LearntsOpen(d)
    BY <1>4 DEF LearntsOpen
  <2> QED
    BY <1>4, <1>7, <1>10, <1>11, <1>12, <2>1 DEF Resolved, Held
<1>14. ASSUME ~options.use_rcheck PROVE SameModels(d, t, v)
  <2>1. Kept_(e, a, N)
    BY <1>6, <1>14
  <2>2. \A m \in Full(d) : m \in Full(e) /\ Satisfies(m, N)
    <3>1. \A m \in Full(d) : m \in Says(d)
      BY SaysFacts
    <3> QED
      BY <1>4, <3>1, ResolventsHold
  <2>3. CASE a.ok
    <3>1. Kept_(a, t, {}) /\ t.ok
      BY <1>7, <2>3
    <3>2. Full(d) \subseteq Full(t)
      BY <2>1, <2>2, <2>3, <3>1 DEF Kept_, Satisfies
    <3>3. ASSUME NEW w \in Says(t) PROVE \E m \in Says(d) : AgreeBut(m, w, v)
      <4>1. w \in Says(a)
        BY <3>1 DEF Kept_
      <4>2. w \in Says(e) /\ Satisfies(w, N)
        BY <2>1, <2>3, <4>1 DEF Kept_
      <4>3. w \in Assignments /\ MakesAll(w, d.fixed)
        BY <1>4, <4>2 DEF Says
      <4>4. \A o \in Live(d) : v \notin VarsOf(d.ca[o].lits) => SatisfiesClause(w, d.ca[o].lits)
        BY <1>4, <4>2, <4>3, SaysFacts
      <4> QED
        BY <4>2, <4>3, <4>4, Resolution
    <3> QED
      BY <3>1, <3>2, <3>3 DEF SameModels
  <2>4. CASE ~a.ok
    <3>1. Full(d) = {}
      BY <1>4, <2>1, <2>2, <2>4 DEF Kept_
    <3> QED
      BY <1>7, <2>4, <3>1 DEF SameModels
  <2> QED
    BY <2>3, <2>4
<1>15. t.elimclauses = d.elimclauses \o RecordsOf(d, v)
  BY <1>10, <1>r DEF Held
<1> QED
  BY <1>13, <1>14, <1>15 DEF t

-----------------------------------------------------------------------------
(* One literal for one variable. *)
RenLit(p, v, x) == IF Var(p) # v THEN p ELSE IF sign(p) = 1 THEN Neg(x) ELSE x
RenClause(c, v, x) == {RenLit(p, v, x) : p \in c}
Tied(m, v, x) == m[v] = Makes(m, x)
Tie(m, v, x) == [m EXCEPT ![v] = Makes(m, x)]

(* A literal, with x in the place of v. *)
LEMMA RenLitFacts ==
  ASSUME NEW p \in Lits, NEW v \in Vars, NEW x \in Lits, Var(x) # v
  PROVE  /\ RenLit(p, v, x) \in Lits /\ Var(RenLit(p, v, x)) # v
         /\ Var(RenLit(p, v, x)) = Var(p) \/ Var(RenLit(p, v, x)) = Var(x)
         /\ Var(p) # v => RenLit(p, v, x) = p
         /\ \A m \in Assignments : Tied(m, v, x) => (Makes(m, RenLit(p, v, x)) <=> Makes(m, p))
<1>1. Neg(x) \in Lits /\ Var(Neg(x)) = Var(x)
  BY LitFacts
<1>2. ASSUME NEW m \in Assignments, Tied(m, v, x) PROVE Makes(m, RenLit(p, v, x)) <=> Makes(m, p)
  <2>1. CASE Var(p) # v
    BY <2>1 DEF RenLit
  <2>2. CASE Var(p) = v
    <3>1. Makes(m, p) <=> IF sign(p) = 1 THEN ~Makes(m, x) ELSE Makes(m, x)
      BY <1>2, <2>2 DEF Tied, Makes, Assignments
    <3>2. Makes(m, Neg(x)) <=> ~Makes(m, x)
      BY MakesNeg
    <3> QED
      BY <2>2, <3>1, <3>2 DEF RenLit
  <2> QED
    BY <2>1, <2>2
<1> QED
  BY <1>1, <1>2 DEF RenLit

(* A clause, with x in the place of v. *)
LEMMA RenFacts ==
  ASSUME NEW c \in SUBSET Lits, NEW v \in Vars, NEW x \in Lits, Var(x) # v
  PROVE  /\ RenClause(c, v, x) \in SUBSET Lits /\ v \notin VarsOf(RenClause(c, v, x))
         /\ VarsOf(RenClause(c, v, x)) \subseteq VarsOf(c) \cup {Var(x)}
         /\ v \notin VarsOf(c) => RenClause(c, v, x) = c
         /\ \A m \in Assignments : Tied(m, v, x) => (SatisfiesClause(m, RenClause(c, v, x)) <=> SatisfiesClause(m, c))
<1>1. \A p \in c : /\ RenLit(p, v, x) \in Lits /\ Var(RenLit(p, v, x)) # v
                   /\ Var(RenLit(p, v, x)) = Var(p) \/ Var(RenLit(p, v, x)) = Var(x)
                   /\ Var(p) # v => RenLit(p, v, x) = p
                   /\ \A m \in Assignments : Tied(m, v, x) => (Makes(m, RenLit(p, v, x)) <=> Makes(m, p))
  BY RenLitFacts
<1>2. v \notin VarsOf(c) => \A p \in c : RenLit(p, v, x) = p
  BY <1>1 DEF VarsOf
<1> QED
  BY <1>1, <1>2 DEF RenClause, VarsOf, SatisfiesClause

(* The assignment that gives v the value of x. *)
LEMMA TieFacts ==
  ASSUME NEW m \in Assignments, NEW v \in Vars, NEW x \in Lits, Var(x) # v
  PROVE  /\ Tie(m, v, x) \in Assignments /\ Tied(Tie(m, v, x), v, x) /\ AgreeBut(Tie(m, v, x), m, v)
         /\ \A p \in Lits : Var(p) # v => (Makes(Tie(m, v, x), p) <=> Makes(m, p))
         /\ \A c \in SUBSET Lits : SatisfiesClause(m, RenClause(c, v, x)) <=> SatisfiesClause(Tie(m, v, x), c)
<1> DEFINE t == Tie(m, v, x)
<1>1. Makes(m, x) \in BOOLEAN
  BY LitFacts DEF Makes, Assignments
<1>2. t \in Assignments /\ t[v] = Makes(m, x) /\ AgreeBut(t, m, v)
  BY <1>1 DEF Tie, Assignments, AgreeBut
<1> HIDE DEF t
<1>3. \A p \in Lits : Var(p) # v => (Makes(t, p) <=> Makes(m, p))
  BY <1>2, MakesElsewhere
<1>4. Makes(t, x) \in BOOLEAN
  BY <1>2, LitFacts DEF Makes, Assignments
<1>5. Tied(t, v, x)
  BY <1>1, <1>2, <1>3, <1>4 DEF Tied
<1>6. ASSUME NEW c \in SUBSET Lits
      PROVE  SatisfiesClause(m, RenClause(c, v, x)) <=> SatisfiesClause(t, c)
  <2>1. SatisfiesClause(t, RenClause(c, v, x)) <=> SatisfiesClause(t, c)
    BY <1>2, <1>5, RenFacts
  <2> DEFINE e == RenClause(c, v, x)
  <2>2. \A p \in e : p \in Lits /\ Var(p) # v
    BY RenFacts DEF VarsOf
  <2> HIDE DEF e
  <2>3. SatisfiesClause(t, e) <=> SatisfiesClause(m, e)
    BY <1>3, <2>2 DEF SatisfiesClause
  <2> QED
    BY <2>1, <2>3 DEF e
<1> QED
  BY <1>2, <1>3, <1>5, <1>6 DEF t

(* The clause of which the set is made. *)
LEMMA RenamedOne ==
  ASSUME NEW c, NEW v, NEW x
  PROVE  (CHOOSE e \in Renamed({c}, v, x) : TRUE) = RenClause(c, v, x)
<1>1. Renamed({c}, v, x) = {RenClause(c, v, x)}
  BY DEF Renamed, RenClause, RenLit
<1> DEFINE e == RenClause(c, v, x)
<1> HIDE DEF e
<1>2. (CHOOSE f \in {e} : TRUE) = e
  OBVIOUS
<1> QED
  BY <1>1, <1>2 DEF e

(* x takes the place of v in all clauses but P. *)
Freely(w, e, v) ==
  MakesAll(w, e.fixed) /\ \A o \in Live(e) : v \notin VarsOf(e.ca[o].lits) => SatisfiesClause(w, e.ca[o].lits)
Replacing(b, e, v, x, P) ==
  /\ Moves(b, e, {Var(x)}) /\ Grows(b, e)
  /\ \A o \in P : o \in Live(e) /\ e.ca[o].lits = b.ca[o].lits
  /\ e.ok => \A o \in Live(e) : v \in VarsOf(e.ca[o].lits) => o \in P
  /\ ~options.use_rcheck =>
       /\ \A m \in Full(b) : Tied(m, v, x) => e.ok /\ m \in Full(e)
       /\ e.ok => \A w \in Assignments : Freely(w, e, v) =>
                    \A o \in Live(b) \ P : SatisfiesClause(w, RenClause(b.ca[o].lits, v, x))

ReplaceOp(ctx, e, k) == Replaced(e, ctx[3][k], ctx[1], ctx[2])
Replaces == INSTANCE FoldTheorems WITH op <- ReplaceOp, pick <- OneOf

(* One clause. *)
LEMMA ReplacedOne ==
  ASSUME NEW b, Good(b), b.simp, NEW v \in Vars, NEW x \in Lits, Var(x) # v,
         NEW e, NEW P, P \in SUBSET Live(b), Replacing(b, e, v, x, P), NEW cr \in P, e.ok,
         NEW t, t = addClause_(removeClauses(e, {cr}), RenClause(e.ca[cr].lits, v, x))
  PROVE  Replacing(b, t, v, x, P \ {cr})
<1> DEFINE f == removeClauses(e, {cr})
           c == RenClause(e.ca[cr].lits, v, x)
<1>1. Good(e) /\ cr \in Live(e) /\ e.ca[cr].lits = b.ca[cr].lits /\ e.simp
  BY DEF Replacing, Moves, Held
<1>2. e.ca[cr].lits \in SUBSET Lits
  BY <1>1, EntryFacts DEF Good, DbType, Live
<1>3. c \in SUBSET Lits /\ v \notin VarsOf(c) /\ VarsOf(c) \subseteq VarsOf(e.ca[cr].lits) \cup {Var(x)}
      /\ \A m \in Assignments : Tied(m, v, x) => (SatisfiesClause(m, c) <=> SatisfiesClause(m, e.ca[cr].lits))
  BY <1>2, RenFacts
<1>4. Good(f) /\ Fewer(e, {cr}, f)
  BY <1>1, RemoveFacts
<1>5. Moves(e, f, {}) /\ f.ok = e.ok /\ f.fixed = e.fixed /\ Full(e) \subseteq Full(f)
  BY <1>1, RemoveStep
<1>0. f.touched = e.touched /\ f.simp
  BY <1>1, RemoveFacts DEF Same, DbFields
<1> HIDE DEF f
<1>6. t = addClause_(f, c)
  BY DEF f
<1> HIDE DEF c
<1>7. /\ Moves(f, t, VarsOf(c)) /\ Added(f, t) /\ Part(f, t, c)
      /\ ~options.use_rcheck => Kept_(f, t, {c}) /\ Tells(f, t, c)
  BY <1>3, <1>4, <1>6, AddStep
<1>8. Live(f) = Live(e) \ {cr} /\ \A o \in Live(e) : f.ca[o].lits = e.ca[o].lits
  BY <1>4 DEF Fewer, Live
<1>9. Moves(b, t, {Var(x)})
  <2>1. Moves(e, t, {} \cup VarsOf(c))
    BY <1>5, <1>7, MovesOn
  <2>2. {} \cup VarsOf(c) \subseteq LiveVars(e) \cup {Var(x)}
    BY <1>1, <1>3 DEF LiveVars
  <2>3. Moves(e, t, {Var(x)})
    BY <2>1, <2>2, MovesWithin
  <2>4. Moves(b, t, {Var(x)} \cup {Var(x)})
    BY <2>3, MovesOn DEF Replacing
  <2>5. {Var(x)} \cup {Var(x)} = {Var(x)}
    OBVIOUS
  <2> QED
    BY <2>4, <2>5
<1>10. \A o \in P \ {cr} : o \in Live(t) /\ t.ca[o].lits = b.ca[o].lits
  BY <1>7, <1>8 DEF Replacing, Added
<1>11. \A o \in Live(t) \ Live(f) : v \notin VarsOf(t.ca[o].lits)
  BY <1>3, <1>7 DEF Part, VarsOf
<1>12. \A o \in Live(f) : o \in Live(t) /\ t.ca[o].lits = e.ca[o].lits
  BY <1>7, <1>8 DEF Added
<1>13. \A o \in Live(t) : v \in VarsOf(t.ca[o].lits) => o \in P \ {cr}
  BY <1>8, <1>11, <1>12 DEF Replacing
<1>14. ASSUME ~options.use_rcheck
       PROVE  /\ \A m \in Full(b) : Tied(m, v, x) => t.ok /\ m \in Full(t)
              /\ t.ok => \A w \in Assignments : Freely(w, t, v) =>
                    \A o \in Live(b) \ (P \ {cr}) : SatisfiesClause(w, RenClause(b.ca[o].lits, v, x))
  <2>1. Kept_(f, t, {c}) /\ Tells(f, t, c)
    BY <1>7, <1>14
  <2>2. ASSUME NEW m \in Full(b), Tied(m, v, x) PROVE t.ok /\ m \in Full(t)
    <3>1. m \in Full(e) /\ m \in Full(f)
      BY <1>5, <1>14, <2>2 DEF Replacing
    <3>2. m \in Assignments /\ m \in Says(e)
      BY <3>1, SaysFacts DEF Full
    <3>3. SatisfiesClause(m, e.ca[cr].lits)
      BY <1>1, <3>2, SaysFacts
    <3>4. Satisfies(m, {c})
      BY <1>3, <2>2, <3>2, <3>3 DEF Satisfies
    <3> QED
      BY <1>5, <2>1, <3>1, <3>4 DEF Kept_
  <2>3. ASSUME t.ok, NEW w \in Assignments, Freely(w, t, v), NEW o \in Live(b) \ (P \ {cr})
        PROVE  SatisfiesClause(w, RenClause(b.ca[o].lits, v, x))
    <3>1. CASE o = cr
      <4>1. \A a \in Live(t) \ Live(f) : SatisfiesClause(w, t.ca[a].lits)
        BY <1>11, <2>3 DEF Freely
      <4>2. SatisfiesClause(w, c)
        BY <2>1, <2>3, <4>1 DEF Tells, Freely
      <4> QED
        BY <1>1, <3>1, <4>2 DEF c
    <3>2. CASE o # cr
      <4>1. MakesAll(w, e.fixed)
        BY <1>5, <1>7, <2>3 DEF Freely, Moves, Held, MakesAll
      <4>2. v \in VarsOf(e.ca[cr].lits) \/ SatisfiesClause(w, e.ca[cr].lits)
        <5>1. ASSUME v \notin VarsOf(e.ca[cr].lits) PROVE SatisfiesClause(w, e.ca[cr].lits)
          <6>1. c = e.ca[cr].lits
            BY <1>2, <5>1, RenFacts DEF c
          <6>2. \A a \in Live(t) \ Live(f) : SatisfiesClause(w, t.ca[a].lits)
            BY <1>11, <2>3 DEF Freely
          <6> QED
            BY <2>1, <2>3, <6>1, <6>2 DEF Tells, Freely
        <5> QED
          BY <5>1
      <4>3. \A a \in Live(e) : v \notin VarsOf(e.ca[a].lits) => SatisfiesClause(w, e.ca[a].lits)
        BY <1>8, <1>12, <2>3, <4>2 DEF Freely
      <4>4. Freely(w, e, v)
        BY <4>1, <4>3 DEF Freely
      <4> QED
        BY <1>14, <2>3, <3>2, <4>4, SMTT(30) DEF Replacing
    <3> QED
      BY <3>1, <3>2
  <2> QED
    BY <2>2, <2>3
<1>15. Grows(b, t)
  <2>1. Grows(e, f)
    BY <1>0, <1>4, FewerGrows
  <2>2. Grows(f, t)
    BY <1>0, <1>7, AddGrows
  <2>3. Grows(e, t)
    BY <2>1, <2>2, GrowsOn
  <2> QED
    BY <2>3, GrowsOn DEF Replacing
<1> QED
  BY <1>9, <1>10, <1>13, <1>14, <1>15 DEF Replacing

(* All clauses of a list. *)
AllReplaced(b, v, x, s) == (CHOOSE f : Replaces!Chooses(<<v, x, s>>, b, Len(s), f))[Len(s)]

(* The loop of substitute (SimpSolver.cc:556-574) goes through all clauses
   of the variable. *)
LEMMA ReplacedAll ==
  ASSUME NEW b, Good(b), b.simp, b.ok, NEW v \in Vars, NEW x \in Lits, Var(x) # v,
         NEW S, S \in SUBSET Live(b), \A o \in Live(b) : v \in VarsOf(b.ca[o].lits) => o \in S
  PROVE  Replacing(b, AllReplaced(b, v, x, InOrder(S)), v, x, {})
<1> DEFINE s == InOrder(S)
           n == Len(s)
           t == AllReplaced(b, v, x, s)
           c == <<v, x, s>>
           P(k) == {s[j] : j \in k + 1 .. n}
<1>1. S \in SUBSET DOMAIN b.ca
  BY DEF Live
<1>2. S \in SUBSET Nat /\ IsFiniteSet(S)
  BY <1>1, RefsFinite DEF Good, DbType
<1>3. /\ n \in Nat /\ (\A k \in 1 .. n : s[k] \in S)
      /\ \A y \in S : \E k \in 1 .. n : s[k] = y
      /\ \A j, k \in 1 .. n : s[j] = s[k] => j = k
  BY <1>2, InOrderFacts
<1>4. t = (CHOOSE f : Replaces!Chooses(c, b, n, f))[n]
  BY DEF AllReplaced
<1> HIDE DEF s, n, t
<1>n. n \in Nat
  BY <1>3
<1>5. PICK g : Replaces!Trace(c, b, n, g) /\ g[n] = (CHOOSE f : Replaces!Chooses(c, b, n, f))[n]
  BY <1>n, Least, Replaces!EachTrace
<1>6. g[n] = t
  BY <1>4, <1>5
<1>7. /\ g[0] = b
      /\ \A k \in 1 .. n : g[k] = IF ~g[k - 1].ok THEN g[k - 1]
           ELSE addClause_(removeClauses(g[k - 1], {s[k]}), RenClause(g[k - 1].ca[s[k]].lits, v, x))
  <2>1. \A k \in 1 .. n : g[k] = ReplaceOp(c, g[k - 1], k)
    BY <1>5 DEF Replaces!Trace
  <2>2. ASSUME NEW e, NEW k
        PROVE  ReplaceOp(c, e, k) = IF ~e.ok THEN e
                 ELSE addClause_(removeClauses(e, {s[k]}), RenClause(e.ca[s[k]].lits, v, x))
    <3> DEFINE q == CHOOSE h \in Renamed({e.ca[s[k]].lits}, v, x) : TRUE
               r == RenClause(e.ca[s[k]].lits, v, x)
    <3>1. q = r
      BY RenamedOne
    <3>2. ReplaceOp(c, e, k) = Replaced(e, s[k], v, x)
      BY DEF ReplaceOp
    <3>3. Replaced(e, s[k], v, x) = IF ~e.ok THEN e ELSE addClause_(removeClauses(e, {s[k]}), q)
      BY DEF Replaced
    <3> HIDE DEF q, r
    <3>4. ReplaceOp(c, e, k) = IF ~e.ok THEN e ELSE addClause_(removeClauses(e, {s[k]}), r)
      BY <3>1, <3>2, <3>3
    <3> QED
      BY <3>4 DEF r
  <2>3. g[0] = b
    BY <1>5 DEF Replaces!Trace
  <2> QED
    BY <2>1, <2>2, <2>3
<1> DEFINE G == {k \in 0 .. n : Replacing(b, g[k], v, x, P(k))}
<1>8. 0 \in G
  <2>1. P(0) = S
    BY <1>3
  <2>2. Moves(b, b, {Var(x)}) /\ Grows(b, b)
    BY Stays DEF Grows
  <2>3. ASSUME NEW w \in Assignments, Freely(w, b, v), NEW o \in Live(b) \ S
        PROVE  SatisfiesClause(w, RenClause(b.ca[o].lits, v, x))
    <3>1. v \notin VarsOf(b.ca[o].lits) /\ b.ca[o].lits \in SUBSET Lits
      BY EntryFacts DEF Good, DbType, Live
    <3>2. RenClause(b.ca[o].lits, v, x) = b.ca[o].lits
      BY <3>1, RenFacts
    <3> QED
      BY <2>3, <3>1, <3>2 DEF Freely
  <2> HIDE DEF P
  <2>4. Replacing(b, b, v, x, S)
    BY <2>2, <2>3 DEF Replacing
  <2> QED
    BY <1>3, <1>7, <2>1, <2>4
<1>9. ASSUME NEW k \in 1 .. n, k - 1 \in G PROVE k \in G
  <2> DEFINE e == g[k - 1]
             y == g[k]
             cr == s[k]
             Q == P(k - 1)
             R == P(k)
  <2>1. Replacing(b, e, v, x, Q) /\ k \in 0 .. n /\ k \in Nat \ {0} /\ k - 1 + 1 = k
    BY <1>3, <1>9
  <2>2. y = IF ~e.ok THEN e ELSE addClause_(removeClauses(e, {cr}), RenClause(e.ca[cr].lits, v, x))
    BY <1>7
  <2>3. R = Q \ {cr} /\ cr \in Q /\ Q \in SUBSET Live(b)
    <3>1. \A j \in k .. n : j \in 1 .. n
      BY <2>1
    <3>2. Q = {s[j] : j \in k .. n}
      BY <2>1
    <3>3. \A j \in k .. n : j = k \/ j \in k + 1 .. n
      BY <1>3, <2>1
    <3>4. \A j \in k + 1 .. n : j \in k .. n /\ j # k
      BY <1>3, <2>1
    <3>5. k \in k .. n
      BY <1>3, <2>1
    <3>6. \A j \in k + 1 .. n : s[j] # cr
      BY <1>3, <3>1, <3>4
    <3>7. R = {s[j] : j \in k + 1 .. n}
      OBVIOUS
    <3> HIDE DEF Q, R, cr
    <3>8. cr \in Q
      BY <3>2, <3>5 DEF cr
    <3>9. R \subseteq Q \ {cr}
      BY <3>2, <3>4, <3>6, <3>7
    <3>10. Q \ {cr} \subseteq R
      BY <3>2, <3>3, <3>7 DEF cr
    <3>11. Q \subseteq S
      BY <1>3, <3>1, <3>2
    <3> QED
      BY <3>8, <3>9, <3>10, <3>11
  <2> HIDE DEF e, y, cr, Q, R
  <2>4. Replacing(b, y, v, x, R)
    <3>1. CASE ~e.ok
      <4>1. y = e
        BY <2>2, <3>1
      <4> QED
        BY <2>1, <2>3, <3>1, <4>1 DEF Replacing
    <3>2. CASE e.ok
      <4>1. y = addClause_(removeClauses(e, {cr}), RenClause(e.ca[cr].lits, v, x))
        BY <2>2, <3>2
      <4>2. Replacing(b, y, v, x, Q \ {cr})
        BY <2>1, <2>3, <3>2, <4>1, ReplacedOne
      <4> QED
        BY <2>3, <4>2
    <3> QED
      BY <3>1, <3>2
  <2> QED
    BY <2>1, <2>4 DEF y, R
<1> HIDE DEF G
<1>10. n \in G
  BY <1>n, <1>8, <1>9, Least, Replaces!Climb
<1>11. P(n) = {}
  BY <1>3
<1>12. Replacing(b, g[n], v, x, P(n))
  BY <1>10 DEF G
<1> HIDE DEF P
<1> QED
  BY <1>6, <1>11, <1>12 DEF t, s

(* What substitute makes of the database. *)
Substituted(d, t, v, x) ==
  /\ Good(t) /\ t.simp = d.simp /\ t.frozen = d.frozen /\ t.learnts = d.learnts
  /\ t.eliminated = d.eliminated \cup {v}
  /\ d.fixed \subseteq t.fixed /\ t.fixed \ t.unchecked = d.fixed \ d.unchecked
  /\ LiveVars(t) \subseteq LiveVars(d) \cup ({Var(x)} \ AssignedVars(d))
  /\ VarsOf(t.fixed) \subseteq Known(d) \cup {Var(x)}
  /\ (t.ok => v \notin LiveVars(t)) /\ Queues(d, t) /\ Grows(d, t) /\ (t.ok /\ LearntsOpen(d) => LearntsOpen(t))
TiedModels(d, t, v, x) ==
  /\ \A m \in Full(d) : Tied(m, v, x) => t.ok /\ m \in Full(t)
  /\ t.ok => \A w \in Says(t) : Tie(w, v, x) \in Says(d)

(* substitute: the database has no clause with v left, and its models are
   those in which v and x agree. *)
THEOREM SubstituteStep ==
  ASSUME NEW d, Good(d), d.simp, d.ok, NEW v \in Vars, v \notin d.eliminated, v \notin AssignedVars(d),
         NEW x \in Lits, Var(x) # v
  PROVE  /\ Substituted(d, substitute(d, v, x), v, x)
         /\ ~options.use_rcheck => TiedModels(d, substitute(d, v, x), v, x)
         /\ substitute(d, v, x).elimclauses = d.elimclauses
<1> DEFINE y == d.eliminated \cup {v}
           e == [d EXCEPT !.eliminated = y]
           b == lookup(e, v)
           S == b.occurs[v]
           t == substitute(d, v, x)
<1>1. t = AllReplaced(b, v, x, InOrder(S))
  BY DEF substitute, Each, AllReplaced, Replaces!Chooses, ReplaceOp
<1>2. Same(e, d, {"eliminated"}) /\ e.eliminated = y
  <2> HIDE DEF y
  <2>1. Rec(d)
    BY DEF Good, DbType
  <2>2. Same([d EXCEPT !.eliminated = y], d, {"eliminated"}) /\ [d EXCEPT !.eliminated = y].eliminated = y
    BY <2>1, FieldFacts, ZenonT(60)
  <2> QED
    BY <2>2
<1>3. y \in SUBSET Vars /\ d.eliminated \subseteq y /\ d.elimclauses \in Seq(Records)
  BY DEF Good, DbType, Values
<1> HIDE DEF y, e, b, t
<1>4. /\ e.ca = d.ca /\ e.learnts = d.learnts /\ e.fixed = d.fixed /\ e.unchecked = d.unchecked
      /\ e.ok = d.ok /\ e.touched = d.touched /\ e.elim_heap = d.elim_heap /\ e.frozen = d.frozen
      /\ e.queue = d.queue /\ e.simp = d.simp /\ e.elimclauses = d.elimclauses /\ e.occurs = d.occurs
      /\ Same(e, d, {"eliminated", "elimclauses"})
  BY <1>2 DEF Same, DbFields
<1>5. /\ Good(e) /\ Live(e) = Live(d)
  BY <1>2, <1>3, <1>4, NotedStep
<1>6. /\ Good(b) /\ Same(b, e, {"occurs", "dirty"}) /\ Live(b) = Live(e)
      /\ b.occurs[v] = Lists(e, v) /\ b.occurs[v] \in SUBSET Live(e)
  BY <1>4, <1>5, LookupFacts, ZenonT(60) DEF b
<1>7. /\ b.ca = d.ca /\ b.learnts = d.learnts /\ b.fixed = d.fixed /\ b.unchecked = d.unchecked
      /\ b.ok = d.ok /\ b.touched = d.touched /\ b.frozen = d.frozen
      /\ b.queue = d.queue /\ b.simp = d.simp /\ b.eliminated = y /\ b.elimclauses = d.elimclauses
  BY <1>2, <1>4, <1>6 DEF Same, DbFields
<1>8. Live(b) = Live(d) /\ S \in SUBSET Live(b) /\ S = Lists(d, v)
  BY <1>4, <1>5, <1>6 DEF Lists
<1>9. \A o \in Live(b) : v \in VarsOf(b.ca[o].lits) => o \in S
  <2>1. Holding(d, v) \subseteq d.occurs[v]
    BY DEF Good, Listed
  <2> QED
    BY <1>7, <1>8, <2>1 DEF Holding, Lists, Live
<1> HIDE DEF S
<1>10. Replacing(b, t, v, x, {})
  BY <1>1, <1>6, <1>7, <1>8, <1>9, ReplacedAll
<1>11. /\ LiveVars(b) = LiveVars(d) /\ AssignedVars(b) = AssignedVars(d) /\ Known(b) = Known(d)
       /\ Waiting(b) = Waiting(d) /\ Full(b) = Full(d)
  <2>1. Clauses(b) = Clauses(d) /\ LiveVars(b) = LiveVars(d)
    BY <1>7, <1>8 DEF Clauses, LiveVars
  <2> QED
    BY <1>7, <2>1 DEF Full, Known, Waiting, AssignedVars
<1>12. Good(t) /\ Held(b, t) /\ Narrow(b, t, {Var(x)}) /\ Queues(b, t)
  BY <1>7, <1>10 DEF Replacing, Moves
<1>13. Queues(d, t)
  <2>1. Queues(d, b)
    BY <1>7, <1>8, <1>11 DEF Queues
  <2> QED
    BY <1>12, <2>1, QueuesOn
<1>g. Grows(d, t)
  <2>1. Grows(d, b)
    BY <1>7, <1>8 DEF Grows
  <2>2. Grows(b, t)
    BY <1>10 DEF Replacing
  <2> QED
    BY <2>1, <2>2, GrowsOn
<1>14. t.ok => v \notin LiveVars(t)
  BY <1>10 DEF Replacing, LiveVars
<1>15. Substituted(d, t, v, x)
  <2>1. LearntsOpen(b) <=> LearntsOpen(d)
    BY <1>7 DEF LearntsOpen
  <2> QED
    BY <1>7, <1>11, <1>12, <1>13, <1>g, <1>14, <2>1 DEF Substituted, Held, Narrow, y
<1>16. ASSUME ~options.use_rcheck PROVE TiedModels(d, t, v, x)
  <2>1. \A m \in Full(d) : Tied(m, v, x) => t.ok /\ m \in Full(t)
    BY <1>10, <1>11, <1>16 DEF Replacing
  <2>2. ASSUME t.ok, NEW w \in Says(t) PROVE Tie(w, v, x) \in Says(d)
    <3>0. w \in Assignments
      BY DEF Says
    <3>1. Freely(w, t, v)
      BY SaysFacts, <3>0 DEF Freely
    <3>2. \A o \in Live(d) : SatisfiesClause(w, RenClause(d.ca[o].lits, v, x))
      BY <1>7, <1>8, <1>10, <1>16, <2>2, <3>0, <3>1 DEF Replacing
    <3>3. \A o \in Live(d) : d.ca[o].lits \in SUBSET Lits
      BY EntryFacts DEF Good, DbType, Live
    <3>4. /\ Tie(w, v, x) \in Assignments
          /\ \A p \in Lits : Var(p) # v => (Makes(Tie(w, v, x), p) <=> Makes(w, p))
          /\ \A c \in SUBSET Lits : SatisfiesClause(w, RenClause(c, v, x)) <=> SatisfiesClause(Tie(w, v, x), c)
      BY <3>0, TieFacts
    <3>5. MakesAll(Tie(w, v, x), d.fixed)
      <4>1. \A p \in d.fixed : p \in Lits /\ Var(p) # v /\ p \in t.fixed
        BY <1>7, <1>12 DEF AssignedVars, VarsOf, Good, DbType, Values, Held
      <4>2. MakesAll(w, t.fixed)
        BY <3>1 DEF Freely
      <4> QED
        BY <3>4, <4>1, <4>2 DEF MakesAll
    <3>6. \A o \in Live(d) : SatisfiesClause(Tie(w, v, x), d.ca[o].lits)
      BY <3>2, <3>3, <3>4
    <3> QED
      BY <3>4, <3>5, <3>6, SaysFacts
  <2> QED
    BY <2>1, <2>2 DEF TiedModels
<1>17. t.elimclauses = d.elimclauses
  BY <1>7, <1>12 DEF Held
<1> QED
  BY <1>15, <1>16, <1>17 DEF t

-----------------------------------------------------------------------------
(* Garbage. *)
CollectOp(ctx, kept, k) == IF ctx[1].ca[ctx[2][k]].removed THEN kept ELSE Append(kept, ctx[2][k])
Collects == INSTANCE FoldTheorems WITH op <- CollectOp, pick <- OneOf

Remains(d, q) == (CHOOSE f : Collects!Chooses(<<d, q>>, <<>>, Len(q), f))[Len(q)]

Elems(q) == {q[k] : k \in DOMAIN q}

(* A sequence one longer. *)
LEMMA Longer ==
  ASSUME NEW S, NEW q \in Seq(S), NEW x \in S
  PROVE  Append(q, x) \in Seq(S) /\ Elems(Append(q, x)) = Elems(q) \cup {x}
<1>4. /\ Append(q, x) \in Seq(S) /\ Len(Append(q, x)) = Len(q) + 1 /\ Len(q) \in Nat
      /\ \A k \in 1 .. Len(q) : Append(q, x)[k] = q[k]
      /\ Append(q, x)[Len(q) + 1] = x
  OBVIOUS
<1>5. DOMAIN Append(q, x) = 1 .. Len(q) + 1 /\ DOMAIN q = 1 .. Len(q)
  BY <1>4
<1>6. {Append(q, x)[k] : k \in DOMAIN Append(q, x)} = {q[k] : k \in DOMAIN q} \cup {x}
  <2>1. ASSUME NEW k \in 1 .. Len(q) + 1 PROVE k \in 1 .. Len(q) \/ k = Len(q) + 1
    BY <1>4
  <2>2. 1 .. Len(q) \subseteq 1 .. Len(q) + 1 /\ Len(q) + 1 \in 1 .. Len(q) + 1
    BY <1>4
  <2> QED
    BY <1>4, <1>5, <2>1, <2>2
<1> QED
  BY <1>4, <1>6 DEF Elems

(* The queue keeps the clauses that are live. *)
LEMMA RemainsFacts ==
  ASSUME NEW d, NEW q, q \in Seq(DOMAIN d.ca)
  PROVE  /\ Remains(d, q) \in Seq(Live(d))
         /\ {Remains(d, q)[k] : k \in DOMAIN Remains(d, q)} = {q[k] : k \in DOMAIN q} \cap Live(d)
<1> DEFINE n == Len(q)
           c == <<d, q>>
           t == Remains(d, q)
           L == Live(d)
           In(r) == {r[k] : k \in DOMAIN r}
           N(k) == {q[j] : j \in 1 .. k} \cap L
<1>1. t = (CHOOSE f : Collects!Chooses(c, <<>>, n, f))[n]
  BY DEF Remains
<1>2. n \in Nat /\ DOMAIN q = 1 .. n /\ \A k \in 1 .. n : q[k] \in DOMAIN d.ca
  OBVIOUS
<1> HIDE DEF n, t
<1>n. n \in Nat
  BY <1>2
<1>3. PICK g : Collects!Trace(c, <<>>, n, g) /\ g[n] = (CHOOSE f : Collects!Chooses(c, <<>>, n, f))[n]
  BY <1>n, Least, Collects!EachTrace
<1>4. g[n] = t
  BY <1>1, <1>3
<1>5. g[0] = <<>> /\ \A k \in 1 .. n : g[k] = IF d.ca[q[k]].removed THEN g[k - 1] ELSE Append(g[k - 1], q[k])
  BY <1>3 DEF Collects!Trace, CollectOp
<1> DEFINE G == {k \in 0 .. n : g[k] \in Seq(L) /\ In(g[k]) = N(k)}
<1>6. 0 \in G
  <2>1. <<>> \in Seq(L) /\ In(<<>>) = {} /\ N(0) = {}
    OBVIOUS
  <2>2. In(g[0]) = N(0) /\ g[0] \in Seq(L)
    BY <1>5, <2>1
  <2>3. 0 \in 0 .. n
    BY <1>n
  <2> HIDE DEF In, N
  <2> QED
    BY <2>2, <2>3
<1>7. ASSUME NEW k \in 1 .. n, k - 1 \in G PROVE k \in G
  <2> DEFINE r == g[k - 1]
             x == q[k]
  <2>1. r \in Seq(L) /\ In(r) = N(k - 1) /\ k \in 0 .. n /\ k \in Nat \ {0} /\ x \in DOMAIN d.ca
    BY <1>2, <1>7
  <2>2. g[k] = IF d.ca[x].removed THEN r ELSE Append(r, x)
    BY <1>5
  <2>3. N(k) = N(k - 1) \cup ({x} \cap L)
    <3>1. \A j \in 1 .. k : j \in 1 .. k - 1 \/ j = k
      BY <2>1
    <3>2. k \in 1 .. k /\ \A j \in 1 .. k - 1 : j \in 1 .. k
      BY <2>1
    <3> QED
      BY <3>1, <3>2
  <2> HIDE DEF r, x, N
  <2>4. x \in L <=> ~d.ca[x].removed
    BY <2>1 DEF Live
  <2>5. CASE x \in L
    <3> DEFINE y == Append(r, x)
    <3>1. g[k] = y
      BY <2>2, <2>4, <2>5
    <3> HIDE DEF L
    <3>a. r \in Seq(L)
      BY <2>1
    <3>b. y \in Seq(L) /\ Elems(y) = Elems(r) \cup {x}
      BY <2>5, <3>a, Longer
    <3>2. y \in Seq(L) /\ In(y) = In(r) \cup {x}
      BY <3>b DEF Elems
    <3> HIDE DEF y, In
    <3> QED
      BY <2>1, <2>3, <2>5, <3>1, <3>2
  <2>6. CASE x \notin L
    <3>1. g[k] = r
      BY <2>2, <2>4, <2>6
    <3> QED
      BY <2>1, <2>3, <2>6, <3>1
  <2> QED
    BY <2>5, <2>6
<1> HIDE DEF G
<1>8. n \in G
  BY <1>n, <1>6, <1>7, Least, Collects!Climb
<1> QED
  BY <1>2, <1>4, <1>8 DEF G, t

(* garbageCollect. *)
Collected(d, t) ==
  /\ Good(t) /\ Same(t, d, {"ca", "occurs", "dirty", "queue"})
  /\ Live(t) = Live(d) /\ (\A cr \in Live(d) : t.ca[cr].lits = d.ca[cr].lits)
  /\ LiveVars(t) = LiveVars(d) /\ Clauses(t) = Clauses(d) /\ LiveClauses(t) = LiveClauses(d)
  /\ Full(t) = Full(d) /\ Says(t) = Says(d)
  /\ Waiting(t) = Waiting(d) \cap Live(d)

(* garbageCollect keeps every live clause, where it is and what lists and
   queue hold of it. *)
LEMMA CollectStep ==
  ASSUME NEW d, Good(d)
  PROVE  Collected(d, garbageCollect(d))
<1> DEFINE x == [cr \in Live(d) |-> d.ca[cr]]
           y == [v \in Vars |-> Lists(d, v)]
           q == d.queue
           z == Remains(d, q)
           t == garbageCollect(d)
<1>1. t = [d EXCEPT !.ca = x, !.occurs = y, !.dirty = {}, !.queue = z]
  BY DEF garbageCollect, Each, Remains, Collects!Chooses, CollectOp
<1>0. Rec(d) /\ Memory(d) /\ Values(d) /\ Lists_(d) /\ Proper(d)
  BY DEF Good, DbType
<1>2. Live(d) \in SUBSET DOMAIN d.ca
  BY DEF Live
<1>3. z \in Seq(Live(d)) /\ {z[k] : k \in DOMAIN z} = {q[k] : k \in DOMAIN q} \cap Live(d)
  BY <1>0, RemainsFacts DEF Lists_
<1>4. x \in [Live(d) -> Entries] /\ DOMAIN x = Live(d) /\ \A cr \in Live(d) : x[cr] = d.ca[cr]
  BY <1>0, <1>2 DEF Memory
<1>5. y \in [Vars -> SUBSET Live(d)] /\ \A v \in Vars : y[v] = Lists(d, v)
  BY <1>0 DEF Lists, Lists_, Live
<1> HIDE DEF t, x, y, z
<1>6. /\ Same(t, d, {"ca", "occurs", "dirty", "queue"}) /\ t.ca = x /\ t.occurs = y /\ t.dirty = {} /\ t.queue = z
  <2>1. d = [f \in DbFields |-> d[f]]
    BY <1>0 DEF Rec
  <2> QED
    BY <1>1, <2>1 DEF Same, Rec, DbFields
<1>7. /\ t.learnts = d.learnts /\ t.fixed = d.fixed /\ t.unchecked = d.unchecked
      /\ t.ok = d.ok /\ t.touched = d.touched /\ t.elim_heap = d.elim_heap /\ t.frozen = d.frozen
      /\ t.n_occ = d.n_occ /\ Rec(t)
      /\ t.eliminated = d.eliminated /\ t.elimclauses = d.elimclauses /\ t.simp = d.simp
  BY <1>6 DEF Same, DbFields
<1>8. Live(t) = Live(d) /\ \A cr \in Live(d) : t.ca[cr] = d.ca[cr]
  BY <1>4, <1>6 DEF Live
<1>9. \A v \in Vars : Lists(t, v) = Lists(d, v)
  BY <1>5, <1>6, <1>8 DEF Lists, Live
<1>10. \A v : Holding(t, v) = Holding(d, v) /\ Counted(t, v) = Counted(d, v)
  BY <1>8 DEF Holding, Counted
<1>11. DbType(t)
  <2>1. IsFiniteSet(Live(d)) /\ Live(d) \in SUBSET CRefs
    BY <1>0, <1>2, RefsFinite DEF Memory
  <2>2. Memory(t)
    BY <1>4, <1>6, <2>1 DEF Memory
  <2>3. Lists_(t)
    BY <1>0, <1>3, <1>4, <1>5, <1>6, <1>7 DEF Lists_
  <2> QED
    BY <1>0, <1>7, <2>2, <2>3 DEF DbType, Values
<1>12. Proper(t)
  BY <1>0, <1>8 DEF Proper
<1>13. ASSUME t.simp PROVE Listed(t)
  <2>1. Listed(d)
    BY <1>7, <1>13 DEF Good
  <2>2. \A v \in Vars : Lists(t, v) \subseteq Holding(t, v)
    BY <1>9, <1>10, <2>1 DEF Listed
  <2>3. \A v \in Vars \ t.eliminated : Holding(t, v) \subseteq t.occurs[v]
    <3>1. ASSUME NEW v \in Vars \ d.eliminated PROVE Holding(d, v) \subseteq Lists(d, v)
      BY <2>1 DEF Listed, Holding, Lists, Live
    <3> QED
      BY <1>5, <1>6, <1>7, <1>10, <3>1
  <2>4. \A v \in Vars : t.occurs[v] \subseteq Live(t)
    BY <1>5, <1>6, <1>8
  <2>5. \A p \in Lits : t.n_occ[p] = Cardinality(Counted(t, p))
    BY <1>7, <1>10, <2>1 DEF Listed
  <2> QED
    BY <2>2, <2>3, <2>4, <2>5 DEF Listed
<1>14. LiveVars(t) = LiveVars(d) /\ Clauses(t) = Clauses(d) /\ LiveClauses(t) = LiveClauses(d)
  BY <1>7, <1>8 DEF LiveVars, Clauses, LiveClauses
<1>15. Full(t) = Full(d) /\ Says(t) = Says(d)
  BY <1>7, <1>14 DEF Full, Says
<1>16. Waiting(t) = Waiting(d) \cap Live(d)
  BY <1>3, <1>6 DEF Waiting
<1> QED
  BY <1>6, <1>8, <1>11, <1>12, <1>13, <1>14, <1>15, <1>16 DEF Collected, Good, t

(* Simplification is turned off. *)
LEMMA TurnedOffStep ==
  ASSUME NEW d, Good(d)
  PROVE  LET t == TurnedOff(d) IN
         /\ Good(t) /\ t.simp = FALSE /\ t.ok = d.ok /\ t.learnts = d.learnts /\ t.fixed = d.fixed
         /\ t.unchecked = d.unchecked /\ t.frozen = d.frozen
         /\ t.eliminated = d.eliminated /\ t.elimclauses = d.elimclauses
         /\ LiveVars(t) = LiveVars(d) /\ Clauses(t) = Clauses(d) /\ LiveClauses(t) = LiveClauses(d)
         /\ Full(t) = Full(d) /\ Says(t) = Says(d)
<1> DEFINE x == [v \in Vars |-> {}]
           y == [p \in Lits |-> 0]
           e == [d EXCEPT !.touched = {}, !.queue = <<>>, !.elim_heap = {}, !.occurs = x, !.dirty = {},
                          !.n_occ = y, !.simp = FALSE]
           t == TurnedOff(d)
<1>1. t = garbageCollect(e)
  BY DEF TurnedOff
<1>0. Rec(d) /\ Memory(d) /\ Values(d) /\ Lists_(d) /\ Proper(d)
  BY DEF Good, DbType
<1>2. x \in [Vars -> SUBSET DOMAIN d.ca] /\ y \in [Lits -> Nat]
  OBVIOUS
<1> HIDE DEF x, y, t
<1>3. /\ e.ca = d.ca /\ e.learnts = d.learnts /\ e.fixed = d.fixed /\ e.unchecked = d.unchecked
      /\ e.ok = d.ok /\ e.frozen = d.frozen /\ Rec(e)
      /\ e.eliminated = d.eliminated /\ e.elimclauses = d.elimclauses /\ e.simp = FALSE
      /\ e.touched = {} /\ e.queue = <<>> /\ e.elim_heap = {} /\ e.occurs = x /\ e.dirty = {} /\ e.n_occ = y
  <2>1. d = [f \in DbFields |-> d[f]]
    BY <1>0 DEF Rec
  <2> QED
    BY <2>1 DEF Rec, DbFields
<1> HIDE DEF e
<1>4. Live(e) = Live(d)
  BY <1>3 DEF Live
<1>5. Good(e)
  <2>1. DbType(e)
    <3>1. Memory(e)
      BY <1>0, <1>3 DEF Memory
    <3>2. Values(e)
      BY <1>0, <1>3 DEF Values
    <3>3. <<>> \in Seq(DOMAIN e.ca) /\ {} \in SUBSET Vars
      OBVIOUS
    <3>4. Lists_(e)
      BY <1>2, <1>3, <3>3 DEF Lists_
    <3> QED
      BY <1>3, <3>1, <3>2, <3>4 DEF DbType
  <2>2. Proper(e)
    BY <1>0, <1>3, <1>4 DEF Proper
  <2> QED
    BY <1>3, <2>1, <2>2 DEF Good
<1>6. Collected(e, t)
  BY <1>1, <1>5, CollectStep
<1>7. LiveVars(e) = LiveVars(d) /\ Clauses(e) = Clauses(d) /\ LiveClauses(e) = LiveClauses(d)
  BY <1>3, <1>4 DEF LiveVars, Clauses, LiveClauses
<1>8. Full(e) = Full(d) /\ Says(e) = Says(d)
  BY <1>3, <1>7 DEF Full, Says
<1> QED
  BY <1>3, <1>6, <1>7, <1>8 DEF Collected, Same, DbFields, t

-----------------------------------------------------------------------------
(* Steps that keep what the database says. *)
Quiet(d, t) ==
  /\ Good(t) /\ t.simp = d.simp /\ t.eliminated = d.eliminated /\ t.elimclauses = d.elimclauses
  /\ d.fixed \subseteq t.fixed /\ (t.ok => d.ok) /\ Kept_(d, t, {})
  /\ LiveVars(t) \subseteq LiveVars(d) /\ Known(t) \subseteq Known(d)

(* Clauses are not decided by what has been checked: while clauses are being
   simplified they mention nothing that has a value and was checked. *)
OpenDb(d) ==
  /\ LearntsOpen(d)
  /\ IF d.simp THEN VarsOf(d.fixed \ d.unchecked) \cap LiveVars(d) = {}
     ELSE \A cr \in Live(d) : Opened(d.fixed, d.ca[cr].lits)
Stable(d, t) == t.ok /\ OpenDb(d) => OpenDb(t)

(* Operations on clauses are such steps. *)
LEMMA MovesQuiet ==
  ASSUME NEW d, NEW t, Moves(d, t, {}), Kept_(d, t, {})
  PROVE  Quiet(d, t) /\ (d.simp => Stable(d, t))
<1>1. /\ Good(t) /\ t.simp = d.simp /\ t.eliminated = d.eliminated /\ t.elimclauses = d.elimclauses
      /\ d.fixed \subseteq t.fixed /\ (t.ok => d.ok) /\ t.learnts = d.learnts
      /\ t.fixed \ t.unchecked = d.fixed \ d.unchecked
      /\ (t.ok /\ LearntsOpen(d) => LearntsOpen(t))
  BY DEF Moves, Held
<1>2. LiveVars(t) \subseteq LiveVars(d) /\ VarsOf(t.fixed) \subseteq Known(d)
  BY DEF Moves, Narrow
<1>3. Known(t) \subseteq Known(d)
  BY <1>1, <1>2 DEF Known
<1>4. Quiet(d, t)
  BY <1>1, <1>2, <1>3 DEF Quiet
<1>5. ASSUME d.simp PROVE Stable(d, t)
  BY <1>1, <1>2, <1>5 DEF Stable, OpenDb
<1> QED
  BY <1>4, <1>5

(* Only lists of what there is to do change. *)
LEMMA SetStep ==
  ASSUME NEW d, Good(d), NEW t, Same(t, d, {"touched", "elim_heap", "frozen", "queue", "unchecked"}),
         t.touched \in SUBSET Vars, t.elim_heap \in SUBSET Vars, t.frozen \in SUBSET Vars,
         t.queue \in Seq(DOMAIN d.ca), t.unchecked \in SUBSET d.fixed
  PROVE  /\ Quiet(d, t) /\ t.ok = d.ok /\ t.fixed = d.fixed /\ t.learnts = d.learnts /\ t.ca = d.ca
         /\ Live(t) = Live(d) /\ LiveVars(t) = LiveVars(d) /\ Known(t) = Known(d)
         /\ d.unchecked \subseteq t.unchecked => Stable(d, t)
<1>1. /\ t.ca = d.ca /\ t.learnts = d.learnts /\ t.fixed = d.fixed /\ t.ok = d.ok
      /\ t.occurs = d.occurs /\ t.dirty = d.dirty /\ t.n_occ = d.n_occ
      /\ t.eliminated = d.eliminated /\ t.elimclauses = d.elimclauses /\ t.simp = d.simp /\ Rec(t)
  BY DEF Same, DbFields
<1>2. Live(t) = Live(d) /\ \A v : Lists(t, v) = Lists(d, v)
  BY <1>1 DEF Live, Lists
<1>3. \A v : Holding(t, v) = Holding(d, v) /\ Counted(t, v) = Counted(d, v)
  BY <1>1, <1>2 DEF Holding, Counted
<1>4. DbType(t)
  <2>1. Memory(t)
    BY <1>1 DEF Good, DbType, Memory
  <2>2. Values(t)
    BY <1>1 DEF Good, DbType, Values
  <2>3. Lists_(t)
    BY <1>1 DEF Good, DbType, Lists_
  <2> QED
    BY <1>1, <2>1, <2>2, <2>3 DEF DbType
<1>5. Proper(t)
  BY <1>1, <1>2 DEF Good, Proper
<1>6. t.simp => Listed(t)
  BY <1>1, <1>2, <1>3 DEF Good, Listed
<1>7. LiveVars(t) = LiveVars(d) /\ Clauses(t) = Clauses(d) /\ LiveClauses(t) = LiveClauses(d)
  BY <1>1, <1>2 DEF LiveVars, Clauses, LiveClauses
<1>8. Full(t) = Full(d) /\ Says(t) = Says(d) /\ Known(t) = Known(d)
  BY <1>1, <1>7 DEF Full, Says, Known
<1>9. \A m : Satisfies(m, {})
  BY DEF Satisfies
<1>10. Quiet(d, t)
  BY <1>1, <1>4, <1>5, <1>6, <1>7, <1>8, <1>9 DEF Quiet, Good, Kept_
<1>11. ASSUME d.unchecked \subseteq t.unchecked PROVE Stable(d, t)
  <2>1. t.fixed \ t.unchecked \subseteq d.fixed \ d.unchecked
    BY <1>1, <1>11
  <2>2. VarsOf(t.fixed \ t.unchecked) \subseteq VarsOf(d.fixed \ d.unchecked)
    BY <2>1 DEF VarsOf
  <2>3. LearntsOpen(t) <=> LearntsOpen(d)
    BY <1>1 DEF LearntsOpen
  <2> QED
    BY <1>1, <1>2, <1>7, <2>2, <2>3 DEF Stable, OpenDb
<1> QED
  BY <1>1, <1>2, <1>7, <1>8, <1>10, <1>11

-----------------------------------------------------------------------------
(* What the clauses that were given say.  R are the literals of variables
   that were given back. *)
Alike(m, w, E) == \A v \in Vars \ E : m[v] = w[v]
Exact(d, g, R) ==
  IF d.ok THEN /\ \A m \in Models(g) : \E w \in Full(d) : MakesAll(w, R) /\ Alike(m, w, d.eliminated)
               /\ \A w \in Says(d) : MakesAll(w, R) => \E m \in Models(g) : Alike(m, w, d.eliminated)
  ELSE Models(g) = {}

(* A step that keeps what the database says keeps it exact. *)
LEMMA QuietExact ==
  ASSUME NEW d, NEW t, NEW g, NEW R, Exact(d, g, R), Quiet(d, t)
  PROVE  Exact(t, g, R)
<1>1. (t.ok => d.ok) /\ Kept_(d, t, {}) /\ t.eliminated = d.eliminated
  BY DEF Quiet
<1>2. \A m : Satisfies(m, {})
  BY DEF Satisfies
<1>3. CASE t.ok
  BY <1>1, <1>2, <1>3 DEF Exact, Kept_
<1>4. CASE ~t.ok
  BY <1>1, <1>2, <1>4 DEF Exact, Kept_
<1> QED
  BY <1>3, <1>4

(* A clause makes the same literals true. *)
LEMMA AlikeMakes ==
  ASSUME NEW m, NEW w, NEW E, Alike(m, w, E), NEW c \in SUBSET Lits, VarsOf(c) \cap E = {}
  PROVE  /\ \A p \in c : Makes(m, p) <=> Makes(w, p)
         /\ SatisfiesClause(m, c) <=> SatisfiesClause(w, c)
<1>1. ASSUME NEW p \in c PROVE Makes(m, p) <=> Makes(w, p)
  <2>1. Var(p) \in Vars \ E
    BY VarsOfFacts
  <2> QED
    BY <2>1 DEF Alike, Makes
<1> QED
  BY <1>1 DEF SatisfiesClause

(* The models with one clause more. *)
LEMMA AddedModels ==
  ASSUME NEW g, NEW c
  PROVE  \A m : m \in Models(g \cup {c}) <=> m \in Models(g) /\ SatisfiesClause(m, c)
BY DEF Models, Satisfies

(* A clause is added. *)
LEMMA AddExact ==
  ASSUME NEW d, NEW t, NEW g, NEW R, Exact(d, g, R), NEW c \in SUBSET Lits, VarsOf(c) \cap d.eliminated = {},
         Kept_(d, t, {c}), t.ok => d.ok, t.eliminated = d.eliminated
  PROVE  Exact(t, g \cup {c}, R)
<1>1. \A m : Satisfies(m, {c}) <=> SatisfiesClause(m, c)
  BY DEF Satisfies
<1>2. \A m : m \in Models(g \cup {c}) <=> m \in Models(g) /\ SatisfiesClause(m, c)
  BY AddedModels
<1>3. \A m, w : Alike(m, w, d.eliminated) => (SatisfiesClause(m, c) <=> SatisfiesClause(w, c))
  BY AlikeMakes
<1>4. CASE t.ok
  <2>1. ASSUME NEW m \in Models(g \cup {c})
        PROVE  \E w \in Full(t) : MakesAll(w, R) /\ Alike(m, w, t.eliminated)
    <3>1. PICK w \in Full(d) : MakesAll(w, R) /\ Alike(m, w, d.eliminated)
      BY <1>2, <1>4, <2>1 DEF Exact
    <3>2. SatisfiesClause(w, c)
      BY <1>2, <1>3, <2>1, <3>1
    <3> QED
      BY <1>1, <1>4, <3>1, <3>2 DEF Kept_
  <2>2. ASSUME NEW w \in Says(t), MakesAll(w, R)
        PROVE  \E m \in Models(g \cup {c}) : Alike(m, w, t.eliminated)
    <3>1. w \in Says(d) /\ SatisfiesClause(w, c)
      BY <1>1, <1>4 DEF Kept_
    <3>2. PICK m \in Models(g) : Alike(m, w, d.eliminated)
      BY <1>4, <2>2, <3>1 DEF Exact
    <3> QED
      BY <1>2, <1>3, <3>1, <3>2
  <2> QED
    BY <1>4, <2>1, <2>2 DEF Exact
<1>5. CASE ~t.ok
  <2>1. ASSUME NEW m \in Models(g \cup {c}) PROVE FALSE
    <3>1. m \in Models(g) /\ SatisfiesClause(m, c)
      BY <1>2, <2>1
    <3>2. d.ok
      BY <3>1 DEF Exact
    <3>3. PICK w \in Full(d) : MakesAll(w, R) /\ Alike(m, w, d.eliminated)
      BY <3>1, <3>2 DEF Exact
    <3>4. SatisfiesClause(w, c)
      BY <1>3, <3>1, <3>3
    <3> QED
      BY <1>1, <1>5, <3>2, <3>3, <3>4 DEF Kept_
  <2> QED
    BY <1>5, <2>1 DEF Exact
<1> QED
  BY <1>4, <1>5

(* A variable is eliminated. *)
LEMMA ResolvedExact ==
  ASSUME NEW d, NEW t, NEW g, NEW R, d.ok, Exact(d, g, R), NEW v \in Vars, SameModels(d, t, v),
         t.eliminated = d.eliminated \cup {v}, R \in SUBSET Lits, v \notin VarsOf(R)
  PROVE  Exact(t, g, R)
<1>1. CASE t.ok
  <2>1. ASSUME NEW m \in Models(g)
        PROVE  \E w \in Full(t) : MakesAll(w, R) /\ Alike(m, w, t.eliminated)
    <3>1. PICK w \in Full(d) : MakesAll(w, R) /\ Alike(m, w, d.eliminated)
      BY DEF Exact
    <3> QED
      BY <1>1, <3>1 DEF SameModels, Alike
  <2>2. ASSUME NEW w \in Says(t), MakesAll(w, R)
        PROVE  \E m \in Models(g) : Alike(m, w, t.eliminated)
    <3>1. PICK u \in Says(d) : AgreeBut(u, w, v)
      BY <1>1 DEF SameModels
    <3>2. MakesAll(u, R)
      <4>1. ASSUME NEW p \in R PROVE Makes(u, p)
        <5>1. Var(p) # v /\ p \in Lits
          BY VarsOfFacts
        <5> QED
          BY <2>2, <3>1, <5>1, MakesElsewhere DEF MakesAll
      <4> QED
        BY <4>1 DEF MakesAll
    <3>3. PICK m \in Models(g) : Alike(m, u, d.eliminated)
      BY <3>1, <3>2 DEF Exact
    <3>4. Alike(m, w, t.eliminated)
      BY <3>1, <3>3 DEF Alike, AgreeBut
    <3> QED
      BY <3>3, <3>4
  <2> QED
    BY <1>1, <2>1, <2>2 DEF Exact
<1>2. CASE ~t.ok
  BY <1>2 DEF Exact, SameModels
<1> QED
  BY <1>1, <1>2

(* The clauses with x in the place of v. *)
LEMMA RenamedModels ==
  ASSUME NEW g \in SUBSET SUBSET Lits, NEW v \in Vars, NEW x \in Lits, Var(x) # v
  PROVE  /\ \A m \in Models(Renamed(g, v, x)) : Tie(m, v, x) \in Models(g)
         /\ \A m \in Models(g) : Tied(m, v, x) => m \in Models(Renamed(g, v, x))
         /\ Renamed(g, v, x) \in SUBSET SUBSET Lits
<1>1. Renamed(g, v, x) = {RenClause(c, v, x) : c \in g}
  BY DEF Renamed, RenClause, RenLit
<1>2. ASSUME NEW m \in Models(Renamed(g, v, x)) PROVE Tie(m, v, x) \in Models(g)
  <2>1. m \in Assignments /\ \A c \in g : SatisfiesClause(m, RenClause(c, v, x))
    BY <1>1 DEF Models, Satisfies
  <2>2. /\ Tie(m, v, x) \in Assignments
        /\ \A c \in SUBSET Lits : SatisfiesClause(m, RenClause(c, v, x)) <=> SatisfiesClause(Tie(m, v, x), c)
    BY <2>1, TieFacts
  <2> QED
    BY <2>1, <2>2 DEF Models, Satisfies
<1>3. ASSUME NEW m \in Models(g), Tied(m, v, x) PROVE m \in Models(Renamed(g, v, x))
  <2>1. m \in Assignments /\ \A c \in g : SatisfiesClause(m, c)
    BY DEF Models, Satisfies
  <2>2. ASSUME NEW c \in g PROVE SatisfiesClause(m, RenClause(c, v, x))
    BY <1>3, <2>1, RenFacts
  <2> QED
    BY <1>1, <2>1, <2>2 DEF Models, Satisfies
<1>4. \A c \in g : RenClause(c, v, x) \in SUBSET Lits
  BY RenFacts
<1> QED
  BY <1>1, <1>2, <1>3, <1>4

(* Variables that are not eliminated agree in both. *)
LEMMA AlikeTied ==
  ASSUME NEW m, NEW w, NEW E, Alike(m, w, E), NEW v \in Vars \ E, NEW x \in Lits, Var(x) \notin E, Tied(w, v, x)
  PROVE  Tied(m, v, x)
<1>1. Var(x) \in Vars
  BY LitFacts
<1> QED
  BY <1>1 DEF Alike, Tied, Makes

(* A literal is substituted. *)
LEMMA SubstituteExact ==
  ASSUME NEW d, NEW t, NEW g \in SUBSET SUBSET Lits, d.ok, Exact(d, g, {}),
         NEW v \in Vars, NEW x \in Lits, Var(x) # v, v \notin d.eliminated, Var(x) \notin d.eliminated,
         TiedModels(d, t, v, x), t.eliminated = d.eliminated \cup {v}
  PROVE  Exact(t, Renamed(g, v, x), {})
<1>1. ASSUME NEW m \in Models(Renamed(g, v, x))
      PROVE  t.ok /\ \E w \in Full(t) : MakesAll(w, {}) /\ Alike(m, w, t.eliminated)
  <2>1. m \in Assignments /\ Tie(m, v, x) \in Models(g)
    BY <1>1, RenamedModels DEF Models
  <2>2. PICK w \in Full(d) : Alike(Tie(m, v, x), w, d.eliminated)
    BY <2>1 DEF Exact
  <2>3. Tied(Tie(m, v, x), v, x) /\ AgreeBut(Tie(m, v, x), m, v)
    BY <2>1, TieFacts
  <2>4. Alike(w, Tie(m, v, x), d.eliminated)
    BY <2>2 DEF Alike
  <2>5. Tied(w, v, x)
    BY <2>3, <2>4, AlikeTied
  <2>6. t.ok /\ w \in Full(t)
    BY <2>5 DEF TiedModels
  <2>7. Alike(m, w, t.eliminated)
    BY <2>2, <2>3 DEF Alike, AgreeBut
  <2>8. MakesAll(w, {})
    BY DEF MakesAll
  <2> QED
    BY <2>6, <2>7, <2>8
<1>2. ASSUME t.ok, NEW w \in Says(t)
      PROVE  \E m \in Models(Renamed(g, v, x)) : Alike(m, w, t.eliminated)
  <2>1. w \in Assignments /\ Tie(w, v, x) \in Says(d)
    BY <1>2 DEF TiedModels, Says
  <2>2. MakesAll(Tie(w, v, x), {})
    BY DEF MakesAll
  <2>3. PICK m \in Models(g) : Alike(m, Tie(w, v, x), d.eliminated)
    BY <2>1, <2>2 DEF Exact
  <2>4. Tied(Tie(w, v, x), v, x) /\ AgreeBut(Tie(w, v, x), w, v)
    BY <2>1, TieFacts
  <2>5. Tied(m, v, x)
    BY <2>3, <2>4, AlikeTied
  <2>6. m \in Models(Renamed(g, v, x))
    BY <2>5, RenamedModels
  <2>7. Alike(m, w, t.eliminated)
    BY <2>3, <2>4 DEF Alike, AgreeBut
  <2> QED
    BY <2>6, <2>7
<1> QED
  BY <1>1, <1>2 DEF Exact

-----------------------------------------------------------------------------
(* One variable gets another value. *)
LEMMA GivenAgain ==
  ASSUME NEW g \in SUBSET SUBSET Lits, NEW p \in Lits, {p} \in g
  PROVE  /\ \A m \in Models(Without(g, p)) : \E u \in Models(g) : AgreeBut(u, m, Var(p)) /\ Makes(u, p)
         /\ \A u \in Models(g) : Makes(u, p) /\ \A m \in Assignments : AgreeBut(m, u, Var(p)) => m \in Models(Without(g, p))
<1>0. Var(p) \in Vars /\ sign(p) \in {0, 1}
  BY LitFacts
<1>1. ASSUME NEW m \in Models(Without(g, p))
      PROVE  \E u \in Models(g) : AgreeBut(u, m, Var(p)) /\ Makes(u, p)
  <2> DEFINE b == sign(p) = 0
             u == [m EXCEPT ![Var(p)] = b]
  <2>1. m \in Assignments /\ \A c \in Without(g, p) : SatisfiesClause(m, c)
    BY DEF Models, Satisfies
  <2>2. b \in BOOLEAN /\ (sign(p) = 0 => b = TRUE) /\ (sign(p) = 1 => b = FALSE)
    OBVIOUS
  <2>3. u \in Assignments /\ AgreeBut(u, m, Var(p)) /\ u[Var(p)] = b
    <3> HIDE DEF b
    <3> QED
      BY <1>0, <2>1, <2>2 DEF Assignments, AgreeBut
  <2> HIDE DEF u, b
  <2>4. Makes(u, p)
    <3>1. CASE sign(p) = 0
      <4>1. u[Var(p)] = TRUE /\ sign(p) # 1
        BY <2>2, <2>3, <3>1
      <4> QED
        BY <4>1 DEF Makes
    <3>2. CASE sign(p) = 1
      <4>1. u[Var(p)] = FALSE
        BY <2>2, <2>3, <3>2
      <4> QED
        BY <3>2, <4>1 DEF Makes
    <3> QED
      BY <1>0, <3>1, <3>2
  <2>5. ASSUME NEW c \in g PROVE SatisfiesClause(u, c)
    <3>1. CASE p \in c
      BY <2>4, <3>1 DEF SatisfiesClause
    <3>2. CASE p \notin c
      <4>1. SatisfiesClause(m, c \ {Neg(p)})
        BY <2>1, <3>2 DEF Without
      <4>2. PICK q \in c \ {Neg(p)} : Makes(m, q)
        BY <4>1 DEF SatisfiesClause
      <4>3. q \in Lits /\ Var(q) # Var(p)
        BY <3>2, SameVar
      <4>4. Makes(u, q)
        BY <2>3, <4>2, <4>3, MakesElsewhere
      <4> QED
        BY <4>4 DEF SatisfiesClause
    <3> QED
      BY <3>1, <3>2
  <2> QED
    BY <2>3, <2>4, <2>5 DEF Models, Satisfies
<1>2. ASSUME NEW u \in Models(g)
      PROVE  Makes(u, p) /\ \A m \in Assignments : AgreeBut(m, u, Var(p)) => m \in Models(Without(g, p))
  <2>1. u \in Assignments /\ \A c \in g : SatisfiesClause(u, c)
    BY DEF Models, Satisfies
  <2>2. Makes(u, p)
    BY <2>1 DEF SatisfiesClause
  <2>3. ASSUME NEW m \in Assignments, AgreeBut(m, u, Var(p)), NEW c \in g, p \notin c
        PROVE  SatisfiesClause(m, c \ {Neg(p)})
    <3>1. PICK q \in c : Makes(u, q)
      BY <2>1 DEF SatisfiesClause
    <3>2. q # Neg(p)
      BY <2>1, <2>2, <3>1, MakesNeg
    <3>3. q \in Lits /\ Var(q) # Var(p)
      BY <2>3, <3>2, SameVar
    <3>4. Makes(m, q)
      BY <2>3, <3>1, <3>3, MakesElsewhere
    <3> QED
      BY <3>2, <3>4 DEF SatisfiesClause
  <2>4. ASSUME NEW m \in Assignments, AgreeBut(m, u, Var(p)) PROVE m \in Models(Without(g, p))
    BY <2>3, <2>4 DEF Models, Satisfies, Without
  <2> QED
    BY <2>2, <2>4
<1> QED
  BY <1>1, <1>2

(* What a database says does not depend on a variable it does not know. *)
LEMMA UnknownVar ==
  ASSUME NEW d, Good(d), NEW v \in Vars, v \notin Known(d), NEW w \in Assignments, NEW m \in Assignments,
         AgreeBut(m, w, v)
  PROVE  /\ w \in Full(d) => m \in Full(d)
         /\ w \in Says(d) => m \in Says(d)
<1>1. /\ d.fixed \in SUBSET Lits /\ d.learnts \in SUBSET SUBSET Lits
      /\ \A cr \in Live(d) : d.ca[cr].lits \in SUBSET Lits
  BY EntryFacts DEF Good, DbType, Values, Live
<1>2. ASSUME NEW c \in SUBSET Lits, v \notin VarsOf(c), SatisfiesClause(w, c) PROVE SatisfiesClause(m, c)
  <2>1. PICK q \in c : Makes(w, q)
    BY <1>2 DEF SatisfiesClause
  <2>2. Var(q) # v
    BY <1>2, VarsOfFacts
  <2>3. Makes(m, q)
    BY <2>1, <2>2, MakesElsewhere
  <2> QED
    BY <2>3 DEF SatisfiesClause
<1>3. ASSUME NEW cr \in Live(d), SatisfiesClause(w, d.ca[cr].lits) PROVE SatisfiesClause(m, d.ca[cr].lits)
  <2>1. v \notin VarsOf(d.ca[cr].lits)
    BY DEF Known, LiveVars
  <2> QED
    BY <1>1, <1>2, <1>3, <2>1
<1>4. ASSUME NEW c \in d.learnts, SatisfiesClause(w, c) PROVE SatisfiesClause(m, c)
  <2>1. v \notin VarsOf(c) /\ c \in SUBSET Lits
    BY <1>1 DEF Known, VarsOf
  <2> QED
    BY <1>2, <1>4, <2>1
<1>5. ASSUME MakesAll(w, d.fixed) PROVE MakesAll(m, d.fixed)
  <2>1. ASSUME NEW p \in d.fixed PROVE Makes(m, p)
    <3>1. p \in Lits /\ Var(p) # v /\ Makes(w, p)
      BY <1>1, <1>5, VarsOfFacts DEF Known, MakesAll
    <3> QED
      BY <3>1, MakesElsewhere
  <2> QED
    BY <2>1 DEF MakesAll
<1>6. w \in Says(d) => m \in Says(d)
  BY <1>3, <1>5, SaysFacts
<1>7. w \in Full(d) => m \in Full(d)
  BY <1>4, <1>6, SaysFacts DEF Satisfies
<1> QED
  BY <1>6, <1>7

(* A variable takes its value from another assignment, or makes p true. *)
LEMMA ChangedVar ==
  ASSUME NEW w \in Assignments, NEW p \in Lits
  PROVE  /\ \A u \in Assignments : \E m \in Assignments : AgreeBut(m, w, Var(p)) /\ m[Var(p)] = u[Var(p)]
         /\ \E m \in Assignments : AgreeBut(m, w, Var(p)) /\ Makes(m, p)
<1>0. Var(p) \in Vars /\ sign(p) \in {0, 1}
  BY LitFacts
<1>1. ASSUME NEW b \in BOOLEAN
      PROVE  \E m \in Assignments : AgreeBut(m, w, Var(p)) /\ m[Var(p)] = b
  <2>1. [w EXCEPT ![Var(p)] = b] \in Assignments /\ AgreeBut([w EXCEPT ![Var(p)] = b], w, Var(p))
        /\ [w EXCEPT ![Var(p)] = b][Var(p)] = b
    BY <1>0 DEF Assignments, AgreeBut
  <2> QED
    BY <2>1
<1>2. \A u \in Assignments : u[Var(p)] \in BOOLEAN
  BY <1>0 DEF Assignments
<1>3. \E m \in Assignments : AgreeBut(m, w, Var(p)) /\ Makes(m, p)
  <2>1. CASE sign(p) = 0
    <3>1. PICK m \in Assignments : AgreeBut(m, w, Var(p)) /\ m[Var(p)] = TRUE
      BY <1>1
    <3>2. Makes(m, p)
      BY <2>1, <3>1 DEF Makes
    <3> QED
      BY <3>1, <3>2
  <2>2. CASE sign(p) = 1
    <3>1. PICK m \in Assignments : AgreeBut(m, w, Var(p)) /\ m[Var(p)] = FALSE
      BY <1>1
    <3>2. Makes(m, p)
      BY <2>2, <3>1 DEF Makes
    <3> QED
      BY <3>1, <3>2
  <2> QED
    BY <1>0, <2>1, <2>2
<1> QED
  BY <1>1, <1>2, <1>3

(* A variable that was given back is used again. *)
LEMMA ReuseExact ==
  ASSUME NEW d, Good(d), NEW g \in SUBSET SUBSET Lits, NEW R \in SUBSET Lits, Exact(d, g, R),
         NEW p \in R, {p} \in g, d.ok => Var(p) \notin Known(d), \A q \in R \ {p} : Var(q) # Var(p)
  PROVE  Exact(d, Without(g, p), R \ {p})
<1>0. p \in Lits /\ Var(p) \in Vars
  BY LitFacts
<1>1. /\ \A m \in Models(Without(g, p)) : \E u \in Models(g) : AgreeBut(u, m, Var(p)) /\ Makes(u, p)
      /\ \A u \in Models(g) : Makes(u, p) /\ \A m \in Assignments : AgreeBut(m, u, Var(p)) => m \in Models(Without(g, p))
  BY <1>0, GivenAgain
<1>2. ASSUME NEW w, NEW m, AgreeBut(m, w, Var(p)), MakesAll(w, R \ {p}) PROVE MakesAll(m, R \ {p})
  <2>1. ASSUME NEW q \in R \ {p} PROVE Makes(m, q)
    <3>1. Makes(w, q)
      BY <1>2 DEF MakesAll
    <3> QED
      BY <1>2, <3>1, MakesElsewhere
  <2> QED
    BY <2>1 DEF MakesAll
<1>3. ASSUME d.ok, NEW m \in Models(Without(g, p))
      PROVE  \E w \in Full(d) : MakesAll(w, R \ {p}) /\ Alike(m, w, d.eliminated)
  <2>1. PICK u \in Models(g) : AgreeBut(u, m, Var(p))
    BY <1>1, <1>3
  <2>2. PICK w \in Full(d) : MakesAll(w, R) /\ Alike(u, w, d.eliminated)
    BY <1>3 DEF Exact
  <2>3. w \in Assignments /\ m \in Assignments
    BY DEF Full, Models
  <2>4. PICK x \in Assignments : AgreeBut(x, w, Var(p)) /\ x[Var(p)] = m[Var(p)]
    BY <1>0, <2>3, ChangedVar
  <2>5. x \in Full(d)
    BY <1>0, <1>3, <2>3, <2>4, UnknownVar
  <2>6. MakesAll(w, R \ {p})
    BY <2>2 DEF MakesAll
  <2>7. MakesAll(x, R \ {p})
    BY <1>2, <2>4, <2>6
  <2>8. Alike(m, x, d.eliminated)
    BY <2>1, <2>2, <2>4 DEF Alike, AgreeBut
  <2> QED
    BY <2>5, <2>7, <2>8
<1>4. ASSUME d.ok, NEW w \in Says(d), MakesAll(w, R \ {p})
      PROVE  \E m \in Models(Without(g, p)) : Alike(m, w, d.eliminated)
  <2>1. w \in Assignments
    BY DEF Says
  <2>2. PICK x \in Assignments : AgreeBut(x, w, Var(p)) /\ Makes(x, p)
    BY <1>0, <2>1, ChangedVar
  <2>3. x \in Says(d)
    BY <1>0, <1>4, <2>1, <2>2, UnknownVar
  <2>4. MakesAll(x, R)
    BY <1>2, <1>4, <2>2 DEF MakesAll
  <2>5. PICK u \in Models(g) : Alike(u, x, d.eliminated)
    BY <1>4, <2>3, <2>4 DEF Exact
  <2>6. u \in Assignments
    BY DEF Models
  <2>7. PICK m \in Assignments : AgreeBut(m, u, Var(p)) /\ m[Var(p)] = w[Var(p)]
    BY <1>0, <2>1, <2>6, ChangedVar
  <2>8. m \in Models(Without(g, p))
    BY <1>1, <2>7
  <2>9. Alike(m, w, d.eliminated)
    BY <2>2, <2>5, <2>7 DEF Alike, AgreeBut
  <2> QED
    BY <2>8, <2>9
<1>5. ASSUME ~d.ok PROVE Models(Without(g, p)) = {}
  BY <1>1, <1>5 DEF Exact
<1> QED
  BY <1>3, <1>4, <1>5 DEF Exact

-----------------------------------------------------------------------------
(* Simplification below. *)
LEMMA TrimmedFacts ==
  ASSUME NEW d, Good(d), NEW c \in SUBSET Lits
  PROVE  /\ Trimmed(d, c) \in SUBSET c /\ VarsOf(Trimmed(d, c)) \subseteq VarsOf(c)
         /\ Cardinality(c) > 1 => Cardinality(Trimmed(d, c)) > 1
         /\ \A w \in Assignments :
              MakesAll(w, d.fixed) => (SatisfiesClause(w, c) <=> SatisfiesClause(w, Trimmed(d, c)))
         /\ Opened(d.fixed, c) /\ ~satisfied(d, c) =>
              /\ Cardinality(Trimmed(d, c)) > 1
              /\ \A p \in Trimmed(d, c) : Neg(p) \notin d.fixed /\ p \notin d.fixed
<1> DEFINE o == {p \in c : ~Falsified(d, p)}
<1>1. Trimmed(d, c) = IF Cardinality(o) > 1 THEN o ELSE c
  BY DEF Trimmed
<1>2. d.fixed \in SUBSET Lits
  BY DEF Good, DbType, Values
<1>3. \A w \in Assignments : MakesAll(w, d.fixed) => (SatisfiesClause(w, c) <=> SatisfiesClause(w, o))
  BY <1>2, FalsifiedFacts
<1>4. Opened(d.fixed, c) /\ ~satisfied(d, c) => Cardinality(o) > 1 /\ \A p \in c : p \notin d.fixed
  BY DEF Opened, satisfied, Falsified
<1>5. o \in SUBSET c /\ \A p \in o : Neg(p) \notin d.fixed
  BY DEF Falsified
<1>6. VarsOf(o) \subseteq VarsOf(c)
  BY <1>5 DEF VarsOf
<1> HIDE DEF o
<1> QED
  BY <1>1, <1>3, <1>4, <1>5, <1>6

(* What is left of the memory of d after simplification below. *)
Slimmed(d, r, rel) ==
  /\ Same(r, d, {"ca", "learnts", "fixed", "unchecked", "dirty", "n_occ", "elim_heap"})
  /\ r.dirty \in SUBSET Vars /\ r.n_occ \in [Lits -> Nat] /\ r.elim_heap \in SUBSET Vars
  /\ r.ca \in [DOMAIN d.ca -> Entries] /\ DOMAIN r.ca = DOMAIN d.ca
  /\ \A cr \in DOMAIN d.ca : r.ca[cr].lits = Trimmed(d, d.ca[cr].lits)
  /\ Live(r) = {cr \in Live(d) : ~satisfied(d, d.ca[cr].lits)}
  /\ r.learnts = {Trimmed(d, c) : c \in {e \in d.learnts : ~satisfied(d, e)}}
  /\ r.fixed = d.fixed \ rel /\ r.unchecked = {}

(* Once simplification is off, what simplify and garbageCollect leave of
   the memory (Solver.cc:601-660). *)
LEMMA SlimmedStep ==
  ASSUME NEW d, Good(d), ~d.simp
  PROVE  Slimmed(d, Reduced(d), released_vars)
<1> DEFINE crs == {cr \in Live(d) : satisfied(d, d.ca[cr].lits)}
           e == removeClauses(d, crs)
           x == [cr \in DOMAIN e.ca |-> [e.ca[cr] EXCEPT !.lits = Trimmed(d, e.ca[cr].lits)]]
           y == {Trimmed(d, c) : c \in {f \in d.learnts : ~satisfied(d, f)}}
           z == d.fixed \ released_vars
           r == [e EXCEPT !.ca = x, !.learnts = y, !.fixed = z, !.unchecked = {}]
<1>1. Reduced(d) = r
  BY DEF Reduced
<1>2. crs \in SUBSET Live(d)
  OBVIOUS
<1>3. Good(e) /\ Fewer(d, crs, e) /\ Same(e, d, {"ca", "dirty", "n_occ", "elim_heap"})
  <2> HIDE DEF crs
  <2> QED
    BY <1>2, RemoveFacts
<1> HIDE DEF e
<1>4. e.learnts = d.learnts /\ e.fixed = d.fixed
  BY <1>3 DEF Same, DbFields
<1>5. Rec(e) /\ Memory(e) /\ Values(e) /\ Lists_(e)
  BY <1>3 DEF Good, DbType
<1>6. Live(e) = Live(d) \ crs /\ DOMAIN e.ca = DOMAIN d.ca
      /\ \A cr \in DOMAIN d.ca : e.ca[cr].lits = d.ca[cr].lits
  BY <1>3 DEF Fewer
<1>7. ASSUME NEW cr \in DOMAIN d.ca
      PROVE  x[cr] \in Entries /\ x[cr].lits = Trimmed(d, d.ca[cr].lits) /\ x[cr].removed = e.ca[cr].removed
  <2>1. e.ca[cr] = [lits |-> e.ca[cr].lits, removed |-> e.ca[cr].removed]
        /\ e.ca[cr].lits \in SUBSET Lits /\ e.ca[cr].removed \in BOOLEAN
    BY <1>5, <1>6, EntryFacts
  <2> DEFINE n == Trimmed(d, e.ca[cr].lits)
  <2>2. n \in SUBSET Lits
    BY <2>1, TrimmedFacts
  <2>3. x[cr] = [e.ca[cr] EXCEPT !.lits = n]
    BY <1>6
  <2>4. n = Trimmed(d, d.ca[cr].lits)
    BY <1>6
  <2> HIDE DEF n, x
  <2>5. x[cr] = [lits |-> n, removed |-> e.ca[cr].removed]
    BY <2>1, <2>3
  <2> QED
    BY <2>1, <2>2, <2>4, <2>5 DEF Entries
<1>8. DOMAIN x = DOMAIN d.ca /\ x \in [DOMAIN d.ca -> Entries]
  BY <1>6, <1>7
<1> HIDE DEF x, y, z, r
<1>9. Same(r, e, {"ca", "learnts", "fixed", "unchecked"}) /\ r.ca = x /\ r.learnts = y /\ r.fixed = z /\ r.unchecked = {}
  <2>1. e = [f \in DbFields |-> e[f]]
    BY <1>5 DEF Rec
  <2> QED
    BY <2>1 DEF Same, Rec, DbFields, r
<1>10. Live(r) = Live(d) \ crs
  <2>1. \A cr \in DOMAIN d.ca : x[cr].removed = e.ca[cr].removed
    BY <1>7
  <2> QED
    BY <1>6, <1>8, <1>9, <2>1 DEF Live
<1>11. r.elim_heap = e.elim_heap /\ r.dirty = e.dirty /\ r.n_occ = e.n_occ
       /\ Same(r, d, {"ca", "learnts", "fixed", "unchecked", "dirty", "n_occ", "elim_heap"})
  BY <1>3, <1>9 DEF Same, DbFields
<1>12. /\ r.dirty \in SUBSET Vars /\ r.n_occ \in [Lits -> Nat] /\ r.elim_heap \in SUBSET Vars
  BY <1>5, <1>11 DEF Values, Lists_
<1>13. \A cr \in DOMAIN d.ca : r.ca[cr].lits = Trimmed(d, d.ca[cr].lits)
  BY <1>7, <1>9
<1>14. y = {Trimmed(d, c) : c \in {f \in d.learnts : ~satisfied(d, f)}}
  BY DEF y
<1>15. z = d.fixed \ released_vars
  BY DEF z
<1> QED
  BY <1>1, <1>8, <1>9, <1>10, <1>11, <1>12, <1>13, <1>14, <1>15 DEF Slimmed

-----------------------------------------------------------------------------
(* What t says where the facts of d hold, and what it does not mention. *)
Lessened(d, t, rel) ==
  /\ Good(t) /\ t.simp = d.simp /\ t.ok = d.ok /\ t.eliminated = d.eliminated /\ t.elimclauses = d.elimclauses
  /\ t.frozen = d.frozen /\ t.fixed = d.fixed \ rel
  /\ LiveVars(t) \subseteq LiveVars(d) /\ Known(t) \subseteq Known(d)
  /\ \A w \in Assignments : MakesAll(w, d.fixed) =>
       /\ Satisfies(w, Clauses(d)) <=> Satisfies(w, Clauses(t))
       /\ Satisfies(w, LiveClauses(d)) <=> Satisfies(w, LiveClauses(t))
  /\ OpenDb(d) => OpenDb(t) /\ (rel \subseteq d.fixed => VarsOf(rel) \cap Known(t) = {})

(* An open clause is open where less is decided. *)
LEMMA OpenedLess ==
  ASSUME NEW c \in SUBSET Lits, Cardinality(c) > 1, NEW F, \A p \in c : Neg(p) \notin F
  PROVE  Opened(F, c)
<1>1. {p \in c : Neg(p) \notin F} = c
  OBVIOUS
<1> QED
  BY <1>1 DEF Opened

(* It is good, and no new variable occurs. *)
LEMMA SlimmedGood ==
  ASSUME NEW d, Good(d), ~d.simp, NEW rel, NEW r, Slimmed(d, r, rel)
  PROVE  /\ Good(r) /\ LiveVars(r) \subseteq LiveVars(d) /\ Known(r) \subseteq Known(d)
         /\ r.simp = d.simp /\ r.ok = d.ok /\ r.eliminated = d.eliminated /\ r.elimclauses = d.elimclauses
         /\ r.frozen = d.frozen
<1>1. /\ r.ok = d.ok /\ r.occurs = d.occurs /\ r.touched = d.touched /\ r.frozen = d.frozen
      /\ r.queue = d.queue /\ r.eliminated = d.eliminated /\ r.elimclauses = d.elimclauses
      /\ r.simp = d.simp /\ Rec(r)
  BY DEF Slimmed, Same, DbFields
<1>0. Memory(d) /\ Values(d) /\ Lists_(d) /\ Proper(d)
  BY DEF Good, DbType
<1>2. /\ d.learnts \in SUBSET SUBSET Lits /\ d.fixed \in SUBSET Lits
      /\ \A cr \in DOMAIN d.ca : d.ca[cr].lits \in SUBSET Lits
  BY <1>0, EntryFacts DEF Values
<1>3. Memory(r)
  BY <1>0 DEF Memory, Slimmed
<1>4. r.learnts \in SUBSET SUBSET Lits /\ \A c \in r.learnts : \E e \in d.learnts : VarsOf(c) \subseteq VarsOf(e)
  <2>1. ASSUME NEW c \in r.learnts PROVE c \in SUBSET Lits /\ \E e \in d.learnts : VarsOf(c) \subseteq VarsOf(e)
    <3>1. PICK e \in d.learnts : c = Trimmed(d, e)
      BY DEF Slimmed
    <3> QED
      BY <1>2, <3>1, TrimmedFacts
  <2> QED
    BY <2>1
<1>5. r.fixed \in SUBSET d.fixed /\ r.unchecked = {}
  BY DEF Slimmed
<1>6. ~Contradicts(r.fixed)
  BY <1>0, <1>5 DEF Values, Contradicts
<1>7. Values(r)
  BY <1>0, <1>1, <1>2, <1>4, <1>5, <1>6 DEF Values, Slimmed
<1>8. Lists_(r)
  BY <1>0, <1>1 DEF Lists_, Slimmed
<1>9. Live(r) \subseteq Live(d) /\ Live(d) \subseteq DOMAIN d.ca
  BY DEF Slimmed, Live
<1>10. ASSUME NEW cr \in Live(r)
       PROVE  r.ca[cr].lits \in SUBSET d.ca[cr].lits /\ VarsOf(r.ca[cr].lits) \subseteq VarsOf(d.ca[cr].lits)
              /\ Cardinality(r.ca[cr].lits) > 1 /\ ~Contradicts(r.ca[cr].lits)
  <2>1. cr \in Live(d) /\ cr \in DOMAIN d.ca
    BY <1>9
  <2>2. Cardinality(d.ca[cr].lits) > 1 /\ ~Contradicts(d.ca[cr].lits) /\ d.ca[cr].lits \in SUBSET Lits
        /\ r.ca[cr].lits = Trimmed(d, d.ca[cr].lits)
    BY <1>0, <1>2, <2>1 DEF Proper, Slimmed
  <2>3. r.ca[cr].lits \in SUBSET d.ca[cr].lits /\ VarsOf(r.ca[cr].lits) \subseteq VarsOf(d.ca[cr].lits)
        /\ Cardinality(r.ca[cr].lits) > 1
    BY <2>2, TrimmedFacts
  <2>4. ~Contradicts(r.ca[cr].lits)
    BY <2>2, <2>3 DEF Contradicts
  <2> QED
    BY <2>3, <2>4
<1>11. Proper(r)
  BY <1>10 DEF Proper
<1>12. Good(r)
  BY <1>1, <1>3, <1>7, <1>8, <1>11 DEF Good, DbType
<1>13. LiveVars(r) \subseteq LiveVars(d)
  BY <1>9, <1>10 DEF LiveVars
<1>14. VarsOf(r.fixed) \subseteq VarsOf(d.fixed)
  BY <1>5 DEF VarsOf
<1>15. VarsOf(UNION r.learnts) \subseteq VarsOf(UNION d.learnts)
  BY <1>4 DEF VarsOf
<1>16. Known(r) \subseteq Known(d)
  BY <1>13, <1>14, <1>15 DEF Known
<1> QED
  BY <1>1, <1>12, <1>13, <1>16

(* With the facts, it says what the memory said. *)
LEMMA SlimmedSays ==
  ASSUME NEW d, Good(d), NEW rel, NEW r, Slimmed(d, r, rel), NEW w \in Assignments, MakesAll(w, d.fixed)
  PROVE  /\ Satisfies(w, Clauses(d)) <=> Satisfies(w, Clauses(r))
         /\ Satisfies(w, LiveClauses(d)) <=> Satisfies(w, LiveClauses(r))
<1>0. Memory(d) /\ d.learnts \in SUBSET SUBSET Lits /\ d.fixed \in SUBSET Lits
  BY DEF Good, DbType, Values
<1>1. \A cr \in Live(d) : cr \in DOMAIN d.ca /\ d.ca[cr].lits \in SUBSET Lits
  BY <1>0, EntryFacts DEF Live
<1>2. ASSUME NEW c \in SUBSET Lits
      PROVE  /\ satisfied(d, c) => SatisfiesClause(w, c)
             /\ SatisfiesClause(w, c) <=> SatisfiesClause(w, Trimmed(d, c))
  BY <1>0, FalsifiedFacts, TrimmedFacts
<1>3. (\A cr \in Live(d) : SatisfiesClause(w, d.ca[cr].lits)) <=> (\A cr \in Live(r) : SatisfiesClause(w, r.ca[cr].lits))
  <2>1. \A cr \in Live(d) : satisfied(d, d.ca[cr].lits) => SatisfiesClause(w, d.ca[cr].lits)
    BY <1>1, <1>2
  <2>2. \A cr \in Live(d) : SatisfiesClause(w, d.ca[cr].lits) <=> SatisfiesClause(w, Trimmed(d, d.ca[cr].lits))
    BY <1>1, <1>2
  <2>3. \A cr \in Live(d) : r.ca[cr].lits = Trimmed(d, d.ca[cr].lits)
    BY <1>1 DEF Slimmed
  <2>4. Live(r) = {cr \in Live(d) : ~satisfied(d, d.ca[cr].lits)}
    BY DEF Slimmed
  <2> QED
    BY <2>1, <2>2, <2>3, <2>4
<1>4. (\A c \in d.learnts : SatisfiesClause(w, c)) <=> (\A c \in r.learnts : SatisfiesClause(w, c))
  <2>1. \A c \in d.learnts : /\ satisfied(d, c) => SatisfiesClause(w, c)
                             /\ SatisfiesClause(w, c) <=> SatisfiesClause(w, Trimmed(d, c))
    BY <1>0, <1>2
  <2>2. r.learnts = {Trimmed(d, c) : c \in {e \in d.learnts : ~satisfied(d, e)}}
    BY DEF Slimmed
  <2> QED
    BY <2>1, <2>2
<1> QED
  BY <1>3, <1>4 DEF Satisfies, Clauses, LiveClauses

(* The negations of facts are not among open clauses that were trimmed. *)
LEMMA SlimmedOpen ==
  ASSUME NEW d, Good(d), ~d.simp, NEW rel, NEW r, Slimmed(d, r, rel), OpenDb(d)
  PROVE  OpenDb(r) /\ (rel \subseteq d.fixed => VarsOf(rel) \cap Known(r) = {})
<1>0. Memory(d) /\ d.learnts \in SUBSET SUBSET Lits /\ d.fixed \in SUBSET Lits /\ ~Contradicts(d.fixed)
  BY DEF Good, DbType, Values
<1>1. \A cr \in Live(d) : cr \in DOMAIN d.ca /\ d.ca[cr].lits \in SUBSET Lits
  BY <1>0, EntryFacts DEF Live
<1>2. r.simp = d.simp /\ r.fixed = d.fixed \ rel
  BY SlimmedGood, ZenonT(60) DEF Slimmed
<1>3. ASSUME NEW c \in SUBSET Lits, Opened(d.fixed, c), ~satisfied(d, c)
      PROVE  /\ Opened(r.fixed, Trimmed(d, c))
             /\ \A p \in Trimmed(d, c) : p \in Lits /\ Neg(p) \notin d.fixed /\ p \notin d.fixed
  <2>1. /\ Trimmed(d, c) \in SUBSET Lits /\ Cardinality(Trimmed(d, c)) > 1
        /\ \A p \in Trimmed(d, c) : p \in Lits /\ Neg(p) \notin d.fixed /\ p \notin d.fixed
    BY <1>3, TrimmedFacts
  <2>2. \A p \in Trimmed(d, c) : Neg(p) \notin r.fixed
    BY <1>2, <2>1
  <2>3. Opened(r.fixed, Trimmed(d, c))
    BY <2>1, <2>2, OpenedLess
  <2> QED
    BY <2>1, <2>3
<1>4. ASSUME NEW cr \in Live(r)
      PROVE  /\ Opened(r.fixed, r.ca[cr].lits)
             /\ \A p \in r.ca[cr].lits : p \in Lits /\ Neg(p) \notin d.fixed /\ p \notin d.fixed
  <2>1. cr \in Live(d) /\ ~satisfied(d, d.ca[cr].lits)
    BY DEF Slimmed
  <2>2. r.ca[cr].lits = Trimmed(d, d.ca[cr].lits) /\ d.ca[cr].lits \in SUBSET Lits
    BY <1>1, <2>1 DEF Slimmed
  <2>3. Opened(d.fixed, d.ca[cr].lits)
    BY <2>1 DEF OpenDb
  <2> QED
    BY <1>3, <2>1, <2>2, <2>3
<1>5. ASSUME NEW c \in r.learnts
      PROVE  /\ Opened(r.fixed, c)
             /\ \A p \in c : p \in Lits /\ Neg(p) \notin d.fixed /\ p \notin d.fixed
  <2>1. PICK e \in d.learnts : ~satisfied(d, e) /\ c = Trimmed(d, e)
    BY DEF Slimmed
  <2>2. Opened(d.fixed, e) /\ e \in SUBSET Lits
    BY <1>0 DEF OpenDb, LearntsOpen
  <2> QED
    BY <1>3, <2>1, <2>2
<1>6. OpenDb(r)
  BY <1>2, <1>4, <1>5 DEF OpenDb, LearntsOpen
<1>7. ASSUME rel \subseteq d.fixed, NEW l \in rel, Var(l) \in Known(r) PROVE FALSE
  <2>0. l \in Lits /\ l \in d.fixed
    BY <1>0, <1>7
  <2>1. ASSUME NEW p \in Lits, Neg(p) \notin d.fixed, p \notin d.fixed, Var(p) = Var(l) PROVE FALSE
    BY <2>0, <2>1, SameVar, LitFacts
  <2>2. CASE Var(l) \in LiveVars(r)
    <3>1. PICK cr \in Live(r) : Var(l) \in VarsOf(r.ca[cr].lits)
      BY <2>2 DEF LiveVars
    <3>2. PICK p \in r.ca[cr].lits : Var(p) = Var(l)
      BY <3>1 DEF VarsOf
    <3> QED
      BY <1>4, <2>1, <3>2
  <2>3. CASE Var(l) \in VarsOf(UNION r.learnts)
    <3>1. PICK p \in UNION r.learnts : Var(p) = Var(l)
      BY <2>3 DEF VarsOf
    <3> QED
      BY <1>5, <2>1, <3>1
  <2>4. CASE Var(l) \in VarsOf(r.fixed)
    <3>1. PICK p \in r.fixed : Var(p) = Var(l)
      BY <2>4 DEF VarsOf
    <3>2. p \in d.fixed /\ p \in Lits /\ p # l
      BY <1>0, <1>2, <1>7, <3>1
    <3>3. Neg(l) \in d.fixed
      BY <2>0, <3>1, <3>2, SameVar
    <3> QED
      BY <1>0, <2>0, <3>3 DEF Contradicts
  <2> QED
    BY <1>7, <2>2, <2>3, <2>4 DEF Known
<1>8. rel \subseteq d.fixed => VarsOf(rel) \cap Known(r) = {}
  <2>1. \A v \in VarsOf(rel) : \E l \in rel : v = Var(l)
    BY DEF VarsOf
  <2> QED
    BY <1>7, <2>1
<1> QED
  BY <1>6, <1>8

(* Solver::simplify. *)
LEMMA ReducedStep ==
  ASSUME NEW d, Good(d), ~d.simp
  PROVE  Lessened(d, garbageCollect(Reduced(d)), released_vars)
<1> DEFINE rel == released_vars
           r == Reduced(d)
           t == garbageCollect(r)
<1>1. Slimmed(d, r, rel)
  BY SlimmedStep
<1> HIDE DEF r, rel, t
<1>2. /\ Good(r) /\ LiveVars(r) \subseteq LiveVars(d) /\ Known(r) \subseteq Known(d)
      /\ r.simp = d.simp /\ r.ok = d.ok /\ r.eliminated = d.eliminated /\ r.elimclauses = d.elimclauses
      /\ r.frozen = d.frozen
  BY <1>1, SlimmedGood
<1>3. Collected(r, t)
  BY <1>2, CollectStep DEF t
<1>4. /\ Good(t) /\ t.simp = r.simp /\ t.ok = r.ok /\ t.eliminated = r.eliminated /\ t.elimclauses = r.elimclauses
      /\ t.frozen = r.frozen /\ t.fixed = r.fixed /\ t.learnts = r.learnts
      /\ LiveVars(t) = LiveVars(r) /\ Clauses(t) = Clauses(r) /\ LiveClauses(t) = LiveClauses(r)
  BY <1>3 DEF Collected, Same, DbFields
<1>5. Known(t) = Known(r)
  BY <1>4 DEF Known
<1>6. OpenDb(r) => OpenDb(t)
  BY <1>3, <1>4, <1>2 DEF OpenDb, LearntsOpen, Collected
<1>7. r.fixed = d.fixed \ rel
  BY <1>1 DEF Slimmed
<1>8. OpenDb(d) => OpenDb(r) /\ (rel \subseteq d.fixed => VarsOf(rel) \cap Known(r) = {})
  BY <1>1, SlimmedOpen
<1>9. \A w \in Assignments : MakesAll(w, d.fixed) =>
       /\ Satisfies(w, Clauses(d)) <=> Satisfies(w, Clauses(r))
       /\ Satisfies(w, LiveClauses(d)) <=> Satisfies(w, LiveClauses(r))
  BY <1>1, SlimmedSays
<1>10. Lessened(d, t, rel)
  BY <1>2, <1>4, <1>5, <1>6, <1>7, <1>8, <1>9 DEF Lessened
<1> QED
  BY <1>10 DEF t, r, rel

(* The database after simplify is exact for the clauses given, when what
   was released is a fact. *)
LEMMA ReducedExact ==
  ASSUME NEW d, NEW t, NEW rel, Lessened(d, t, rel), NEW g, NEW R, rel \subseteq R, Exact(d, g, R)
  PROVE  Exact(t, g, R)
<1>0. t.ok = d.ok /\ t.eliminated = d.eliminated /\ t.fixed = d.fixed \ rel
  BY DEF Lessened
<1>1. ASSUME NEW w \in Full(d) PROVE w \in Full(t)
  <2>1. w \in Assignments /\ MakesAll(w, d.fixed) /\ Satisfies(w, Clauses(d))
    BY DEF Full
  <2>2. MakesAll(w, t.fixed) /\ Satisfies(w, Clauses(t))
    BY <1>0, <2>1 DEF Lessened, MakesAll
  <2> QED
    BY <2>1, <2>2 DEF Full
<1>2. ASSUME NEW w \in Says(t), MakesAll(w, R) PROVE w \in Says(d)
  <2>1. w \in Assignments /\ MakesAll(w, t.fixed) /\ Satisfies(w, LiveClauses(t))
    BY DEF Says
  <2>2. MakesAll(w, d.fixed)
    BY <1>0, <1>2, <2>1 DEF MakesAll
  <2>3. Satisfies(w, LiveClauses(d))
    BY <2>1, <2>2 DEF Lessened
  <2> QED
    BY <2>1, <2>2, <2>3 DEF Says
<1> QED
  BY <1>0, <1>1, <1>2 DEF Exact

-----------------------------------------------------------------------------
(* Where the solver is, and what is so of the database there. *)
Loops == {"main", "backward", "checked", "pick", "asymm", "elim", "collect"}
Places == Loops \cup {"idle", "cleanup", "simplify", "search", "answer", "dead"}
Picked == pc \in {"asymm", "elim"} \/ (pc = "backward" /\ back = "elim")

UserTypes ==
  /\ script \in Seq(Calls) /\ options \in Options
  /\ given \in SUBSET SUBSET Lits /\ next_var \in 0 .. NVars
  /\ released_vars \in SUBSET Lits /\ free_vars \in Seq(Lits)
  /\ max_simp_var \in 0 .. NVars /\ frozen_vars \in SUBSET Vars
LoopTypes ==
  /\ interrupt \in BOOLEAN /\ pc \in Places
  /\ back \in {"none", "checked", "elim", "collect"} /\ elim \in 0 .. NVars
  /\ at \in Nat /\ was_frozen \in BOOLEAN
CallTypes ==
  /\ turn_off \in BOOLEAN /\ solving \in BOOLEAN
  /\ assumptions \in Seq(Lits) /\ extra_frozen \in SUBSET Vars
ResultTypes == answer \in {"idle", "none", "sat", "unsat", "undef"} /\ model \in SUBSET Lits
DbRight == Good(db) /\ (db.ok => Clean(db))
Control ==
  /\ pc \in Loops \cup {"cleanup"} => db.simp
  /\ pc \in Loops \cup {"search", "answer"} => db.ok
  /\ pc = "dead" => ~db.ok
  /\ pc = "backward" => back # "none"
  /\ pc = "asymm" => at > 0
  /\ Picked => elim \in Vars \ db.eliminated
  /\ pc \in {"simplify", "search", "answer", "dead"} => solving
  /\ interrupt => options.interruptible
Right == UserTypes /\ LoopTypes /\ CallTypes /\ ResultTypes /\ DbRight /\ Control

(* No clause mentions an eliminated variable. *)
LEMMA CleanFacts ==
  ASSUME NEW d
  PROVE  Clean(d) <=> LiveVars(d) \cap d.eliminated = {}
BY DEF Clean, LiveVars

(* Two quiet steps are one. *)
LEMMA QuietOn ==
  ASSUME NEW d, NEW e, NEW t, Quiet(d, e), Quiet(e, t)
  PROVE  Quiet(d, t) /\ (Stable(d, e) /\ Stable(e, t) => Stable(d, t))
<1>1. {} \cup {} = {}
  OBVIOUS
<1>2. Kept_(d, t, {})
  <2>1. Kept_(d, t, {} \cup {})
    BY KeptOn DEF Quiet
  <2> QED
    BY <1>1, <2>1
<1>3. t.ok => e.ok
  BY DEF Quiet
<1> QED
  BY <1>2, <1>3 DEF Quiet, Stable

(* A quiet step leaves the database right. *)
LEMMA QuietClean ==
  ASSUME NEW d, NEW t, Quiet(d, t), d.ok => Clean(d)
  PROVE  Good(t) /\ (t.ok => Clean(t))
BY CleanFacts DEF Quiet

(* Garbage collection is quiet. *)
LEMMA CollectQuiet ==
  ASSUME NEW d, Good(d), NEW t, t \in checkGarbage(d)
  PROVE  Quiet(d, t) /\ Stable(d, t) /\ t.frozen = d.frozen /\ t.ok = d.ok /\ t.fixed = d.fixed
         /\ t.unchecked = d.unchecked /\ Live(t) = Live(d) /\ \A cr \in Live(d) : t.ca[cr].lits = d.ca[cr].lits
<1>0. \A m : Satisfies(m, {})
  BY DEF Satisfies
<1>1. CASE t = d
  <2>1. Moves(d, d, {}) /\ Kept_(d, d, {})
    BY Stays
  <2>2. Quiet(d, d)
    BY <2>1, MovesQuiet
  <2> QED
    BY <1>1, <2>2 DEF Stable
<1>2. CASE t = garbageCollect(d)
  <2>1. Collected(d, t)
    BY <1>2, CollectStep
  <2>2. /\ t.simp = d.simp /\ t.ok = d.ok /\ t.eliminated = d.eliminated /\ t.elimclauses = d.elimclauses
        /\ t.frozen = d.frozen /\ t.fixed = d.fixed /\ t.learnts = d.learnts /\ t.unchecked = d.unchecked
    BY <2>1 DEF Collected, Same, DbFields
  <2>3. Known(t) = Known(d)
    BY <2>1, <2>2 DEF Known, Collected
  <2>4. Kept_(d, t, {})
    BY <1>0, <2>1, <2>2 DEF Kept_, Collected
  <2>5. Quiet(d, t)
    BY <2>1, <2>2, <2>3, <2>4 DEF Quiet, Collected
  <2>6. Stable(d, t)
    BY <2>1, <2>2 DEF Stable, OpenDb, LearntsOpen, Collected
  <2> QED
    BY <2>1, <2>2, <2>5, <2>6 DEF Collected
<1> QED
  BY <1>1, <1>2 DEF checkGarbage

(* The next call. *)
LEMMA CallFacts ==
  ASSUME script \in Seq(Calls), script # <<>>
  PROVE  /\ Tail(script) \in Seq(Calls) /\ Call \in Calls
         /\ Call.call = "addClause" => Call.lits \in SUBSET Lits
         /\ Call.call = "releaseVar" => Call.lit \in Lits
         /\ Call.call = "setFrozen" => Call.var \in Vars /\ Call.frozen \in BOOLEAN
         /\ Call.call = "freezeVar" => Call.var \in Vars
         /\ Call.call = "substitute" => Call.var \in Vars /\ Call.lit \in Lits
         /\ Call.call = "eliminate" => Call.turn_off \in BOOLEAN
         /\ Call.call = "solve" => Call.assumps \in Seq(Lits) /\ Call.do_simp \in BOOLEAN /\ Call.turn_off \in BOOLEAN
<1> DEFINE c == Call
<1>1. Tail(script) \in Seq(Calls) /\ c \in Calls
  BY DEF Call
<1> HIDE DEF c
<1>2. /\ c.call = "addClause" => c.lits \in SUBSET Lits
      /\ c.call = "releaseVar" => c.lit \in Lits
      /\ c.call = "setFrozen" => c.var \in Vars /\ c.frozen \in BOOLEAN
      /\ c.call = "freezeVar" => c.var \in Vars
      /\ c.call = "substitute" => c.var \in Vars /\ c.lit \in Lits
      /\ c.call = "eliminate" => c.turn_off \in BOOLEAN
      /\ c.call = "solve" => c.assumps \in Seq(Lits) /\ c.do_simp \in BOOLEAN /\ c.turn_off \in BOOLEAN
  BY <1>1 DEF Calls
<1> QED
  BY <1>1, <1>2 DEF c

(* Nothing has been stored yet. *)
LEMMA InitRight ==
  ASSUME Init
  PROVE  Right
<1>1. PICK s \in Scripts : script = s.calls /\ options = s.options
  BY DEF Init
<1>2. UserTypes
  <2>1. script \in Seq(Calls) /\ options \in Options
    BY <1>1, ScriptsAssumption
  <2>2. <<>> \in Seq(Lits) /\ 0 \in 0 .. NVars
    BY NVarsAssumption
  <2> QED
    BY <2>1, <2>2 DEF Init, UserTypes
<1>3. LoopTypes /\ CallTypes /\ ResultTypes
  <2>1. <<>> \in Seq(Lits) /\ 0 \in 0 .. NVars /\ 0 \in Nat
    BY NVarsAssumption
  <2> QED
    BY <2>1 DEF Init, LoopTypes, CallTypes, ResultTypes, Places
<1>4. Control
  BY DEF Init, Control, Loops, Picked
<1>5. /\ db.ok = TRUE /\ db.ca = <<>> /\ db.learnts = {} /\ db.fixed = {} /\ db.unchecked = {}
      /\ db.occurs = [v \in Vars |-> {}] /\ db.dirty = {} /\ db.n_occ = [p \in Lits |-> 0]
      /\ db.touched = {} /\ db.queue = <<>> /\ db.elim_heap = {} /\ db.frozen = {}
      /\ db.eliminated = {} /\ db.elimclauses = <<>> /\ db.simp = TRUE /\ Rec(db)
  BY DEF Init, Rec, DbFields
<1>6. DOMAIN db.ca = {} /\ Live(db) = {}
  <2>1. DOMAIN <<>> = {}
    OBVIOUS
  <2> QED
    BY <1>5, <2>1 DEF Live
<1>7. Memory(db)
  <2>1. IsFiniteSet({})
    BY FS_EmptySet
  <2>2. <<>> \in [{} -> Entries]
    OBVIOUS
  <2> QED
    BY <1>5, <1>6, <2>1, <2>2 DEF Memory
<1>8. Values(db)
  <2>1. <<>> \in Seq(Records)
    OBVIOUS
  <2> QED
    BY <1>5, <2>1 DEF Values, Contradicts
<1>9. Lists_(db)
  <2>1. <<>> \in Seq(DOMAIN db.ca)
    OBVIOUS
  <2> QED
    BY <1>5, <2>1 DEF Lists_
<1>10. Proper(db) /\ Clean(db)
  BY <1>6 DEF Proper, Clean
<1>11. Listed(db)
  <2>1. \A v : Holding(db, v) = {} /\ Counted(db, v) = {}
    BY <1>6 DEF Holding, Counted
  <2>2. \A v \in Vars : Lists(db, v) = {}
    BY <1>5 DEF Lists
  <2>3. Cardinality({}) = 0
    BY FS_EmptySet
  <2> QED
    BY <1>5, <2>1, <2>2, <2>3 DEF Listed
<1> QED
  BY <1>2, <1>3, <1>4, <1>5, <1>7, <1>8, <1>9, <1>10, <1>11 DEF Right, DbRight, Good, DbType

-----------------------------------------------------------------------------
(* The loops of eliminate. *)
Settled == options.subsumption_lim = -1 /\ ~options.interruptible



(* Lists and queues only. *)
LEMMA ListStep ==
  ASSUME NEW d, Good(d), NEW t, Good(t),
         Same(t, d, {"occurs", "dirty", "n_occ", "queue", "touched", "elim_heap", "frozen"})
  PROVE  /\ Quiet(d, t) /\ Stable(d, t) /\ t.ok = d.ok /\ t.fixed = d.fixed /\ t.learnts = d.learnts
         /\ t.ca = d.ca /\ t.unchecked = d.unchecked /\ Live(t) = Live(d) /\ Full(t) = Full(d)
<1>1. /\ t.ca = d.ca /\ t.learnts = d.learnts /\ t.fixed = d.fixed /\ t.ok = d.ok
      /\ t.unchecked = d.unchecked
      /\ t.eliminated = d.eliminated /\ t.elimclauses = d.elimclauses /\ t.simp = d.simp
  BY DEF Same, DbFields
<1>2. Live(t) = Live(d)
  BY <1>1 DEF Live
<1>3. LiveVars(t) = LiveVars(d) /\ Clauses(t) = Clauses(d) /\ LiveClauses(t) = LiveClauses(d)
  BY <1>1, <1>2 DEF LiveVars, Clauses, LiveClauses
<1>4. Full(t) = Full(d) /\ Says(t) = Says(d) /\ Known(t) = Known(d)
  BY <1>1, <1>3 DEF Full, Says, Known
<1>5. \A m : Satisfies(m, {})
  BY DEF Satisfies
<1>6. Quiet(d, t)
  BY <1>1, <1>3, <1>4, <1>5 DEF Quiet, Kept_
<1>7. Stable(d, t)
  BY <1>1, <1>2, <1>3 DEF Stable, OpenDb, LearntsOpen
<1> QED
  BY <1>1, <1>2, <1>4, <1>6, <1>7

(* lookup cleans one list only. *)
LEMMA LookupQuiet ==
  ASSUME NEW d, Good(d), NEW v \in Vars
  PROVE  LET t == lookup(d, v) IN
         /\ Quiet(d, t) /\ Stable(d, t) /\ t.ok = d.ok /\ t.fixed = d.fixed /\ t.learnts = d.learnts
         /\ t.frozen = d.frozen /\ t.unchecked = d.unchecked /\ Live(t) = Live(d) /\ t.ca = d.ca
<1> DEFINE t == lookup(d, v)
<1>1. Good(t) /\ Same(t, d, {"occurs", "dirty"})
  BY LookupFacts
<1> HIDE DEF t
<1>2. /\ Same(t, d, {"occurs", "dirty", "n_occ", "queue", "touched", "elim_heap", "frozen"})
      /\ t.frozen = d.frozen
  BY <1>1 DEF Same, DbFields
<1> QED
  BY <1>1, <1>2, ListStep DEF t

(* Only the heap, or who is frozen, changes. *)
LEMMA HeapQuiet ==
  ASSUME NEW d, Good(d), NEW x \in SUBSET Vars, NEW y \in SUBSET Vars
  PROVE  LET t == [d EXCEPT !.elim_heap = x]
             u == [d EXCEPT !.frozen = y]
             w == [[d EXCEPT !.elim_heap = x] EXCEPT !.frozen = y] IN
         /\ Quiet(d, t) /\ Stable(d, t) /\ t.ok = d.ok /\ t.frozen = d.frozen /\ t.unchecked = d.unchecked /\ t.ca = d.ca /\ t.fixed = d.fixed
         /\ Quiet(d, u) /\ Stable(d, u) /\ u.ok = d.ok /\ u.frozen = y /\ u.unchecked = d.unchecked /\ u.ca = d.ca /\ u.fixed = d.fixed
         /\ Quiet(d, w) /\ Stable(d, w) /\ w.ok = d.ok /\ w.frozen = y /\ w.unchecked = d.unchecked /\ w.ca = d.ca /\ w.fixed = d.fixed
<1>0. Rec(d) /\ d.touched \in SUBSET Vars /\ d.elim_heap \in SUBSET Vars /\ d.frozen \in SUBSET Vars
      /\ d.queue \in Seq(DOMAIN d.ca) /\ d.unchecked \in SUBSET d.fixed
  BY DEF Good, DbType, Values, Lists_
<1> DEFINE N == {"touched", "elim_heap", "frozen", "queue", "unchecked"}
           t == [d EXCEPT !.elim_heap = x]
           u == [d EXCEPT !.frozen = y]
           w == [t EXCEPT !.frozen = y]
<1>1. Same(t, d, {"elim_heap"}) /\ t.elim_heap = x /\ Same(u, d, {"frozen"}) /\ u.frozen = y
  BY <1>0, FieldFacts
<1> HIDE DEF t, u
<1>2. Rec(t)
  BY <1>1 DEF Same
<1>3. Same(w, t, {"frozen"}) /\ w.frozen = y
  BY <1>2, FieldFacts
<1> HIDE DEF w
<1>4. /\ Same(t, d, N) /\ t.touched = d.touched /\ t.elim_heap = x /\ t.frozen = d.frozen /\ t.queue = d.queue
      /\ t.unchecked = d.unchecked
  BY <1>1 DEF Same, DbFields
<1>5. /\ Same(u, d, N) /\ u.touched = d.touched /\ u.elim_heap = d.elim_heap /\ u.frozen = y /\ u.queue = d.queue
      /\ u.unchecked = d.unchecked
  BY <1>1 DEF Same, DbFields
<1>6. /\ Same(w, d, N) /\ w.touched = d.touched /\ w.elim_heap = x /\ w.frozen = y /\ w.queue = d.queue
      /\ w.unchecked = d.unchecked
  BY <1>1, <1>3 DEF Same, DbFields
<1>7. Quiet(d, t) /\ Stable(d, t) /\ t.ok = d.ok /\ t.ca = d.ca /\ t.fixed = d.fixed
  BY <1>0, <1>4, SetStep
<1>8. Quiet(d, u) /\ Stable(d, u) /\ u.ok = d.ok /\ u.ca = d.ca /\ u.fixed = d.fixed
  BY <1>0, <1>5, SetStep
<1>9. Quiet(d, w) /\ Stable(d, w) /\ w.ok = d.ok /\ w.ca = d.ca /\ w.fixed = d.fixed
  BY <1>0, <1>6, SetStep
<1> QED
  BY <1>4, <1>5, <1>6, <1>7, <1>8, <1>9 DEF t, u, w

(* The same database. *)
LEMMA QuietSame ==
  ASSUME NEW d, Good(d)
  PROVE  Quiet(d, d) /\ Stable(d, d)
BY Stays, MovesQuiet DEF Stable

(* gatherTouchedClauses changes no clause. *)
LEMMA GatherQuiet ==
  ASSUME Right, Gather
  PROVE  Quiet(db, db') /\ Stable(db, db') /\ db.frozen \subseteq db'.frozen /\ db'.ok = db.ok
<1> DEFINE d == db
           t == db'
<1>1. Good(d) /\ t = gatherTouchedClauses(d)
  BY DEF Right, DbRight, Gather
<1> HIDE DEF d, t
<1>2. Good(t) /\ Same(t, d, {"occurs", "dirty", "queue", "touched"})
  BY <1>1, GatherStep
<1>3. /\ Same(t, d, {"occurs", "dirty", "n_occ", "queue", "touched", "elim_heap", "frozen"})
      /\ t.frozen = d.frozen
  BY <1>2 DEF Same, DbFields
<1>4. Quiet(d, t) /\ Stable(d, t) /\ t.ok = d.ok
  BY <1>1, <1>2, <1>3, ListStep
<1> QED
  BY <1>3, <1>4 DEF d, t

Held_(d, t) == Quiet(d, t) /\ t.frozen = d.frozen

(* The queue gets another value, or what is left unchecked. *)
LEMMA QueueQuiet ==
  ASSUME NEW d, Good(d), NEW q \in Seq(DOMAIN d.ca), NEW u \in SUBSET d.fixed
  PROVE  LET t == [d EXCEPT !.queue = q]
             w == [d EXCEPT !.unchecked = u]
             x == [d EXCEPT !.queue = q, !.unchecked = u] IN
         /\ Held_(d, t) /\ Stable(d, t) /\ t.ok = d.ok /\ t.ca = d.ca /\ t.fixed = d.fixed
         /\ Held_(d, w) /\ w.ok = d.ok /\ w.ca = d.ca /\ w.fixed = d.fixed /\ w.learnts = d.learnts
         /\ w.unchecked = u
         /\ Held_(d, x) /\ x.ok = d.ok
<1>0. Rec(d) /\ d.touched \in SUBSET Vars /\ d.elim_heap \in SUBSET Vars /\ d.frozen \in SUBSET Vars
      /\ d.queue \in Seq(DOMAIN d.ca) /\ d.unchecked \in SUBSET d.fixed
  BY DEF Good, DbType, Values, Lists_
<1> DEFINE N == {"touched", "elim_heap", "frozen", "queue", "unchecked"}
           t == [d EXCEPT !.queue = q]
           w == [d EXCEPT !.unchecked = u]
           x == [d EXCEPT !.queue = q, !.unchecked = u]
<1>1. Same(t, d, {"queue"}) /\ t.queue = q /\ Same(w, d, {"unchecked"}) /\ w.unchecked = u
  BY <1>0, FieldFacts
<1>2. Same(x, d, {"queue", "unchecked"}) /\ x.queue = q /\ x.unchecked = u
  <2>1. d = [f \in DbFields |-> d[f]]
    BY <1>0 DEF Rec
  <2> QED
    BY <2>1 DEF Same, Rec, DbFields
<1> HIDE DEF t, w, x
<1>4. /\ Same(t, d, N) /\ t.touched = d.touched /\ t.elim_heap = d.elim_heap /\ t.frozen = d.frozen /\ t.queue = q
      /\ t.unchecked = d.unchecked
  BY <1>1 DEF Same, DbFields
<1>5. /\ Same(w, d, N) /\ w.touched = d.touched /\ w.elim_heap = d.elim_heap /\ w.frozen = d.frozen /\ w.queue = d.queue
      /\ w.unchecked = u
  BY <1>1 DEF Same, DbFields
<1>6. /\ Same(x, d, N) /\ x.touched = d.touched /\ x.elim_heap = d.elim_heap /\ x.frozen = d.frozen /\ x.queue = q
      /\ x.unchecked = u
  BY <1>2 DEF Same, DbFields
<1>7. Quiet(d, t) /\ Stable(d, t) /\ t.ok = d.ok /\ t.ca = d.ca /\ t.fixed = d.fixed
  BY <1>0, <1>4, SetStep
<1>8. Quiet(d, w) /\ w.ok = d.ok /\ w.ca = d.ca /\ w.fixed = d.fixed /\ w.learnts = d.learnts
  BY <1>0, <1>5, SetStep
<1>9. Quiet(d, x) /\ x.ok = d.ok
  BY <1>0, <1>6, SetStep
<1> QED
  BY <1>4, <1>5, <1>6, <1>7, <1>8, <1>9 DEF t, w, x, Held_

(* An interrupt in backwardSubsumptionCheck empties the queue and no more. *)
LEMMA BackwardInterruptedQuiet ==
  ASSUME Right, BackwardInterrupted
  PROVE  Held_(db, db') /\ db'.ok = db.ok /\ options.interruptible
<1> DEFINE d == db
           q == <<>>
           u == {}
           t == [d EXCEPT !.queue = q, !.unchecked = u]
<1>1. Good(d) /\ db' = t /\ options.interruptible
  BY DEF Right, DbRight, BackwardInterrupted, Control
<1>2. q \in Seq(DOMAIN d.ca) /\ u \in SUBSET d.fixed
  OBVIOUS
<1> HIDE DEF q, u, d
<1>3. Held_(d, t) /\ t.ok = d.ok
  BY <1>1, <1>2, QueueQuiet, ZenonT(60)
<1> QED
  BY <1>1, <1>3 DEF d

(* The head and the tail of a queue. *)
LEMMA HeadTail ==
  ASSUME NEW S, NEW q \in Seq(S), q # <<>>
  PROVE  Head(q) \in S /\ Tail(q) \in Seq(S)
OBVIOUS

(* A clause that is live says itself. *)
LEMMA CheckClauseQuiet ==
  ASSUME Right, CheckClause
  PROVE  Held_(db, db') /\ Stable(db, db')
<1> DEFINE d == db
           cr == Head(d.queue)
           q == Tail(d.queue)
           e == [d EXCEPT !.queue = q]
           c == d.ca[cr].lits
           t == db'
<1>1. Good(d) /\ d.simp
  BY DEF Right, DbRight, CheckClause, Control, Loops
<1>2. d.queue # <<>> /\ t = IF d.ca[cr].removed THEN e ELSE Against(e, c, cr)
  BY DEF CheckClause
<1>0. Memory(d) /\ Lists_(d) /\ Proper(d)
  BY <1>1 DEF Good, DbType
<1>3. cr \in DOMAIN d.ca /\ q \in Seq(DOMAIN d.ca)
  <2>1. d.queue \in Seq(DOMAIN d.ca) /\ d.queue # <<>>
    BY <1>0, <1>2 DEF Lists_
  <2> QED
    BY <2>1, HeadTail
<1>4. d.unchecked \in SUBSET d.fixed
  BY <1>1 DEF Good, DbType, Values
<1> HIDE DEF d, cr, q, e, t
<1>5. Held_(d, e) /\ Stable(d, e) /\ e.ok = d.ok /\ e.ca = d.ca /\ e.fixed = d.fixed
  BY <1>1, <1>3, <1>4, QueueQuiet DEF e
<1>6. ASSUME d.ca[cr].removed PROVE Held_(d, t) /\ Stable(d, t)
  BY <1>2, <1>5, <1>6
<1>7. ASSUME ~d.ca[cr].removed PROVE Held_(d, t) /\ Stable(d, t)
  <2>1. t = Against(e, c, cr)
    BY <1>2, <1>7
  <2>2. cr \in Live(d) /\ cr # 0
    BY <1>0, <1>3, <1>7, EntryFacts DEF Live
  <2>3. c \in SUBSET Lits /\ Cardinality(c) > 1 /\ ~Contradicts(c)
    BY <1>0, <1>3, <2>2, EntryFacts DEF Proper
  <2>4. c # {}
    BY <2>3, ManyFacts
  <2>5. Saying(e, c, cr)
    BY <1>5, <2>2 DEF Saying, Live
  <2>6. Good(e) /\ e.simp
    BY <1>1, <1>5 DEF Held_, Quiet
  <2> HIDE DEF c
  <2>7. Moves(e, t, {}) /\ Kept_(e, t, {})
    BY <2>1, <2>3, <2>4, <2>5, <2>6, AgainstStep
  <2>8. Quiet(e, t) /\ Stable(e, t) /\ t.frozen = e.frozen
    BY <2>6, <2>7, MovesQuiet DEF Moves, Held
  <2> QED
    BY <1>5, <2>8, QuietOn DEF Held_
<1> QED
  BY <1>6, <1>7 DEF d, t

(* No clause mentions the variable of a fact that has nothing to say. *)
LEMMA SilentFact ==
  ASSUME NEW t, Good(t), NEW l \in Lits, \A o \in Live(t) \ {0} : Silent({l}, t.ca[o].lits)
  PROVE  Var(l) \notin LiveVars(t)
<1>1. ASSUME NEW o \in Live(t) PROVE Var(l) \notin VarsOf(t.ca[o].lits)
  <2>1. Memory(t) /\ o \in DOMAIN t.ca
    BY DEF Good, DbType, Live
  <2>2. o # 0 /\ t.ca[o].lits \in SUBSET Lits
    BY <2>1, EntryFacts
  <2>3. Silent({l}, t.ca[o].lits)
    BY <2>2
  <2>4. l \notin t.ca[o].lits /\ Neg(l) \notin t.ca[o].lits
    BY <2>3 DEF Silent, Flips
  <2>5. \A p \in t.ca[o].lits : p \in Lits
    BY <2>2
  <2> QED
    BY <2>4, <2>5, SameVar DEF VarsOf
<1> QED
  BY <1>1 DEF LiveVars

(* A fact takes its negation out of all clauses. *)
LEMMA CheckFactQuiet ==
  ASSUME Right, CheckFact
  PROVE  Held_(db, db') /\ (Settled => Stable(db, db'))
<1> DEFINE d == db
           t == db'
<1>1. Good(d) /\ d.simp /\ d.ok /\ Clean(d)
  BY DEF Right, DbRight, CheckFact, Control, Loops
<1>2. PICK l \in d.unchecked : t = Against([d EXCEPT !.unchecked = d.unchecked \ {l}], {l}, 0)
  BY DEF CheckFact
<1> DEFINE u == d.unchecked \ {l}
           e == [d EXCEPT !.unchecked = u]
<1>3. t = Against(e, {l}, 0)
  BY <1>2
<1>4. /\ d.fixed \in SUBSET Lits /\ d.unchecked \in SUBSET d.fixed /\ d.queue \in Seq(DOMAIN d.ca)
      /\ u \in SUBSET d.fixed /\ l \in d.fixed /\ l \in Lits /\ ~Contradicts(d.fixed)
  BY <1>1 DEF Good, DbType, Values, Lists_
<1> HIDE DEF d, t
<1>5. Held_(d, e) /\ e.ok = d.ok /\ e.ca = d.ca /\ e.fixed = d.fixed /\ e.learnts = d.learnts /\ e.unchecked = u
  BY <1>1, <1>4, QueueQuiet, ZenonT(60)
<1> HIDE DEF e
<1>6. /\ {l} \in SUBSET Lits /\ {l} # {} /\ ~Contradicts({l}) /\ Saying(e, {l}, 0)
  BY <1>4, <1>5, LitFacts DEF Contradicts, Saying
<1>7. Good(e) /\ e.simp /\ e.eliminated = d.eliminated /\ Live(e) = Live(d)
  BY <1>1, <1>5 DEF Held_, Quiet, Live
<1>8. Clean(e)
  BY <1>1, <1>5, <1>7 DEF Clean
<1>9. /\ Moves(e, t, {}) /\ Kept_(e, t, {})
      /\ t.ok /\ options.subsumption_lim = -1 => \A o \in Live(t) \ {0} : Silent({l}, t.ca[o].lits)
  <2> DEFINE c == {l}
  <2>1. c \in SUBSET Lits /\ c # {} /\ ~Contradicts(c) /\ Saying(e, c, 0)
    BY <1>6
  <2> HIDE DEF c
  <2>2. /\ Moves(e, Against(e, c, 0), {}) /\ Kept_(e, Against(e, c, 0), {})
        /\ Against(e, c, 0).ok /\ Clean(e) /\ options.subsumption_lim = -1 =>
              \A o \in Live(Against(e, c, 0)) \ {0} : Silent(c, Against(e, c, 0).ca[o].lits)
    BY <1>7, <2>1, AgainstStep
  <2>3. t = Against(e, c, 0)
    BY <1>3 DEF e, c
  <2> QED
    BY <1>8, <2>2, <2>3 DEF c
<1>10. Quiet(e, t) /\ t.frozen = e.frozen /\ t.learnts = e.learnts /\ Good(t) /\ t.simp
       /\ t.fixed \ t.unchecked = e.fixed \ e.unchecked /\ (t.ok /\ LearntsOpen(e) => LearntsOpen(t))
       /\ LiveVars(t) \subseteq LiveVars(e)
  BY <1>7, <1>9, MovesQuiet DEF Moves, Held, Narrow
<1>11. Held_(d, t)
  BY <1>5, <1>10, QuietOn DEF Held_
<1>12. ASSUME Settled, t.ok, OpenDb(d) PROVE OpenDb(t)
  <2>1. LearntsOpen(t)
    BY <1>5, <1>10, <1>12 DEF OpenDb, LearntsOpen
  <2>2. Var(l) \notin LiveVars(t)
    BY <1>4, <1>9, <1>10, <1>12, SilentFact DEF Settled
  <2>3. t.fixed \ t.unchecked \subseteq (d.fixed \ d.unchecked) \cup {l}
    BY <1>5, <1>10
  <2>4. LiveVars(t) \subseteq LiveVars(d)
    BY <1>11 DEF Held_, Quiet
  <2>5. VarsOf(t.fixed \ t.unchecked) \cap LiveVars(t) = {}
    <3>1. VarsOf(d.fixed \ d.unchecked) \cap LiveVars(d) = {}
      BY <1>1, <1>12 DEF OpenDb
    <3>2. VarsOf(t.fixed \ t.unchecked) \subseteq VarsOf(d.fixed \ d.unchecked) \cup {Var(l)}
      BY <2>3 DEF VarsOf
    <3> QED
      BY <2>2, <2>4, <3>1, <3>2
  <2> QED
    BY <1>10, <2>1, <2>5 DEF OpenDb
<1> QED
  BY <1>11, <1>12 DEF Stable, d, t

(* A limit that is reached leaves the clauses. *)
LEMMA AbandonedQuiet ==
  ASSUME Right, Abandoned
  PROVE  Held_(db, db') /\ Stable(db, db') /\ db'.ok = db.ok
<1> DEFINE d == db
           x == {}
           t == [d EXCEPT !.elim_heap = x]
<1>1. Good(d) /\ db' = t /\ d.frozen \in SUBSET Vars
  BY DEF Right, DbRight, Abandoned, Good, DbType, Values
<1>2. x \in SUBSET Vars
  OBVIOUS
<1> HIDE DEF x, d
<1>3. Quiet(d, t) /\ Stable(d, t) /\ t.ok = d.ok /\ t.frozen = d.frozen
  BY <1>1, <1>2, HeapQuiet
<1> QED
  BY <1>1, <1>3 DEF d, Held_

(* Taking a variable from the heap leaves the clauses. *)
LEMMA PoppedQuiet ==
  ASSUME Good(db), NEW v
  PROVE  Held_(db, Popped(v)) /\ Stable(db, Popped(v)) /\ Popped(v).ok = db.ok
<1> DEFINE d == db
           x == d.elim_heap \ {v}
           t == [d EXCEPT !.elim_heap = x]
<1>1. Popped(v) = t
  BY DEF Popped
<1>2. x \in SUBSET Vars /\ d.frozen \in SUBSET Vars
  BY DEF Good, DbType, Values
<1> HIDE DEF x, d
<1>3. Quiet(d, t) /\ Stable(d, t) /\ t.ok = d.ok /\ t.frozen = d.frozen
  BY <1>2, HeapQuiet DEF d
<1> QED
  BY <1>1, <1>3 DEF d, Held_

(* The variable taken from the heap is neither eliminated nor assigned. *)
LEMMA PickQuiet ==
  ASSUME Right, Pick
  PROVE  /\ Quiet(db, db') /\ Stable(db, db') /\ db'.ok = db.ok /\ db.frozen \subseteq db'.frozen
         /\ elim' \in Vars \ db.eliminated /\ elim' \notin AssignedVars(db) /\ (elim' \in db.frozen <=> was_frozen')
<1>0. Good(db)
  BY DEF Right, DbRight
<1>1. PICK v \in Vars :
        LET tried == options.use_asymm /\ Lists(db, v) # {} IN
         /\ Cheapest(v) /\ ~Skipped(v)
         /\ db' = IF ~options.use_asymm THEN Popped(v)
                  ELSE lookup([Popped(v) EXCEPT !.frozen = IF tried THEN @ \cup {v} ELSE @], v)
         /\ elim' = v
         /\ was_frozen' = (v \in db.frozen)
  BY DEF Pick
<1>2. v \notin db.eliminated /\ v \notin AssignedVars(db)
  BY <1>1 DEF Skipped
<1> DEFINE d == db
           b == options.use_asymm /\ Lists(db, v) # {}
           x == d.elim_heap \ {v}
           y == IF b THEN d.frozen \cup {v} ELSE d.frozen
           t == db'
           p == [d EXCEPT !.elim_heap = x]
           w == [p EXCEPT !.frozen = y]
<1>3. Popped(v) = p /\ x \in SUBSET Vars /\ y \in SUBSET Vars /\ d.frozen \subseteq y
  BY <1>0 DEF Good, DbType, Values, Popped
<1>4. p.frozen = d.frozen
  <2> HIDE DEF x, d
  <2>1. Rec(d)
    BY <1>0 DEF Good, DbType, d
  <2> QED
    BY <2>1 DEF Rec, DbFields
<1>5. t = IF ~options.use_asymm THEN p ELSE lookup(w, v)
  <2> HIDE DEF x, p, b
  <2>1. [p EXCEPT !.frozen = IF b THEN @ \cup {v} ELSE @] = w
    BY <1>4
  <2>2. t = IF ~options.use_asymm THEN Popped(v) ELSE lookup([Popped(v) EXCEPT !.frozen = IF b THEN @ \cup {v} ELSE @], v)
    BY <1>1 DEF b
  <2> QED
    BY <1>3, <2>1, <2>2
<1> HIDE DEF d, x, y, t, b
<1>g. Good(d) /\ x \in SUBSET Vars /\ y \in SUBSET Vars
  BY <1>0, <1>3 DEF d
<1>h. /\ Quiet(d, p) /\ Stable(d, p) /\ p.ok = d.ok /\ p.frozen = d.frozen
  BY <1>g, HeapQuiet
<1> HIDE DEF p
<1>i. Quiet(p, w) /\ Stable(p, w) /\ w.ok = p.ok /\ w.frozen = y
  <2>1. Good(p)
    BY <1>h DEF Quiet
  <2> QED
    BY <1>g, <2>1, HeapQuiet, ZenonT(60)
<1> HIDE DEF w
<1>6. Quiet(d, w) /\ Stable(d, w) /\ w.ok = d.ok /\ w.frozen = y
  BY <1>h, <1>i, QuietOn
<1>7. Quiet(d, t) /\ Stable(d, t) /\ t.ok = d.ok /\ d.frozen \subseteq t.frozen
  <2>1. CASE ~options.use_asymm
    BY <1>5, <1>h, <2>1
  <2>2. CASE options.use_asymm
    <3>1. t = lookup(w, v)
      BY <1>5, <2>2
    <3>2. Good(w)
      BY <1>6 DEF Quiet
    <3>3. Quiet(w, t) /\ Stable(w, t) /\ t.ok = w.ok /\ t.frozen = w.frozen
      BY <3>1, <3>2, LookupQuiet
    <3> QED
      BY <1>3, <1>6, <3>3, QuietOn
  <2> QED
    BY <2>1, <2>2
<1>8. elim' \in db.frozen <=> was_frozen'
  BY <1>1
<1> QED
  BY <1>1, <1>2, <1>7, <1>8 DEF d, t

(* A clause that may lose what it does not need says no more without it. *)
LEMMA SuperfluousHolds ==
  ASSUME Good(db), NEW c \in SUBSET Lits, Superfluous(c), NEW l \in c \ Others(c), NEW m \in Full(db)
  PROVE  SatisfiesClause(m, c \ {l})
<1> DEFINE cs == Clauses(db)
           N == {Neg(p) : p \in Others(c)}
           S == db.fixed \cup N
<1>0. Others(c) \subseteq c \ {l}
  BY DEF Others
<1>1. SUFFICES ASSUME \A p \in Others(c) : ~Makes(m, p) PROVE FALSE
  BY <1>0 DEF SatisfiesClause
<1>2. m \in Assignments /\ Satisfies(m, cs) /\ MakesAll(m, db.fixed)
  BY DEF Full
<1>3. cs \in SUBSET SUBSET Lits /\ db.fixed \in SUBSET Lits
  BY ClausesType DEF Good, DbType, Values
<1>4. \A p \in Others(c) : p \in Lits /\ Neg(p) \in Lits /\ Makes(m, Neg(p))
  <2>1. \A p \in Others(c) : p \in Lits
    BY <1>0
  <2> QED
    BY <1>1, <1>2, <2>1, MakesNeg, LitFacts
<1>5. MakesAll(m, S) /\ S \in SUBSET Lits
  BY <1>2, <1>3, <1>4 DEF MakesAll
<1>6. Contradicts(Closure(cs, S))
  BY DEF Superfluous
<1> HIDE DEF cs, S, N
<1>7. MakesAll(m, Closure(cs, S)) /\ Closure(cs, S) \in SUBSET Lits
  <2>1. Closure(cs, S) \subseteq S \cup UNION cs /\ MakesAll(m, Closure(cs, S))
    BY <1>2, <1>3, <1>5, ClosureFacts
  <2> QED
    BY <1>3, <1>5, <2>1
<1> QED
  BY <1>2, <1>6, <1>7, NoContradiction

(* asymm shortens a clause, or does nothing. *)
LEMMA asymmMoves ==
  ASSUME Right, asymm
  PROVE  db' = db \/ (Moves(db, db', {}) /\ Kept_(db, db', {}))
<1> DEFINE d == db
           t == db'
           cr == List[at]
           c == d.ca[cr].lits
<1>1. Good(d) /\ d.simp /\ elim \in Vars /\ at \in Nat /\ at > 0 /\ at <= Len(List)
  BY DEF Right, DbRight, asymm, Control, Loops, LoopTypes, Picked
<1>2. IF ~d.ca[cr].removed /\ Superfluous(c)
      THEN \E l \in c \ Others(c) : t = strengthenClause(d, cr, l) ELSE t = d
  BY DEF asymm
<1>0. Memory(d) /\ Lists_(d)
  BY <1>1 DEF Good, DbType
<1>3. cr \in DOMAIN d.ca
  <2>1. d.occurs[elim] \in SUBSET DOMAIN d.ca
    BY <1>0, <1>1 DEF Lists_
  <2>2. IsFiniteSet(d.occurs[elim]) /\ d.occurs[elim] \in SUBSET Nat
    BY <1>0, <2>1, RefsFinite
  <2>3. List = InOrder(d.occurs[elim])
    BY DEF List
  <2>4. Len(List) \in Nat /\ \A k \in 1 .. Len(List) : List[k] \in d.occurs[elim]
    BY <2>2, <2>3, InOrderFacts
  <2>5. at \in 1 .. Len(List)
    BY <1>1, <2>4
  <2> QED
    BY <2>1, <2>4, <2>5
<1>4. ASSUME ~d.ca[cr].removed, Superfluous(c), NEW l \in c \ Others(c), t = strengthenClause(d, cr, l)
      PROVE  Moves(d, t, {}) /\ Kept_(d, t, {})
  <2>1. cr \in Live(d) /\ c \in SUBSET Lits
    BY <1>0, <1>3, <1>4, EntryFacts DEF Live
  <2>2. \A m \in Full(d) : SatisfiesClause(m, c \ {l})
    <3> HIDE DEF c, cr
    <3> QED
      BY <1>1, <1>4, <2>1, SuperfluousHolds
  <2>3. Strengthened(d, t, cr, l)
    <3>1. l \in d.ca[cr].lits /\ \A m \in Full(d) : SatisfiesClause(m, d.ca[cr].lits \ {l})
      BY <1>4, <2>2
    <3> HIDE DEF d, cr, c, t
    <3> QED
      BY <1>1, <1>4, <2>1, <3>1, StrengthenStep
  <2> QED
    BY <2>3 DEF Strengthened
<1>5. CASE ~d.ca[cr].removed /\ Superfluous(c)
  BY <1>2, <1>4, <1>5
<1>6. CASE ~(~d.ca[cr].removed /\ Superfluous(c))
  BY <1>2, <1>6
<1> QED
  BY <1>5, <1>6

(* asymm shortens a clause that says as much afterwards. *)
LEMMA asymmQuiet ==
  ASSUME Right, asymm
  PROVE  Held_(db, db') /\ Stable(db, db')
<1> DEFINE d == db
           t == db'
<1>1. Good(d) /\ d.simp
  BY DEF Right, DbRight, asymm, Control, Loops
<1>2. t = d \/ (Moves(d, t, {}) /\ Kept_(d, t, {}))
  BY asymmMoves
<1> HIDE DEF d, t
<1>3. ASSUME t = d PROVE Held_(d, t) /\ Stable(d, t)
  BY <1>1, <1>3, QuietSame DEF Held_
<1>4. ASSUME Moves(d, t, {}), Kept_(d, t, {}) PROVE Held_(d, t) /\ Stable(d, t)
  BY <1>1, <1>4, MovesQuiet DEF Held_, Moves, Held
<1> QED
  BY <1>2, <1>3, <1>4 DEF d, t

(* After asymmetric branching the variable is as frozen as it was. *)
LEMMA RestoredQuiet ==
  ASSUME Right
  PROVE  /\ Quiet(db, Restored) /\ Stable(db, Restored) /\ Restored.ok = db.ok
         /\ Restored.frozen = (IF was_frozen THEN db.frozen ELSE db.frozen \ {elim})
         /\ Restored.fixed = db.fixed /\ Restored.ca = db.ca /\ Restored.unchecked = db.unchecked
<1> DEFINE d == db
           y == IF was_frozen THEN d.frozen ELSE d.frozen \ {elim}
           t == [d EXCEPT !.frozen = y]
<1>1. Restored = t /\ y \in SUBSET Vars /\ Good(d) /\ d.elim_heap \in SUBSET Vars
  BY DEF Right, DbRight, Restored, Good, DbType, Values
<1> HIDE DEF y, d
<1>2. Quiet(d, t) /\ Stable(d, t) /\ t.ok = d.ok /\ t.frozen = y /\ t.unchecked = d.unchecked /\ t.ca = d.ca /\ t.fixed = d.fixed
  BY <1>1, HeapQuiet, ZenonT(60)
<1> QED
  BY <1>1, <1>2 DEF d, y

(* A variable that is not eliminated leaves the clauses as they are. *)
LEMMA KeptQuiet ==
  ASSUME Right, Kept
  PROVE  /\ Quiet(db, db') /\ Stable(db, db') /\ db'.ok = db.ok
         /\ db'.frozen = (IF was_frozen THEN db.frozen ELSE db.frozen \ {elim})
<1>1. elim \in Vars /\ (db' = Restored \/ db' = lookup(Restored, elim))
  BY DEF Right, Control, Kept, Picked
<1> DEFINE r == Restored
           t == db'
<1>2. /\ Quiet(db, r) /\ Stable(db, r) /\ r.ok = db.ok
      /\ r.frozen = (IF was_frozen THEN db.frozen ELSE db.frozen \ {elim})
  BY RestoredQuiet
<1> HIDE DEF r, t
<1>3. Quiet(r, t) /\ Stable(r, t) /\ t.ok = r.ok /\ t.frozen = r.frozen
  <2>1. Good(r)
    BY <1>2 DEF Quiet
  <2> QED
    BY <1>1, <2>1, QuietSame, LookupQuiet DEF r, t
<1>4. Quiet(db, t) /\ Stable(db, t)
  BY <1>2, <1>3, QuietOn
<1> QED
  BY <1>2, <1>3, <1>4 DEF t

(* A variable that is eliminated leaves its resolvents, which say what its
   clauses said of all others. *)
LEMMA EliminatedResolved ==
  ASSUME Right, Eliminated
  PROVE  /\ Resolved(Restored, db', elim)
         /\ db'.elimclauses = db.elimclauses \o RecordsOf(Restored, elim)
         /\ ~options.use_rcheck => SameModels(Restored, db', elim)
         /\ ~was_frozen /\ elim \in Vars \ db.eliminated
<1>1. /\ elim \in Vars \ db.eliminated /\ elim \notin AssignedVars(db) /\ ~was_frozen /\ db.ok /\ db.simp
      /\ db' = eliminateVar(Restored, elim)
  BY DEF Right, Control, Eliminated, Picked, Loops, MayEliminate
<1> DEFINE r == Restored
<1>2. Quiet(db, r) /\ r.ok = db.ok /\ r.fixed = db.fixed
  BY RestoredQuiet
<1>3. Good(r) /\ r.simp /\ r.ok /\ elim \notin r.eliminated /\ elim \notin AssignedVars(r)
  BY <1>1, <1>2 DEF Quiet, AssignedVars
<1> HIDE DEF r
<1>4. /\ Resolved(r, eliminateVar(r, elim), elim)
      /\ ~options.use_rcheck => SameModels(r, eliminateVar(r, elim), elim)
      /\ eliminateVar(r, elim).elimclauses = r.elimclauses \o RecordsOf(r, elim)
  BY <1>1, <1>3, EliminateStep
<1>5. r.elimclauses = db.elimclauses
  BY <1>2 DEF Quiet
<1> QED
  BY <1>1, <1>4, <1>5 DEF r

-----------------------------------------------------------------------------
(* What users call. *)

(* Only lists change, or who is frozen. *)
Alike_(d, t) ==
  /\ Quiet(d, t) /\ Stable(d, t) /\ t.ok = d.ok /\ t.fixed = d.fixed /\ t.learnts = d.learnts
  /\ t.ca = d.ca /\ t.unchecked = d.unchecked /\ Live(t) = Live(d) /\ Full(t) = Full(d)
  /\ t.touched = d.touched

(* freezeVar and setFrozen change no clause. *)
LEMMA FrozenAlike ==
  ASSUME NEW d, Good(d), NEW y, y \in SUBSET Vars
  PROVE  Alike_(d, [d EXCEPT !.frozen = y]) /\ [d EXCEPT !.frozen = y].frozen = y
<1> DEFINE t == [d EXCEPT !.frozen = y]
<1>1. Rec(d) /\ d.elim_heap \in SUBSET Vars
  BY DEF Good, DbType, Values
<1>2. Same(t, d, {"frozen"}) /\ t.frozen = y
  BY <1>1, FieldFacts
<1>3. Good(t)
  BY <1>1, HeapQuiet DEF Quiet
<1> HIDE DEF t
<1>4. Same(t, d, {"occurs", "dirty", "n_occ", "queue", "touched", "elim_heap", "frozen"}) /\ t.touched = d.touched
  BY <1>2 DEF Same, DbFields
<1> QED
  BY <1>2, <1>3, <1>4, ListStep DEF t, Alike_

(* Nor does the heap. *)
LEMMA HeapAlike ==
  ASSUME NEW d, Good(d), NEW x, x \in SUBSET Vars
  PROVE  Alike_(d, [d EXCEPT !.elim_heap = x]) /\ [d EXCEPT !.elim_heap = x].frozen = d.frozen
<1> DEFINE t == [d EXCEPT !.elim_heap = x]
<1>1. Rec(d) /\ d.frozen \in SUBSET Vars
  BY DEF Good, DbType, Values
<1>2. Same(t, d, {"elim_heap"})
  BY <1>1, FieldFacts
<1>3. Good(t)
  BY <1>1, HeapQuiet DEF Quiet
<1> HIDE DEF t
<1>4. /\ Same(t, d, {"occurs", "dirty", "n_occ", "queue", "touched", "elim_heap", "frozen"})
      /\ t.frozen = d.frozen /\ t.touched = d.touched
  BY <1>2 DEF Same, DbFields
<1> QED
  BY <1>2, <1>3, <1>4, ListStep DEF t, Alike_

(* Variables are not frozen any more. *)
LEMMA UnfrozenAlike ==
  ASSUME NEW d, Good(d), NEW vs, vs \in SUBSET Vars
  PROVE  Alike_(d, Unfrozen(d, vs)) /\ Unfrozen(d, vs).frozen = d.frozen \ vs
<1> DEFINE y == d.frozen \ vs
           e == [d EXCEPT !.frozen = y]
           t == updateElimHeap(e, vs)
<1>1. y \in SUBSET Vars
  BY DEF Good, DbType, Values
<1>2. Unfrozen(d, vs) = IF d.simp THEN t ELSE e
  BY DEF Unfrozen
<1> HIDE DEF y
<1>3. Alike_(d, e) /\ e.frozen = y
  BY <1>1, FrozenAlike
<1> HIDE DEF e
<1>4. Good(e)
  BY <1>3 DEF Alike_, Quiet
<1>5. Good(t) /\ Same(t, e, {"elim_heap"})
  BY <1>4, HeapFacts
<1> HIDE DEF t
<1>6. /\ Same(t, e, {"occurs", "dirty", "n_occ", "queue", "touched", "elim_heap", "frozen"})
      /\ t.frozen = e.frozen /\ t.touched = e.touched
  BY <1>5 DEF Same, DbFields
<1>7. Alike_(e, t)
  BY <1>4, <1>5, <1>6, ListStep DEF Alike_
<1>8. Alike_(d, t)
  BY <1>3, <1>7, QuietOn DEF Alike_
<1>9. t.frozen = y /\ e.frozen = y
  BY <1>3, <1>6
<1> QED
  BY <1>2, <1>3, <1>8, <1>9 DEF y

(* Nor does a step that changes nothing. *)
LEMMA SameAlike ==
  ASSUME NEW d, Good(d)
  PROVE  Alike_(d, d)
BY QuietSame DEF Alike_

(* A clause was added, of variables that are not eliminated. *)
LEMMA MovesClean ==
  ASSUME NEW d, NEW t, NEW U, Moves(d, t, U), d.ok => Clean(d), U \cap d.eliminated = {}
  PROVE  Good(t) /\ (t.ok => Clean(t))
<1>1. Good(t) /\ t.eliminated = d.eliminated /\ (t.ok => d.ok) /\ LiveVars(t) \subseteq LiveVars(d) \cup U
  BY DEF Moves, Held, Narrow
<1> QED
  BY <1>1, CleanFacts

(* substitute leaves no clause about an eliminated variable. *)
LEMMA SubstitutedClean ==
  ASSUME NEW d, NEW t, NEW v, NEW x, Substituted(d, t, v, x), Clean(d), Var(x) \notin d.eliminated
  PROVE  Good(t) /\ (t.ok => Clean(t))
BY CleanFacts DEF Substituted

(* Nor does eliminateVar. *)
LEMMA ResolvedClean ==
  ASSUME NEW d, NEW t, NEW v, Resolved(d, t, v), Clean(d)
  PROVE  Good(t) /\ Clean(t)
BY CleanFacts DEF Resolved

(* Nor does simplify. *)
LEMMA LessenedClean ==
  ASSUME NEW d, NEW t, NEW rel, Lessened(d, t, rel), d.ok => Clean(d)
  PROVE  Good(t) /\ (t.ok => Clean(t))
BY CleanFacts DEF Lessened

(* What Return does. *)
LEMMA ReturnFacts ==
  ASSUME NEW d, Good(d), d.ok => Clean(d), NEW ans, NEW mod, Return(d, ans, mod), extra_frozen \in SUBSET Vars
  PROVE  DbRight' /\ Alike_(d, db')
<1>1. db' = Unfrozen(d, extra_frozen)
  BY DEF Return
<1>2. Alike_(d, db')
  BY <1>1, UnfrozenAlike
<1>3. Good(db') /\ (db'.ok => Clean(db'))
  BY <1>2, QuietClean DEF Alike_
<1> QED
  BY <1>2, <1>3 DEF DbRight, Good, DbType, Rec, Memory, Values, Lists_, Proper, Listed, Clean, Live, Holding, Counted, Lists

-----------------------------------------------------------------------------
(* The end of a search. *)
FreeLits == {free_vars[k] : k \in DOMAIN free_vars}

(* The facts are literals. *)
LEMMA FactsType ==
  ASSUME Right
  PROVE  /\ Facts = db.fixed \cup released_vars \cup FreeLits /\ Facts \in SUBSET Lits
         /\ FreeLits \in SUBSET Lits /\ db.fixed \in SUBSET Lits /\ Assumed \in SUBSET Lits
<1>1. db.fixed \in SUBSET Lits /\ released_vars \in SUBSET Lits /\ free_vars \in Seq(Lits) /\ assumptions \in Seq(Lits)
  BY DEF Right, DbRight, Good, DbType, Values, UserTypes, CallTypes
<1>2. FreeLits \in SUBSET Lits /\ Assumed \in SUBSET Lits
  BY <1>1 DEF FreeLits, Assumed
<1> QED
  BY <1>1, <1>2 DEF Facts, FreeLits

(* A solution has the facts and a literal of each variable that is free,
   and all that follows. *)
LEMMA SolutionFacts ==
  ASSUME Right, NEW as, as \in SUBSET Lits, NEW m \in Solutions(as)
  PROVE  /\ m \in SUBSET Lits /\ ~Contradicts(m) /\ Facts \subseteq m /\ as \subseteq m
         /\ Forced(Clauses(db), m) \subseteq m
         /\ \A v \in Decidable : mkLit(v, 0) \in m \/ mkLit(v, 1) \in m
<1> DEFINE cs == Clauses(db)
<1>1. PICK f \in [Decidable -> {0, 1}] :
        m = Closure(cs, Facts \cup as \cup {mkLit(v, f[v]) : v \in Decidable})
  BY DEF Solutions, FullAssignments
<1> DEFINE D == {mkLit(v, f[v]) : v \in Decidable}
           S == Facts \cup as \cup D
<1>2. Decidable \in SUBSET Vars
  BY DEF Decidable
<1>3. D \in SUBSET Lits
  <2>1. ASSUME NEW v \in Decidable PROVE mkLit(v, f[v]) \in Lits
    BY <1>2, MkLitFacts
  <2> QED
    BY <2>1
<1>4. S \in SUBSET Lits /\ cs \in SUBSET SUBSET Lits
  BY <1>3, FactsType, ClausesType DEF Right, DbRight, Good
<1> HIDE DEF cs
<1>5. S \subseteq m /\ m \subseteq S \cup UNION cs /\ Forced(cs, m) \subseteq m
  <2> HIDE DEF S
  <2>1. m = Closure(cs, S)
    BY <1>1 DEF S
  <2> QED
    BY <1>4, <2>1, ClosureFacts, ClosureClosed
<1>6. ASSUME NEW v \in Decidable PROVE mkLit(v, 0) \in m \/ mkLit(v, 1) \in m
  <2>1. mkLit(v, f[v]) \in m /\ f[v] \in {0, 1}
    BY <1>5
  <2> QED
    BY <2>1
<1>7. ~Contradicts(m)
  BY DEF Solutions
<1>8. m \in SUBSET Lits
  BY <1>4, <1>5
<1> QED
  BY <1>4, <1>5, <1>6, <1>7, <1>8 DEF cs

(* Other learnt clauses. *)
LEMMA LearntsGood ==
  ASSUME NEW d, Good(d), NEW L, L \in SUBSET SUBSET Lits
  PROVE  LET t == [d EXCEPT !.learnts = L] IN
         Good(t) /\ Same(t, d, {"learnts"}) /\ t.learnts = L /\ Live(t) = Live(d)
<1> DEFINE t == [d EXCEPT !.learnts = L]
<1>1. Rec(d)
  BY DEF Good, DbType
<1>2. Same(t, d, {"learnts"}) /\ t.learnts = L
  BY <1>1, FieldFacts, ZenonT(60)
<1> HIDE DEF t
<1>3. /\ t.ok = d.ok /\ t.ca = d.ca /\ t.fixed = d.fixed /\ t.unchecked = d.unchecked
      /\ t.occurs = d.occurs /\ t.dirty = d.dirty /\ t.n_occ = d.n_occ /\ t.touched = d.touched
      /\ t.queue = d.queue /\ t.elim_heap = d.elim_heap /\ t.frozen = d.frozen
      /\ t.eliminated = d.eliminated /\ t.elimclauses = d.elimclauses /\ t.simp = d.simp /\ Rec(t)
  BY <1>2 DEF Same, DbFields
<1>4. Live(t) = Live(d) /\ \A v : Lists(t, v) = Lists(d, v)
  BY <1>3 DEF Live, Lists
<1>5. \A v : Holding(t, v) = Holding(d, v) /\ Counted(t, v) = Counted(d, v)
  BY <1>3, <1>4 DEF Holding, Counted
<1>6. Memory(t) /\ Values(t) /\ Lists_(t)
  BY <1>2, <1>3 DEF Good, DbType, Memory, Values, Lists_
<1>7. Proper(t) /\ (t.simp => Listed(t))
  BY <1>3, <1>4, <1>5 DEF Good, Proper, Listed
<1> QED
  BY <1>2, <1>3, <1>4, <1>6, <1>7 DEF Good, DbType, t

(* What Learn takes up: a fact, or a clause of two literals. *)
LEMMA LearnFacts ==
  ASSUME Right, Learn
  PROVE  \E p, q \in Lits :
           /\ Var(p) \in Decidable /\ Var(q) \in Decidable /\ p # Neg(q)
           /\ \A m \in Solutions({}) : m \cap {p, q} # {}
           /\ Solutions({}) # {}
           /\ \/ q = p /\ db' = propagate(db, {p}) /\ db'.ok
              \/ q # p /\ db' = [db EXCEPT !.learnts = {{p, q}}]
<1>0. Good(db) /\ db.ok
  BY DEF Right, DbRight, Learn, Searching, Control
<1>1. PICK p \in Lits, q \in Lits :
           /\ Var(p) \in Decidable /\ Var(q) \in Decidable /\ p # Neg(q)
           /\ \A m \in Solutions({}) : m \cap {p, q} # {}
           /\ Solutions({}) # {}
           /\ db' = Learned({p, q})
  BY DEF Learn
<1>2. CASE q # p
  <2>1. {p, q} \in SUBSET Lits /\ ~(\E o \in {p, q} : {p, q} = {o})
    BY <1>2
  <2>2. Cardinality({p, q}) # 1
    BY <2>1, ManyFacts
  <2>3. db' = [db EXCEPT !.learnts = {{p, q}}]
    BY <1>1, <2>2 DEF Learned
  <2> QED
    BY <1>1, <1>2, <2>3
<1>3. CASE q = p
  <2>1. {p} \in SUBSET Lits /\ {p, q} = {p}
    BY <1>3
  <2>2. Cardinality({p}) = 1
    BY <2>1, ManyFacts
  <2>3. db' = propagate(db, {p})
    BY <1>1, <2>1, <2>2 DEF Learned
  <2>4. PICK m \in Solutions({}) : TRUE
    BY <1>1
  <2>5. p \in m
    BY <1>1, <2>1, <2>4
  <2>6. {} \in SUBSET Lits
    OBVIOUS
  <2>7. m \in SUBSET Lits /\ ~Contradicts(m) /\ db.fixed \subseteq m /\ Forced(Clauses(db), m) \subseteq m
    BY <2>4, <2>6, SolutionFacts, FactsType
  <2>8. Clauses(db) \in SUBSET SUBSET Lits /\ db.fixed \cup {p} \in SUBSET Lits /\ db.fixed \cup {p} \subseteq m
    BY <1>0, <2>5, <2>7, ClausesType, FactsType DEF Good
  <2>9. Closure(Clauses(db), db.fixed \cup {p}) \subseteq m
    BY <2>7, <2>8, ClosureLeast
  <2>10. ~Contradicts(Closure(Clauses(db), db.fixed \cup {p}))
    BY <2>7, <2>9 DEF Contradicts
  <2>11. propagate(db, {p}).ok = db.ok
    BY <1>0, <2>1, <2>10, PropagateFacts
  <2> QED
    BY <1>0, <1>1, <1>3, <2>3, <2>11
<1> QED
  BY <1>2, <1>3

(* A search adds a learnt clause or a fact, and keeps the invariant. *)
LEMMA LearnRight ==
  ASSUME Right, Learn
  PROVE  Good(db') /\ db'.ok /\ Clean(db') /\ db'.eliminated = db.eliminated /\ db'.simp = db.simp
<1> DEFINE d == db
           t == db'
<1>0. Good(d) /\ d.ok /\ Clean(d)
  BY DEF Right, DbRight, Learn, Searching, Control
<1>1. PICK p \in Lits, q \in Lits :
           \/ q = p /\ t = propagate(d, {p}) /\ t.ok
           \/ q # p /\ t = [d EXCEPT !.learnts = {{p, q}}]
  BY LearnFacts
<1> HIDE DEF d, t
<1>2. CASE t = propagate(d, {p}) /\ t.ok
  <2>1. {p} \in SUBSET Lits
    OBVIOUS
  <2>2. Good(t) /\ Same(t, d, {"ok", "fixed", "unchecked"}) /\ Live(t) = Live(d)
    BY <1>0, <1>2, <2>1, PropagateFacts
  <2>3. t.ca = d.ca /\ t.eliminated = d.eliminated /\ t.simp = d.simp
    BY <2>2 DEF Same, DbFields
  <2> QED
    BY <1>0, <1>2, <2>2, <2>3 DEF Clean, d, t
<1>3. CASE t = [d EXCEPT !.learnts = {{p, q}}]
  <2> DEFINE L == {{p, q}}
  <2>1. L \in SUBSET SUBSET Lits /\ t = [d EXCEPT !.learnts = L]
    BY <1>3
  <2> HIDE DEF L
  <2>2. Good(t) /\ Same(t, d, {"learnts"}) /\ Live(t) = Live(d)
    BY <1>0, <2>1, LearntsGood
  <2>3. t.ca = d.ca /\ t.eliminated = d.eliminated /\ t.simp = d.simp /\ t.ok = d.ok
    BY <2>2 DEF Same, DbFields
  <2> QED
    BY <1>0, <2>2, <2>3 DEF Clean, d, t
<1> QED
  BY <1>1, <1>2, <1>3

-----------------------------------------------------------------------------
(* Models are extended to eliminated variables. *)
ExtendOp(ctx, mod, k) ==
  IF \A q \in ctx[k].others : Neg(q) \in mod THEN (mod \ {Neg(ctx[k].lit)}) \cup {ctx[k].lit} ELSE mod
Extends_ == INSTANCE FoldTheorems WITH op <- ExtendOp, pick <- OneOf

(* A sequence backwards (extendModel reads elimclauses from its end). *)
LEMMA BackFacts ==
  ASSUME NEW S, NEW s \in Seq(S)
  PROVE  /\ Reverse(s) \in Seq(S) /\ Len(Reverse(s)) = Len(s) /\ Len(s) \in Nat
         /\ \A k \in 1 .. Len(s) : Reverse(s)[k] = s[Len(s) - k + 1] /\ Reverse(s)[k] \in S
<1> DEFINE n == Len(s)
           r == [j \in 1 .. n |-> s[n - j + 1]]
<1>1. Reverse(s) = r
  BY DEF Reverse
<1>2. n \in Nat /\ \A k \in 1 .. n : s[k] \in S
  OBVIOUS
<1> HIDE DEF n
<1>3. ASSUME NEW k \in 1 .. n PROVE n - k + 1 \in 1 .. n
  BY <1>2
<1>4. r \in Seq(S) /\ Len(r) = n /\ \A k \in 1 .. n : r[k] = s[n - k + 1] /\ r[k] \in S
  <2>1. r \in [1 .. n -> S]
    BY <1>2, <1>3
  <2>2. r \in Seq(S) /\ Len(r) = n
    BY <1>2, <2>1
  <2> QED
    BY <1>2, <1>3, <2>2
<1> QED
  BY <1>1, <1>2, <1>4 DEF n

(* The models that extendModel goes through, from the last record to the
   first. *)
LEMMA ExtendTrace ==
  ASSUME NEW d, d.elimclauses \in Seq(Records), NEW m
  PROVE  LET s == Reverse(d.elimclauses) n == Len(d.elimclauses) IN
         n \in Nat /\ \E g : Extends_!Trace(s, m, n, g) /\ g[n] = extendModel(d, m)
<1> DEFINE s == Reverse(d.elimclauses)
           n == Len(s)
<1>1. n = Len(d.elimclauses) /\ n \in Nat
  BY BackFacts
<1>2. extendModel(d, m) = (CHOOSE f : Extends_!Chooses(s, m, n, f))[n]
  BY DEF extendModel, Each, Extends_!Chooses, ExtendOp
<1> HIDE DEF s, n
<1>3. PICK g : Extends_!Trace(s, m, n, g) /\ g[n] = (CHOOSE f : Extends_!Chooses(s, m, n, f))[n]
  BY <1>1, Least, Extends_!EachTrace
<1> QED
  BY <1>1, <1>2, <1>3 DEF s

(* extendModel makes literals of literals. *)
LEMMA ExtendedType ==
  ASSUME NEW d, d.elimclauses \in Seq(Records), NEW m, m \in SUBSET Lits
  PROVE  extendModel(d, m) \in SUBSET Lits
<1> DEFINE s == Reverse(d.elimclauses)
           n == Len(d.elimclauses)
<1>1. n \in Nat /\ \A k \in 1 .. n : s[k] \in Records
  BY BackFacts
<1>2. PICK g : Extends_!Trace(s, m, n, g) /\ g[n] = extendModel(d, m)
  BY ExtendTrace
<1> HIDE DEF s, n
<1>3. g[0] = m /\ \A k \in 1 .. n : g[k] = ExtendOp(s, g[k - 1], k)
  BY <1>2 DEF Extends_!Trace
<1> DEFINE G == {k \in 0 .. n : g[k] \in SUBSET Lits}
<1>4. 0 \in G
  BY <1>1, <1>3
<1>5. ASSUME NEW k \in 1 .. n, k - 1 \in G PROVE k \in G
  <2>1. k \in 0 .. n /\ g[k - 1] \in SUBSET Lits /\ s[k].lit \in Lits
    BY <1>1, <1>5 DEF Records
  <2>2. g[k] = ExtendOp(s, g[k - 1], k)
    BY <1>3
  <2>3. g[k] \in SUBSET Lits
    BY <2>1, <2>2 DEF ExtendOp
  <2> QED
    BY <2>1, <2>3
<1> HIDE DEF G
<1>6. n \in G
  BY <1>1, <1>4, <1>5, Least, Extends_!Climb
<1> QED
  BY <1>2, <1>6 DEF G

(* The last element of a list, and the others. *)
LEMMA LastFacts ==
  ASSUME NEW S, NEW s \in Seq(S), s # <<>>
  PROVE  /\ Front(s) \in Seq(S) /\ Last(s) \in S /\ Last(s) = s[Len(s)] /\ Len(s) \in Nat \ {0}
         /\ Len(Front(s)) = Len(s) - 1 /\ \A k \in 1 .. Len(s) - 1 : Front(s)[k] = s[k]
<1> DEFINE n == Len(s)
<1>1. n \in Nat \ {0} /\ \A k \in 1 .. n : s[k] \in S
  OBVIOUS
<1>2. Front(s) = SubSeq(s, 1, n - 1) /\ Last(s) = s[n]
  BY DEF Front, Last
<1> DEFINE f == SubSeq(s, 1, n - 1)
<1>3. f = [k \in 1 .. n - 1 |-> s[k]]
  <2> HIDE DEF n
  <2>1. f = [k \in 1 .. n - 1 - 1 + 1 |-> s[1 + k - 1]]
    BY <1>1
  <2> QED
    BY <1>1, <2>1
<1> HIDE DEF n, f
<1>4. f \in [1 .. n - 1 -> S] /\ n - 1 \in Nat
  BY <1>1, <1>3
<1>5. f \in Seq(S) /\ Len(f) = n - 1 /\ \A k \in 1 .. n - 1 : f[k] = s[k]
  BY <1>3, <1>4
<1> QED
  BY <1>1, <1>2, <1>5 DEF n, f

(* Two lists one after the other. *)
LEMMA JoinFacts ==
  ASSUME NEW S, NEW s \in Seq(S), NEW t \in Seq(S)
  PROVE  s \o t \in Seq(S)
OBVIOUS

-----------------------------------------------------------------------------
(* The invariant after a step, part by part. *)
LEMMA RightNext ==
  ASSUME UserTypes', LoopTypes', CallTypes', ResultTypes', Control', Good(db'), db'.ok => Clean(db')
  PROVE  Right'
BY DEF Right, DbRight

(* After a call that comes back at once. *)
LEMMA CalledRight ==
  ASSUME Right, pc = "idle", UNCHANGED <<options, interrupt, pc, loopVars, callVars, resultVars>>,
         UserTypes', Good(db'), db'.ok => Clean(db')
  PROVE  Right'
<1>1. LoopTypes'
  BY DEF Right, LoopTypes, loopVars
<1>2. CallTypes' /\ ResultTypes'
  BY DEF Right, CallTypes, ResultTypes, callVars, resultVars
<1>3. Control'
  BY DEF Right, Control, Picked, Loops, loopVars, callVars
<1> QED
  BY <1>1, <1>2, <1>3, RightNext

(* After a call that changes who is frozen only. *)
LEMMA AlikeRight ==
  ASSUME Right, NEW d, Alike_(db, d)
  PROVE  Good(d) /\ (d.ok => Clean(d)) /\ d.simp = db.simp /\ d.ok = db.ok
BY QuietClean DEF Alike_, Right, DbRight, Quiet

(* newVar keeps the invariant and all clauses. *)
LEMMA newVarRight ==
  ASSUME Right, newVar
  PROVE  Right' /\ Alike_(db, db') /\ db'.frozen = db.frozen
<1>1. /\ pc = "idle" /\ script # <<>> /\ script' = Tail(script)
      /\ UNCHANGED <<options, interrupt, pc, loopVars, callVars, resultVars>>
      /\ UNCHANGED <<given, released_vars, free_vars, max_simp_var, frozen_vars>>
      /\ next_var < NVars /\ next_var' = next_var + 1
      /\ db' = IF db.simp THEN [db EXCEPT !.elim_heap = @ \cup {next_var}] ELSE db
  BY DEF newVar, Called
<1>2. UserTypes'
  <2>1. Tail(script) \in Seq(Calls)
    BY <1>1, CallFacts DEF Right, UserTypes
  <2>2. next_var' \in 0 .. NVars
    BY <1>1, NVarsAssumption DEF Right, UserTypes
  <2> QED
    BY <1>1, <2>1, <2>2 DEF Right, UserTypes
<1>3. Good(db) /\ next_var \in Vars /\ db.elim_heap \in SUBSET Vars
  BY <1>1, NVarsAssumption DEF Right, DbRight, UserTypes, Vars, Good, DbType, Values
<1> DEFINE x == db.elim_heap \cup {next_var}
           t == [db EXCEPT !.elim_heap = x]
<1>4. Alike_(db, db') /\ db'.frozen = db.frozen
  <2>1. x \in SUBSET Vars /\ db' = IF db.simp THEN t ELSE db
    BY <1>1, <1>3
  <2> HIDE DEF x
  <2>2. Alike_(db, t) /\ t.frozen = db.frozen
    BY <1>3, <2>1, HeapAlike
  <2> QED
    BY <1>3, <2>1, <2>2, SameAlike
<1> QED
  BY <1>1, <1>2, <1>4, AlikeRight, CalledRight

(* newVar with a variable that was given back keeps the invariant. *)
LEMMA ReuseRight ==
  ASSUME Right, ReuseVar
  PROVE  Right' /\ Alike_(db, db') /\ Last(free_vars) \in Lits /\ db'.frozen = db.frozen \ {Var(Last(free_vars))}
<1>1. /\ pc = "idle" /\ script # <<>> /\ script' = Tail(script)
      /\ UNCHANGED <<options, interrupt, pc, loopVars, callVars, resultVars>>
      /\ UNCHANGED <<next_var, released_vars, max_simp_var, frozen_vars>>
      /\ free_vars # <<>> /\ free_vars' = Front(free_vars) /\ given' = Without(given, Last(free_vars))
      /\ db' = [db EXCEPT !.frozen = @ \ {Var(Last(free_vars))}]
  BY DEF ReuseVar, Called
<1>2. UserTypes' /\ Last(free_vars) \in Lits
  <2>1. Tail(script) \in Seq(Calls)
    BY <1>1, CallFacts DEF Right, UserTypes
  <2>2. Front(free_vars) \in Seq(Lits) /\ Last(free_vars) \in Lits
    BY <1>1, LastFacts DEF Right, UserTypes
  <2>3. given' \in SUBSET SUBSET Lits
    <3>1. given \in SUBSET SUBSET Lits
      BY DEF Right, UserTypes
    <3> QED
      BY <1>1, <3>1 DEF Without
  <2> QED
    BY <1>1, <2>1, <2>2, <2>3 DEF Right, UserTypes
<1> DEFINE y == db.frozen \ {Var(Last(free_vars))}
<1>3. Good(db) /\ y \in SUBSET Vars /\ db' = [db EXCEPT !.frozen = y]
  BY <1>1 DEF Right, DbRight, Good, DbType, Values
<1>y. y = db.frozen \ {Var(Last(free_vars))}
  OBVIOUS
<1> HIDE DEF y
<1>4. Alike_(db, db') /\ db'.frozen = y
  BY <1>3, FrozenAlike
<1> QED
  BY <1>1, <1>2, <1>4, <1>y, AlikeRight, CalledRight

(* addClause keeps the invariant and adds what it was given. *)
LEMMA addClauseRight ==
  ASSUME Right, addClause
  PROVE  /\ Right' /\ Moves(db, db', VarsOf(Call.lits)) /\ Call.lits \in SUBSET Lits
         /\ VarsOf(Call.lits) \cap db.eliminated = {}
         /\ ~options.use_rcheck => Kept_(db, db', {Call.lits})
<1>1. /\ pc = "idle" /\ script # <<>> /\ script' = Tail(script) /\ Call.call = "addClause"
      /\ UNCHANGED <<options, interrupt, pc, loopVars, callVars, resultVars>>
      /\ UNCHANGED <<next_var, released_vars, free_vars, max_simp_var, frozen_vars>>
      /\ given' = given \cup {Call.lits} /\ db' = addClause_(db, Call.lits)
      /\ \A v \in VarsOf(Call.lits) : v \notin db.eliminated
  BY DEF addClause, Called
<1>2. Tail(script) \in Seq(Calls) /\ Call.lits \in SUBSET Lits
  BY <1>1, CallFacts DEF Right, UserTypes
<1>3. UserTypes'
  BY <1>1, <1>2 DEF Right, UserTypes
<1>4. Good(db) /\ (db.ok => Clean(db)) /\ VarsOf(Call.lits) \cap db.eliminated = {}
  BY <1>1 DEF Right, DbRight
<1> DEFINE c == Call.lits
<1> HIDE DEF c
<1>c. c \in SUBSET Lits /\ VarsOf(c) \cap db.eliminated = {} /\ db' = addClause_(db, c)
  BY <1>1, <1>2, <1>4 DEF c
<1>5. Moves(db, db', VarsOf(c)) /\ (~options.use_rcheck => Kept_(db, db', {c}))
  BY <1>4, <1>c, AddStep
<1>6. Good(db') /\ (db'.ok => Clean(db'))
  BY <1>4, <1>5, <1>c, MovesClean
<1> QED
  BY <1>1, <1>2, <1>3, <1>4, <1>5, <1>6, CalledRight DEF c

(* releaseVar keeps the invariant and adds one fact, or nothing. *)
LEMMA releaseVarRight ==
  ASSUME Right, releaseVar
  PROVE  /\ Right' /\ Call.lit \in Lits /\ Var(Call.lit) \notin db.eliminated
         /\ UNCHANGED <<given, db, released_vars>>
            \/ /\ given' = given \cup {{Call.lit}} /\ db' = Stored(db, {Call.lit})
               /\ Moves(db, db', VarsOf({Call.lit})) /\ Kept_(db, db', {{Call.lit}})
<1>1. /\ pc = "idle" /\ script # <<>> /\ script' = Tail(script) /\ Call.call = "releaseVar"
      /\ UNCHANGED <<options, interrupt, pc, loopVars, callVars, resultVars>>
      /\ UNCHANGED <<next_var, free_vars, max_simp_var, frozen_vars>>
      /\ Var(Call.lit) \notin db.eliminated
      /\ \/ UNCHANGED <<given, db, released_vars>>
         \/ /\ given' = given \cup {{Call.lit}} /\ db' = Stored(db, {Call.lit})
            /\ released_vars' = released_vars \cup {Call.lit} \/ released_vars' = released_vars
  BY DEF releaseVar, Called
<1>2. Tail(script) \in Seq(Calls) /\ Call.lit \in Lits
  BY <1>1, CallFacts DEF Right, UserTypes
<1> DEFINE p == Call.lit
           c == {p}
<1>3. UserTypes'
  <2>1. given' \in SUBSET SUBSET Lits /\ released_vars' \in SUBSET Lits
    BY <1>1, <1>2 DEF Right, UserTypes
  <2> QED
    BY <1>1, <1>2, <2>1 DEF Right, UserTypes
<1>4. Good(db) /\ (db.ok => Clean(db))
  BY DEF Right, DbRight
<1>5. CASE UNCHANGED <<given, db, released_vars>>
  <2>1. Good(db') /\ (db'.ok => Clean(db'))
    BY <1>4, <1>5
  <2> QED
    BY <1>1, <1>2, <1>3, <1>5, <2>1, CalledRight
<1>6. CASE given' = given \cup {{Call.lit}} /\ db' = Stored(db, {Call.lit})
  <2>1. c \in SUBSET Lits /\ VarsOf(c) \cap db.eliminated = {} /\ db' = Stored(db, c)
    BY <1>1, <1>2, <1>6 DEF VarsOf
  <2>c. c = {Call.lit}
    OBVIOUS
  <2> HIDE DEF c
  <2>2. Moves(db, db', VarsOf(c)) /\ Kept_(db, db', {c})
    BY <1>4, <2>1, StoredStep
  <2>3. Good(db') /\ (db'.ok => Clean(db'))
    BY <1>4, <2>1, <2>2, MovesClean
  <2>4. Right'
    BY <1>1, <1>3, <2>3, CalledRight
  <2> QED
    BY <1>1, <1>2, <1>6, <2>2, <2>4, <2>c
<1> QED
  BY <1>1, <1>5, <1>6

(* Who is frozen. *)
LEMMA FreezeRight ==
  ASSUME Right, setFrozen \/ freezeVar \/ thaw
  PROVE  Right' /\ Alike_(db, db')
<1>0. Good(db) /\ db.frozen \in SUBSET Vars /\ frozen_vars \in SUBSET Vars
  BY DEF Right, DbRight, Good, DbType, Values, UserTypes
<1>1. /\ pc = "idle" /\ script # <<>> /\ script' = Tail(script)
      /\ UNCHANGED <<options, interrupt, pc, loopVars, callVars, resultVars>>
      /\ UNCHANGED <<given, next_var, released_vars, free_vars, max_simp_var>>
  BY DEF setFrozen, freezeVar, thaw, Called
<1>2. Tail(script) \in Seq(Calls) /\ (setFrozen \/ freezeVar => Call.var \in Vars)
  BY <1>1, CallFacts DEF Right, UserTypes, setFrozen, freezeVar, Called
<1>3. Alike_(db, db')
  <2>1. CASE setFrozen
    <3>1. Call.var \in Vars
      BY <1>2, <2>1
    <3> DEFINE y == db.frozen \cup {Call.var}
               vs == {Call.var}
    <3>2. y \in SUBSET Vars /\ vs \in SUBSET Vars /\ (db' = [db EXCEPT !.frozen = y] \/ db' = Unfrozen(db, vs))
      BY <1>0, <2>1, <3>1 DEF setFrozen
    <3> HIDE DEF y, vs
    <3> QED
      BY <1>0, <3>2, FrozenAlike, UnfrozenAlike
  <2>2. CASE freezeVar
    <3>1. Call.var \in Vars
      BY <1>2, <2>2
    <3> DEFINE y == db.frozen \cup {Call.var}
    <3>2. y \in SUBSET Vars /\ db' = [db EXCEPT !.frozen = y]
      BY <1>0, <2>2, <3>1 DEF freezeVar
    <3> HIDE DEF y
    <3> QED
      BY <1>0, <3>2, FrozenAlike
  <2>3. CASE thaw
    <3>1. db' = Unfrozen(db, frozen_vars)
      BY <2>3 DEF thaw
    <3> QED
      BY <1>0, <3>1, UnfrozenAlike
  <2> QED
    BY <2>1, <2>2, <2>3
<1>4. UserTypes'
  <2>1. frozen_vars' \in SUBSET Vars
    BY <1>0, <1>2 DEF setFrozen, freezeVar, thaw
  <2> QED
    BY <1>1, <1>2, <2>1 DEF Right, UserTypes
<1> QED
  BY <1>1, <1>3, <1>4, AlikeRight, CalledRight

(* substitute keeps the invariant. *)
LEMMA SubstituteRight ==
  ASSUME Right, Substitute
  PROVE  /\ Right' /\ Call.var \in Vars /\ Call.lit \in Lits /\ Var(Call.lit) # Call.var /\ db.simp
         /\ {Call.var, Var(Call.lit)} \cap db.eliminated = {} /\ Call.var \notin AssignedVars(db)
         /\ db.ok => /\ Substituted(db, db', Call.var, Call.lit)
                     /\ ~options.use_rcheck => TiedModels(db, db', Call.var, Call.lit)
         /\ db'.elimclauses = db.elimclauses
<1>1. /\ pc = "idle" /\ script # <<>> /\ script' = Tail(script) /\ Call.call = "substitute" /\ db.simp
      /\ UNCHANGED <<options, interrupt, pc, loopVars, callVars, resultVars>>
      /\ UNCHANGED <<next_var, released_vars, free_vars, max_simp_var, frozen_vars>>
      /\ Var(Call.lit) # Call.var /\ Call.var \notin AssignedVars(db)
      /\ {Call.var, Var(Call.lit)} \cap db.eliminated = {}
      /\ given' = IF db.ok THEN Renamed(given, Call.var, Call.lit) ELSE given
      /\ db' = IF db.ok THEN substitute(db, Call.var, Call.lit) ELSE db
  BY DEF Substitute, Called
<1>2. Tail(script) \in Seq(Calls) /\ Call.var \in Vars /\ Call.lit \in Lits
  BY <1>1, CallFacts DEF Right, UserTypes
<1> DEFINE v == Call.var
           x == Call.lit
<1>3. UserTypes'
  <2>1. given \in SUBSET SUBSET Lits
    BY DEF Right, UserTypes
  <2>2. given' \in SUBSET SUBSET Lits
    <3> DEFINE g == given
    <3>1. g \in SUBSET SUBSET Lits /\ v \in Vars /\ x \in Lits /\ Var(x) # v
          /\ given' = IF db.ok THEN Renamed(g, v, x) ELSE g
      BY <1>1, <1>2, <2>1
    <3> HIDE DEF g, v, x
    <3>2. Renamed(g, v, x) \in SUBSET SUBSET Lits
      BY <3>1, RenamedModels
    <3> QED
      BY <3>1, <3>2
  <2> QED
    BY <1>1, <1>2, <2>2 DEF Right, UserTypes
<1>4. Good(db) /\ (db.ok => Clean(db))
  BY DEF Right, DbRight
<1>5. /\ db.ok => Substituted(db, db', v, x) /\ (~options.use_rcheck => TiedModels(db, db', v, x))
      /\ db'.elimclauses = db.elimclauses
  BY <1>1, <1>2, <1>4, SubstituteStep
<1>6. Good(db') /\ (db'.ok => Clean(db'))
  <2>1. Var(x) \notin db.eliminated
    BY <1>1
  <2> HIDE DEF v, x
  <2>2. CASE db.ok
    BY <1>4, <1>5, <2>1, <2>2, SubstitutedClean
  <2>3. CASE ~db.ok
    BY <1>1, <1>4, <2>3
  <2> QED
    BY <2>2, <2>3
<1> QED
  BY <1>1, <1>2, <1>3, <1>5, <1>6, CalledRight

(* Only whether the solver is interrupted. *)
LEMMA InterruptRight ==
  ASSUME Right, clearInterrupt \/ Interrupt
  PROVE  /\ Right' /\ db' = db /\ options' = options
         /\ UNCHANGED <<given, next_var, released_vars, free_vars, max_simp_var, frozen_vars, pc, loopVars, callVars, resultVars>>
<1>1. /\ UNCHANGED <<options, given, next_var, released_vars, free_vars, max_simp_var, frozen_vars, db, pc, loopVars, callVars, resultVars>>
      /\ \/ script' = Tail(script) /\ script # <<>> /\ interrupt' = FALSE
         \/ script' = script /\ interrupt' = TRUE /\ options.interruptible
  BY DEF clearInterrupt, Called, Interrupt, userVars
<1>2. UserTypes'
  <2>1. script' \in Seq(Calls)
    BY <1>1, CallFacts DEF Right, UserTypes
  <2> QED
    BY <1>1, <2>1 DEF Right, UserTypes
<1>3. LoopTypes' /\ CallTypes' /\ ResultTypes'
  BY <1>1 DEF Right, LoopTypes, CallTypes, ResultTypes, loopVars, callVars, resultVars
<1>4. Control'
  BY <1>1 DEF Right, Control, Picked, loopVars, callVars
<1>5. Good(db') /\ (db'.ok => Clean(db'))
  BY <1>1 DEF Right, DbRight
<1> QED
  BY <1>1, <1>2, <1>3, <1>4, <1>5, RightNext

(* Simplification below. *)
LEMMA SimplifyFacts ==
  ASSUME Right, Simplify
  PROVE  /\ Good(db') /\ (db'.ok => Clean(db')) /\ released_vars' \in SUBSET Lits /\ free_vars' \in Seq(Lits)
         /\ db'.ok = db.ok /\ db'.simp = db.simp /\ db'.eliminated = db.eliminated
         /\ \/ UNCHANGED <<db, released_vars, free_vars>>
            \/ /\ Lessened(db, db', released_vars) /\ db.ok /\ ~db.simp
               /\ released_vars' = {} /\ free_vars' = free_vars \o InOrder(released_vars)
<1>0. Good(db) /\ (db.ok => Clean(db)) /\ released_vars \in SUBSET Lits /\ free_vars \in Seq(Lits)
  BY DEF Right, DbRight, UserTypes
<1>1. CASE UNCHANGED <<db, released_vars, free_vars>>
  BY <1>0, <1>1
<1>2. CASE /\ db.ok /\ ~db.simp /\ db' = garbageCollect(Reduced(db))
           /\ free_vars' = free_vars \o InOrder(released_vars) /\ released_vars' = {}
  <2>1. Lessened(db, db', released_vars)
    BY <1>0, <1>2, ReducedStep
  <2>2. Good(db') /\ (db'.ok => Clean(db'))
    BY <1>0, <2>1, LessenedClean
  <2>3. IsFiniteSet(released_vars) /\ released_vars \in SUBSET Nat
    BY <1>0, VarsFinite
  <2>4. InOrder(released_vars) \in Seq(released_vars)
    BY <2>3, InOrderFacts
  <2>5. InOrder(released_vars) \in Seq(Lits)
    BY <1>0, <2>4, SeqWider
  <2>6. free_vars' \in Seq(Lits)
    BY <1>0, <1>2, <2>5, JoinFacts
  <2>7. db'.ok = db.ok /\ db'.simp = db.simp /\ db'.eliminated = db.eliminated
    BY <2>1 DEF Lessened
  <2> QED
    BY <1>2, <2>1, <2>2, <2>6, <2>7
<1> QED
  BY <1>1, <1>2 DEF Simplify

(* A call of eliminate keeps the invariant. *)
LEMMA EliminateRight ==
  ASSUME Right, Eliminate
  PROVE  /\ Right' /\ pc = "idle"
         /\ IF db.simp THEN UNCHANGED <<db, released_vars, free_vars>> ELSE Simplify
<1>1. /\ pc = "idle" /\ script # <<>> /\ script' = Tail(script) /\ Call.call = "eliminate"
      /\ IF db.simp THEN UNCHANGED <<db, released_vars, free_vars>> ELSE Simplify
      /\ turn_off' = Call.turn_off /\ solving' = FALSE
      /\ pc' = IF db.ok /\ db.simp THEN "main" ELSE "idle"
      /\ UNCHANGED <<options, given, next_var, max_simp_var, frozen_vars, interrupt, loopVars,
                     assumptions, extra_frozen, resultVars>>
  BY DEF Eliminate, Called
<1>2. Tail(script) \in Seq(Calls) /\ Call.turn_off \in BOOLEAN
  BY <1>1, CallFacts DEF Right, UserTypes
<1>3. /\ Good(db') /\ (db'.ok => Clean(db')) /\ released_vars' \in SUBSET Lits /\ free_vars' \in Seq(Lits)
      /\ db'.ok = db.ok /\ db'.simp = db.simp
  BY <1>1, SimplifyFacts DEF Right, DbRight, UserTypes
<1>4. UserTypes'
  BY <1>1, <1>2, <1>3 DEF Right, UserTypes
<1>5. LoopTypes' /\ CallTypes' /\ ResultTypes'
  BY <1>1, <1>2 DEF Right, LoopTypes, CallTypes, ResultTypes, loopVars, resultVars, Places, Loops
<1>6. Control'
  BY <1>1, <1>3 DEF Right, Control, Picked, loopVars, Loops
<1> QED
  BY <1>1, <1>3, <1>4, <1>5, <1>6, RightNext

(* A call of solve keeps the invariant and freezes what is assumed. *)
LEMMA SolveRight ==
  ASSUME Right, Solve
  PROVE  /\ Right' /\ Alike_(db, db') /\ db'.frozen = db.frozen \cup extra_frozen'
         /\ Call.assumps \in Seq(Lits)
<1>1. /\ pc = "idle" /\ script # <<>> /\ script' = Tail(script) /\ Call.call = "solve"
      /\ LET simp == Call.do_simp /\ db.simp IN
           /\ extra_frozen' = IF simp THEN ToFreeze(Call.assumps) ELSE {}
           /\ pc' = IF ~simp THEN "simplify" ELSE IF db.ok THEN "main" ELSE "dead"
      /\ db' = [db EXCEPT !.frozen = @ \cup extra_frozen']
      /\ turn_off' = Call.turn_off /\ solving' = TRUE /\ assumptions' = Call.assumps /\ answer' = "none"
      /\ UNCHANGED <<options, given, next_var, released_vars, free_vars, max_simp_var,
                     frozen_vars, interrupt, loopVars, model>>
  BY DEF Solve, Called
<1>2. Tail(script) \in Seq(Calls) /\ Call.turn_off \in BOOLEAN /\ Call.assumps \in Seq(Lits)
  BY <1>1, CallFacts DEF Right, UserTypes
<1>3. extra_frozen' \in SUBSET Vars
  <2>1. ToFreeze(Call.assumps) \in SUBSET Vars
    BY <1>2, LitFacts DEF ToFreeze
  <2> QED
    BY <1>1, <2>1
<1> DEFINE y == db.frozen \cup extra_frozen'
<1>4. Good(db) /\ y \in SUBSET Vars /\ db' = [db EXCEPT !.frozen = y]
  BY <1>1, <1>3 DEF Right, DbRight, Good, DbType, Values
<1>y. y = db.frozen \cup extra_frozen'
  OBVIOUS
<1> HIDE DEF y
<1>5. Alike_(db, db') /\ db'.frozen = y
  BY <1>4, FrozenAlike
<1>6. Good(db') /\ (db'.ok => Clean(db')) /\ db'.simp = db.simp /\ db'.ok = db.ok
  BY <1>5, AlikeRight
<1>7. UserTypes'
  BY <1>1, <1>2 DEF Right, UserTypes
<1>8. LoopTypes' /\ CallTypes' /\ ResultTypes'
  BY <1>1, <1>2, <1>3 DEF Right, LoopTypes, CallTypes, ResultTypes, loopVars, Places, Loops
<1>9. Control'
  BY <1>1, <1>6 DEF Right, Control, Picked, loopVars, Loops
<1> QED
  BY <1>2, <1>5, <1>6, <1>7, <1>8, <1>9, <1>y, RightNext

-----------------------------------------------------------------------------
(* The loops. *)
LEMMA LoopRight ==
  ASSUME Right, pc \in Loops, NEW next \in Loops \cup {"cleanup"}, Loop(next),
         Good(db'), db'.ok => Clean(db'), db'.simp = TRUE, next \in Loops => db'.ok,
         back' \in {"none", "checked", "elim", "collect"}, elim' \in 0 .. NVars,
         at' \in Nat, was_frozen' \in BOOLEAN,
         next = "backward" => back' # "none", next = "asymm" => at' > 0,
         next \in {"asymm", "elim"} \/ (next = "backward" /\ back' = "elim") => elim' \in Vars \ db'.eliminated
  PROVE  Right'
<1>1. UserTypes'
  BY DEF Right, UserTypes, Loop, userVars
<1>2. CallTypes' /\ ResultTypes'
  BY DEF Right, CallTypes, ResultTypes, Loop, resultVars
<1>3. pc' = next /\ interrupt' = interrupt /\ options' = options /\ solving' = solving
  BY DEF Loop, userVars
<1>4. LoopTypes'
  BY <1>3 DEF Right, LoopTypes, Places
<1>5. Control'
  BY <1>3 DEF Right, Control, Picked, Loops
<1> QED
  BY <1>1, <1>2, <1>4, <1>5, RightNext

(* A quiet step within the loops. *)
LEMMA QuietRight ==
  ASSUME Right, pc \in Loops, NEW next \in Loops \cup {"cleanup"}, Loop(next),
         Quiet(db, db'), next \in Loops => db'.ok, UNCHANGED loopVars,
         next = "backward" => back # "none", next = "asymm" => at > 0,
         next \in {"asymm", "elim"} \/ (next = "backward" /\ back = "elim") => Picked
  PROVE  Right'
<1>1. Good(db') /\ (db'.ok => Clean(db'))
  BY QuietClean DEF Right, DbRight
<1>2. db'.simp = TRUE /\ db'.eliminated = db.eliminated
  BY DEF Quiet, Right, Control, DbRight, Good, DbType, Values
<1>3. back' = back /\ elim' = elim /\ at' = at /\ was_frozen' = was_frozen
  BY DEF loopVars
<1>4. back \in {"none", "checked", "elim", "collect"} /\ elim \in 0 .. NVars /\ at \in Nat /\ was_frozen \in BOOLEAN
  BY DEF Right, LoopTypes
<1>5. Picked => elim \in Vars \ db.eliminated
  BY DEF Right, Control
<1> QED
  BY <1>1, <1>2, <1>3, <1>4, <1>5, LoopRight

(* Where eliminate goes on after a round. *)
LEMMA AfterFacts ==
  ASSUME NEW d
  PROVE  /\ After(d) \in Loops \cup {"cleanup"} /\ (After(d) \in Loops => d.ok) /\ After(d) \notin {"asymm", "elim"}
BY DEF After, Loops

(* Where the backward check returns. *)
LEMMA BackFacts_ ==
  ASSUME Right, pc = "backward"
  PROVE  /\ back \in Loops /\ pc \in Loops /\ back # "backward" /\ back # "asymm" /\ (back = "elim" => Picked)
         /\ Good(db) /\ db.ok
BY DEF Right, Control, LoopTypes, Loops, Picked, DbRight

(* backwardSubsumptionCheck keeps the invariant. *)
LEMMA backwardRight ==
  ASSUME Right, backwardSubsumptionCheck
  PROVE  Right'
<1>1. pc = "backward"
  BY DEF backwardSubsumptionCheck, BackwardInterrupted, CheckClause, CheckFact, BackwardDone
<1>b. back # "none"
  BY <1>1 DEF Right, Control
<1>2. CASE BackwardInterrupted
  <2>1. Quiet(db, db') /\ db'.ok = db.ok
    BY <1>2, BackwardInterruptedQuiet DEF Held_
  <2>2. Loop(back) /\ UNCHANGED loopVars
    BY <1>2 DEF BackwardInterrupted
  <2> QED
    BY <1>1, <2>1, <2>2, BackFacts_, QuietRight
<1>3. CASE CheckClause \/ CheckFact
  <2>1. Quiet(db, db')
    BY <1>3, CheckClauseQuiet, CheckFactQuiet DEF Held_
  <2>2. Loop(After(db')) /\ UNCHANGED loopVars
    BY <1>3 DEF CheckClause, CheckFact
  <2>3. After(db') = "backward" /\ back = "elim" => Picked
    BY <1>1 DEF Picked
  <2> QED
    BY <1>1, <1>b, <2>1, <2>2, <2>3, BackFacts_, AfterFacts, QuietRight
<1>4. CASE BackwardDone
  <2>1. db' = db /\ Loop(back) /\ UNCHANGED loopVars
    BY <1>4 DEF BackwardDone
  <2>2. Quiet(db, db')
    BY <1>1, <2>1, BackFacts_, QuietSame
  <2> QED
    BY <1>1, <2>1, <2>2, BackFacts_, QuietRight
<1> QED
  BY <1>2, <1>3, <1>4 DEF backwardSubsumptionCheck

(* Steps of the loops that leave all clauses and say where to go on. *)
LEMMA MainRight ==
  ASSUME Right, Gather \/ Finished \/ Abandoned \/ Checked
  PROVE  Right' /\ Quiet(db, db') /\ Stable(db, db') /\ db'.ok = db.ok
<1>0. Good(db) /\ (db.ok => Clean(db)) /\ pc \in Loops /\ db.ok /\ db.simp = TRUE
  BY DEF Right, DbRight, Control, Loops, Gather, Finished, Abandoned, Checked, Good, DbType, Values
<1>s. Quiet(db, db) /\ Stable(db, db)
  BY <1>0, QuietSame
<1>1. CASE Gather
  <2>1. Quiet(db, db') /\ Stable(db, db') /\ db'.ok = db.ok
    BY <1>1, GatherQuiet
  <2>2. Loop("backward") /\ back' = "checked" /\ UNCHANGED <<elim, at, was_frozen>>
    BY <1>1 DEF Gather
  <2>3. Good(db') /\ (db'.ok => Clean(db'))
    BY <1>0, <2>1, QuietClean
  <2>4. db'.simp = TRUE
    BY <1>0, <2>1 DEF Quiet
  <2>5. elim' \in 0 .. NVars /\ at' \in Nat /\ was_frozen' \in BOOLEAN
    BY <2>2 DEF Right, LoopTypes
  <2>6. "backward" \in Loops
    BY DEF Loops
  <2> QED
    BY <1>0, <2>1, <2>2, <2>3, <2>4, <2>5, <2>6, LoopRight
<1>2. CASE Finished
  <2>1. db' = db /\ Loop("cleanup") /\ UNCHANGED loopVars
    BY <1>2 DEF Finished
  <2>2. Right'
    BY <1>0, <1>s, <2>1, QuietRight DEF Loops
  <2> QED
    BY <1>s, <2>1, <2>2
<1>3. CASE Abandoned
  <2>1. Quiet(db, db') /\ Stable(db, db') /\ db'.ok = db.ok /\ Loop("cleanup") /\ UNCHANGED loopVars
    BY <1>3, AbandonedQuiet DEF Abandoned, Held_
  <2>2. Right'
    BY <1>0, <2>1, QuietRight DEF Loops
  <2> QED
    BY <2>1, <2>2
<1>4. CASE Checked
  <2>1. db' = db /\ Loop("pick") /\ UNCHANGED loopVars /\ "pick" \in Loops
    BY <1>4 DEF Checked, Loops
  <2>2. Right'
    BY <1>0, <1>s, <2>1, QuietRight
  <2> QED
    BY <1>s, <2>1, <2>2
<1> QED
  BY <1>1, <1>2, <1>3, <1>4

(* So does the choice of a variable, which changes no clause. *)
LEMMA PickRight ==
  ASSUME Right, PickNone \/ PickInterrupted \/ PickSkip \/ Pick
  PROVE  Right' /\ Quiet(db, db') /\ Stable(db, db') /\ db'.ok = db.ok
<1>0. Good(db) /\ (db.ok => Clean(db)) /\ pc \in Loops /\ db.ok /\ db.simp = TRUE
  BY DEF Right, DbRight, Control, Loops, PickNone, PickInterrupted, PickSkip, Pick, Good, DbType, Values
<1>1. CASE PickNone \/ PickInterrupted \/ PickSkip
  <2>1. \E next \in {"main", "pick"} : Loop(next) /\ UNCHANGED loopVars
    BY <1>1 DEF PickNone, PickInterrupted, PickSkip
  <2>2. db' = db \/ \E v \in Vars : db' = Popped(v)
    BY <1>1 DEF PickNone, PickInterrupted, PickSkip
  <2>3. Quiet(db, db') /\ Stable(db, db') /\ db'.ok = db.ok
    BY <1>0, <2>2, QuietSame, PoppedQuiet DEF Held_
  <2>4. PICK next \in {"main", "pick"} : Loop(next) /\ UNCHANGED loopVars
    BY <2>1
  <2>5. next \in Loops /\ next \notin {"backward", "asymm", "elim"}
    BY DEF Loops
  <2>6. Right'
    BY <1>0, <2>3, <2>4, <2>5, QuietRight
  <2> QED
    BY <2>3, <2>6
<1>2. CASE Pick
  <2>1. /\ Quiet(db, db') /\ Stable(db, db') /\ db'.ok = db.ok
        /\ elim' \in Vars \ db.eliminated
    BY <1>2, PickQuiet
  <2>2. /\ \E next \in {"asymm", "elim"} : Loop(next)
        /\ at' = 1 /\ back' = back /\ \E v \in Vars : was_frozen' = (v \in db.frozen)
    BY <1>2 DEF Pick
  <2>3. PICK next \in {"asymm", "elim"} : Loop(next)
    BY <2>2
  <2>4. Good(db') /\ (db'.ok => Clean(db'))
    BY <1>0, <2>1, QuietClean
  <2>5. db'.simp = TRUE /\ db'.eliminated = db.eliminated
    BY <1>0, <2>1 DEF Quiet
  <2>6. elim' \in 0 .. NVars /\ at' \in Nat /\ was_frozen' \in BOOLEAN /\ back' \in {"none", "checked", "elim", "collect"}
    BY <2>1, <2>2, NVarsAssumption DEF Right, LoopTypes, Vars
  <2>7. next \in Loops /\ next # "backward" /\ at' > 0
    BY <2>2 DEF Loops
  <2>8. Right'
    BY <1>0, <2>1, <2>3, <2>4, <2>5, <2>6, <2>7, LoopRight
  <2> QED
    BY <2>1, <2>8
<1> QED
  BY <1>1, <1>2

(* So does asymmetric branching. *)
LEMMA asymmRight ==
  ASSUME Right, asymm \/ asymmDone
  PROVE  Right' /\ Held_(db, db') /\ Stable(db, db')
<1>0. Good(db) /\ (db.ok => Clean(db)) /\ pc \in Loops /\ db.ok /\ db.simp = TRUE /\ Picked /\ at > 0 /\ at \in Nat
      /\ elim \in Vars \ db.eliminated /\ elim \in 0 .. NVars /\ was_frozen \in BOOLEAN
  BY DEF Right, DbRight, Control, Loops, asymm, asymmDone, Good, DbType, Values, Picked, LoopTypes
<1>1. CASE asymm
  <2>1. Held_(db, db') /\ Stable(db, db')
    BY <1>1, asymmQuiet
  <2>2. /\ Loop(IF db'.ok THEN "asymm" ELSE "cleanup") /\ at' = at + 1 /\ UNCHANGED <<back, elim, was_frozen>>
    BY <1>1 DEF asymm
  <2> DEFINE next == IF db'.ok THEN "asymm" ELSE "cleanup"
  <2>3. next \in Loops \cup {"cleanup"} /\ (next \in Loops => db'.ok) /\ Loop(next) /\ next # "backward"
    BY <2>2 DEF Loops
  <2> HIDE DEF next
  <2>4. Good(db') /\ (db'.ok => Clean(db'))
    BY <1>0, <2>1, QuietClean DEF Held_
  <2>5. db'.simp = TRUE /\ db'.eliminated = db.eliminated
    BY <1>0, <2>1 DEF Quiet, Held_
  <2>6. back' \in {"none", "checked", "elim", "collect"} /\ at' \in Nat /\ at' > 0
    BY <1>0, <2>2 DEF Right, LoopTypes
  <2>7. Right'
    BY <1>0, <2>2, <2>3, <2>4, <2>5, <2>6, LoopRight
  <2> QED
    BY <2>1, <2>7
<1>2. CASE asymmDone
  <2>1. /\ db' = db /\ Loop("backward") /\ back' = "elim" /\ UNCHANGED <<elim, at, was_frozen>>
    BY <1>2 DEF asymmDone
  <2>2. "backward" \in Loops
    BY DEF Loops
  <2>3. Right'
    BY <1>0, <2>1, <2>2, LoopRight
  <2> QED
    BY <1>0, <2>1, <2>3, QuietSame DEF Held_
<1> QED
  BY <1>1, <1>2

(* When the variable is eliminated the database is clean. *)
LEMMA RestoredOk ==
  ASSUME Right, Eliminated
  PROVE  Clean(Restored) /\ Restored.ok /\ Restored.simp = TRUE
<1>1. db.ok /\ Clean(db) /\ db.simp = TRUE
  BY DEF Right, DbRight, Control, Loops, Eliminated, Good, DbType, Values
<1>2. Quiet(db, Restored) /\ Restored.ok = db.ok
  BY RestoredQuiet
<1>3. Restored.simp = TRUE
  BY <1>1, <1>2 DEF Quiet
<1> QED
  BY <1>1, <1>2, <1>3, QuietClean

(* eliminateVar keeps the invariant. *)
LEMMA EliminatedRight ==
  ASSUME Right, Eliminated
  PROVE  Right'
<1>0. pc \in Loops /\ at \in Nat /\ was_frozen \in BOOLEAN /\ elim \in 0 .. NVars
  BY DEF Right, Loops, Eliminated, LoopTypes
<1>1. Resolved(Restored, db', elim)
  BY EliminatedResolved
<1>2. Good(db') /\ Clean(db')
  BY <1>1, RestoredOk, ResolvedClean
<1>3. db'.simp = TRUE
  BY <1>1, RestoredOk DEF Resolved
<1>4. Loop(After(db')) /\ back' = "collect" /\ UNCHANGED <<elim, at, was_frozen>>
  BY DEF Eliminated
<1>5. ~(After(db') = "backward" /\ back' = "elim")
  BY <1>4
<1> QED
  BY <1>0, <1>2, <1>3, <1>4, <1>5, AfterFacts, LoopRight

(* A variable that stays, or a collection of garbage, keeps the invariant. *)
LEMMA KeptRight ==
  ASSUME Right, Kept \/ Collect
  PROVE  Right' /\ Quiet(db, db') /\ Stable(db, db') /\ db'.ok = db.ok
<1>0. Good(db) /\ pc \in Loops /\ db.ok
  BY DEF Right, DbRight, Control, Loops, Kept, Collect
<1>1. Quiet(db, db') /\ Stable(db, db') /\ db'.ok = db.ok
  BY <1>0, KeptQuiet, CollectQuiet DEF Collect
<1>2. PICK next \in {"collect", "pick"} : Loop(next) /\ UNCHANGED loopVars
  BY DEF Kept, Collect
<1>3. next \in Loops /\ next \notin {"backward", "asymm", "elim"}
  BY DEF Loops
<1> QED
  BY <1>0, <1>1, <1>2, <1>3, QuietRight

-----------------------------------------------------------------------------
(* After the loops. *)

(* The end of eliminate keeps the invariant, with simplification turned off
   too (SimpSolver.cc:655-671). *)
LEMMA CleanupRight ==
  ASSUME Right, Cleanup
  PROVE  Right'
<1>0. Good(db) /\ (db.ok => Clean(db)) /\ next_var \in 0 .. NVars /\ max_simp_var \in 0 .. NVars
  BY DEF Right, DbRight, UserTypes
<1>1. Good(db') /\ (db'.ok => Clean(db')) /\ db'.ok = db.ok
  <2>1. CASE db' = TurnedOff(db)
    <3>1. Good(db') /\ db'.ok = db.ok /\ LiveVars(db') = LiveVars(db) /\ db'.eliminated = db.eliminated
      BY <1>0, <2>1, TurnedOffStep
    <3> QED
      BY <1>0, <3>1, CleanFacts
  <2>2. CASE db' \in checkGarbage(db)
    <3>1. Quiet(db, db') /\ db'.ok = db.ok
      BY <1>0, <2>2, CollectQuiet
    <3> QED
      BY <1>0, <3>1, QuietClean
  <2> QED
    BY <2>1, <2>2 DEF Cleanup
<1>2. /\ UNCHANGED <<script, options, given, next_var, released_vars, free_vars, frozen_vars, interrupt,
                     loopVars, callVars, resultVars>>
      /\ pc' = IF ~solving THEN "idle" ELSE IF db.ok THEN "simplify" ELSE "dead"
      /\ max_simp_var' = IF turn_off THEN next_var ELSE max_simp_var
  BY DEF Cleanup
<1>3. UserTypes'
  BY <1>0, <1>2 DEF Right, UserTypes
<1>4. LoopTypes'
  BY <1>2 DEF Right, LoopTypes, loopVars, Places
<1>5. CallTypes' /\ ResultTypes'
  BY <1>2 DEF Right, CallTypes, ResultTypes, callVars, resultVars
<1>6. Control'
  BY <1>1, <1>2 DEF Right, Control, Picked, Loops, callVars, loopVars
<1> QED
  BY <1>1, <1>3, <1>4, <1>5, <1>6, RightNext

(* solve_ goes on to the search. *)
LEMMA SolveRestRight ==
  ASSUME Right, SolveRest
  PROVE  Right'
<1>1. /\ pc = "simplify" /\ Simplify /\ model' = {} /\ pc' = IF db.ok THEN "search" ELSE "dead"
      /\ UNCHANGED <<script, options, given, next_var, max_simp_var, frozen_vars, interrupt,
                     loopVars, callVars, answer>>
  BY DEF SolveRest
<1>2. /\ Good(db') /\ (db'.ok => Clean(db')) /\ released_vars' \in SUBSET Lits /\ free_vars' \in Seq(Lits)
      /\ db'.ok = db.ok
  BY <1>1, SimplifyFacts
<1>3. UserTypes'
  BY <1>1, <1>2 DEF Right, UserTypes
<1>4. LoopTypes'
  BY <1>1 DEF Right, LoopTypes, loopVars, Places
<1>5. CallTypes' /\ ResultTypes'
  BY <1>1 DEF Right, CallTypes, ResultTypes, callVars
<1>6. Control'
  BY <1>1, <1>2 DEF Right, Control, Picked, Loops, callVars, loopVars
<1> QED
  BY <1>2, <1>3, <1>4, <1>5, <1>6, RightNext

(* Learning keeps the invariant. *)
LEMMA SearchRight ==
  ASSUME Right, NothingLearned \/ Learn
  PROVE  Right'
<1>0. pc = "search" /\ db.ok /\ Good(db) /\ Clean(db) /\ pc' = "answer" /\ solving
      /\ UNCHANGED <<userVars, interrupt, loopVars, callVars, resultVars>>
  BY DEF NothingLearned, Learn, Searching, Right, Control, DbRight
<1>1. Good(db') /\ db'.ok /\ Clean(db')
  BY <1>0, LearnRight DEF NothingLearned
<1>3. UserTypes'
  BY <1>0 DEF Right, UserTypes, userVars
<1>4. LoopTypes' /\ CallTypes' /\ ResultTypes'
  BY <1>0 DEF Right, LoopTypes, loopVars, Places, CallTypes, callVars, ResultTypes, resultVars
<1>6. Control'
  BY <1>0, <1>1 DEF Right, Control, Picked, Loops, callVars, loopVars, userVars
<1> QED
  BY <1>1, <1>3, <1>4, <1>6, RightNext

(* The call comes back. *)
LEMMA ReturnRight ==
  ASSUME Right, NEW d, Good(d), d.ok => Clean(d), NEW ans, NEW mod, Return(d, ans, mod),
         ans \in {"sat", "unsat", "undef"}, mod \in SUBSET Lits
  PROVE  Right' /\ Alike_(d, db')
<1>0. pc' = "idle" /\ answer' = ans /\ model' = mod /\ UNCHANGED <<userVars, interrupt, loopVars, callVars>>
      /\ db' = Unfrozen(d, extra_frozen)
  BY DEF Return
<1>1. extra_frozen \in SUBSET Vars
  BY DEF Right, CallTypes
<1>2. Alike_(d, db')
  BY <1>0, <1>1, UnfrozenAlike
<1>b. Good(db') /\ (db'.ok => Clean(db'))
  BY <1>2, QuietClean DEF Alike_
<1>3. UserTypes'
  BY <1>0 DEF Right, UserTypes, userVars
<1>4. LoopTypes' /\ CallTypes' /\ ResultTypes'
  BY <1>0 DEF Right, LoopTypes, loopVars, Places, CallTypes, callVars, ResultTypes
<1>6. Control'
  BY <1>0 DEF Right, Control, Picked, Loops, callVars, loopVars, userVars
<1> QED
  BY <1>2, <1>3, <1>4, <1>6, <1>b, RightNext

(* So does an answer. *)
LEMMA AnswerRight ==
  ASSUME Right, Dead \/ SearchStopped \/ ModelFound \/ NoModel
  PROVE  Right'
<1>0. Good(db) /\ (db.ok => Clean(db)) /\ model \in SUBSET Lits /\ db.elimclauses \in Seq(Records)
  BY DEF Right, DbRight, ResultTypes, Good, DbType, Values
<1>1. CASE \E ans \in {"sat", "unsat", "undef"} : Return(db, ans, model)
  BY <1>0, <1>1, ReturnRight
<1>2. CASE ModelFound
  <2>1. PICK m \in Solutions(Assumed) :
          Return(db, "sat", IF options.extend_model THEN extendModel(db, m) ELSE m)
    BY <1>2 DEF ModelFound
  <2>2. m \in SUBSET Lits
    BY FactsType, SolutionFacts
  <2> DEFINE mod == IF options.extend_model THEN extendModel(db, m) ELSE m
  <2>3. mod \in SUBSET Lits
    BY <1>0, <2>2, ExtendedType
  <2> QED
    BY <1>0, <2>1, <2>3, ReturnRight
<1>3. CASE Return([db EXCEPT !.ok = FALSE], "unsat", model)
  <2> DEFINE e == [db EXCEPT !.ok = FALSE]
  <2>1. Good(e) /\ e.ok = FALSE
    BY <1>0, DeadStep
  <2>2. Return(e, "unsat", model)
    BY <1>3
  <2> HIDE DEF e
  <2> QED
    BY <1>0, <2>1, <2>2, ReturnRight
<1> QED
  BY <1>1, <1>2, <1>3 DEF Dead, SearchStopped, NoModel

-----------------------------------------------------------------------------
(* Every step keeps the invariant. *)
LEMMA RightStep ==
  ASSUME Right, [Next]_vars
  PROVE  Right'
<1>1. CASE newVar
  BY <1>1, newVarRight
<1>2. CASE ReuseVar
  BY <1>2, ReuseRight
<1>3. CASE addClause
  BY <1>3, addClauseRight
<1>4. CASE releaseVar
  BY <1>4, releaseVarRight
<1>5. CASE setFrozen \/ freezeVar \/ thaw
  BY <1>5, FreezeRight
<1>6. CASE Substitute
  BY <1>6, SubstituteRight
<1>7. CASE clearInterrupt \/ Interrupt
  BY <1>7, InterruptRight
<1>8. CASE Eliminate
  BY <1>8, EliminateRight
<1>9. CASE Solve
  BY <1>9, SolveRight
<1>10. CASE backwardSubsumptionCheck
  BY <1>10, backwardRight
<1>11. CASE Gather \/ Finished \/ Abandoned \/ Checked
  BY <1>11, MainRight
<1>12. CASE PickNone \/ PickInterrupted \/ PickSkip \/ Pick
  BY <1>12, PickRight
<1>13. CASE asymm \/ asymmDone
  BY <1>13, asymmRight
<1>14. CASE Eliminated
  BY <1>14, EliminatedRight
<1>15. CASE Kept \/ Collect
  BY <1>15, KeptRight
<1>16. CASE Cleanup
  BY <1>16, CleanupRight
<1>17. CASE SolveRest
  BY <1>17, SolveRestRight
<1>18. CASE NothingLearned \/ Learn
  BY <1>18, SearchRight
<1>19. CASE Dead \/ SearchStopped \/ ModelFound \/ NoModel
  BY <1>19, AnswerRight
<1>20. CASE UNCHANGED vars
  <2>1. /\ UNCHANGED <<script, options, given, next_var, released_vars, free_vars, max_simp_var, frozen_vars>>
        /\ UNCHANGED <<db, interrupt, pc, back, elim, at, was_frozen>>
        /\ UNCHANGED <<turn_off, solving, assumptions, extra_frozen, answer, model>>
    BY <1>20 DEF vars, userVars, loopVars, callVars, resultVars
  <2>2. UserTypes' /\ LoopTypes' /\ CallTypes' /\ ResultTypes'
    BY <2>1 DEF Right, UserTypes, LoopTypes, CallTypes, ResultTypes
  <2>3. Control'
    BY <2>1 DEF Right, Control, Picked
  <2>4. Good(db') /\ (db'.ok => Clean(db'))
    BY <2>1 DEF Right, DbRight
  <2> QED
    BY <2>2, <2>3, <2>4, RightNext
<1> QED
  BY <1>1, <1>2, <1>3, <1>4, <1>5, <1>6, <1>7, <1>8, <1>9, <1>10, <1>11, <1>12, <1>13, <1>14, <1>15, <1>16,
     <1>17, <1>18, <1>19, <1>20 DEF Next, user, solver, eliminate

(* The invariant holds in every reachable state, for every set of scripts:
   clauses in memory, occurrence lists, counters, queue, eliminated
   variables and the program counter of eliminate fit together, whatever a
   user calls and wherever an interrupt or a limit stops the loops
   (SimpSolver.cc:38-721). *)
THEOREM InvariantCorrect == Spec => []Right
<1>1. Init => Right
  BY InitRight
<1>2. Right /\ [Next]_vars => Right'
  BY RightStep
<1> QED
  BY <1>1, <1>2, PTL DEF Spec

(* It has the types in it. *)
LEMMA RightTypes ==
  ASSUME Right
  PROVE  TypeOK
<1>1. Rec(db) /\ Memory(db) /\ Values(db) /\ Lists_(db) /\ Proper(db)
  BY DEF Right, DbRight, Good, DbType
<1>2. \A cr \in DOMAIN db.ca : db.ca[cr] \in [lits : SUBSET Lits, removed : BOOLEAN]
  BY <1>1, EntryFacts DEF Entries
<1>3. /\ db.elimclauses \in Seq([lit : Lits, others : SUBSET Lits])
      /\ db.ok \in BOOLEAN /\ db.simp \in BOOLEAN /\ db.learnts \in SUBSET SUBSET Lits
      /\ db.fixed \in SUBSET Lits /\ ~Contradicts(db.fixed) /\ db.unchecked \subseteq db.fixed
      /\ db.touched \in SUBSET Vars /\ db.elim_heap \in SUBSET Vars /\ db.frozen \in SUBSET Vars
      /\ db.eliminated \in SUBSET Vars
  BY <1>1 DEF Values, Records
<1>4. /\ \A v \in Vars : db.occurs[v] \subseteq DOMAIN db.ca
      /\ db.dirty \in SUBSET Vars /\ (\A p \in Lits : db.n_occ[p] \in Nat) /\ db.queue \in Seq(DOMAIN db.ca)
  BY <1>1 DEF Lists_
<1>5. DOMAIN db.ca \subseteq CRefs /\ \A cr \in Live(db) : Cardinality(db.ca[cr].lits) > 1
  BY <1>1 DEF Memory, Proper
<1>6. pc \in {"idle", "main", "backward", "checked", "pick", "asymm", "elim", "collect",
              "cleanup", "simplify", "search", "answer", "dead"}
  BY DEF Right, LoopTypes, Places, Loops
<1>7. /\ script \in Seq(Calls) /\ options \in Options
      /\ given \in SUBSET SUBSET Lits /\ next_var \in 0 .. NVars
      /\ released_vars \in SUBSET Lits /\ free_vars \in Seq(Lits)
      /\ max_simp_var \in 0 .. NVars /\ frozen_vars \in SUBSET Vars
  BY DEF Right, UserTypes
<1>8. /\ interrupt \in BOOLEAN
      /\ back \in {"none", "checked", "elim", "collect"}
      /\ elim \in 0 .. NVars /\ at \in Nat /\ was_frozen \in BOOLEAN
      /\ turn_off \in BOOLEAN /\ solving \in BOOLEAN
      /\ assumptions \in Seq(Lits) /\ extra_frozen \in SUBSET Vars
      /\ answer \in {"idle", "none", "sat", "unsat", "undef"} /\ model \in SUBSET Lits
  BY DEF Right, LoopTypes, CallTypes, ResultTypes
<1> QED
  BY <1>2, <1>3, <1>4, <1>5, <1>6, <1>7, <1>8 DEF TypeOK

(* The simplifying solver keeps its types, for any variables, calls and
   options. *)
THEOREM TypeCorrect == Spec => []TypeOK
<1>1. Right => TypeOK
  BY RightTypes
<1> QED
  BY <1>1, InvariantCorrect, PTL

(* It has the lists in it. *)
LEMMA RightOccurrences ==
  ASSUME Right
  PROVE  OccurrencesRight
<1>0. Good(db) /\ (db.ok => Clean(db))
  BY DEF Right, DbRight
<1>1. ASSUME db.simp PROVE
         /\ \A v \in Vars \ db.eliminated :
              Lists(db, v) = {cr \in Live(db) : v \in VarsOf(db.ca[cr].lits)}
         /\ \A v \in Vars \ db.dirty : db.occurs[v] \subseteq Live(db)
         /\ \A p \in Lits :
              db.n_occ[p] = Cardinality({cr \in Live(db) : p \in db.ca[cr].lits})
  <2>1. Listed(db)
    BY <1>0, <1>1 DEF Good
  <2>2. ASSUME NEW v \in Vars \ db.eliminated PROVE Lists(db, v) = Holding(db, v)
    <3>1. Lists(db, v) \subseteq Holding(db, v) /\ Holding(db, v) \subseteq db.occurs[v]
      BY <2>1 DEF Listed
    <3>2. \A cr \in Holding(db, v) : ~db.ca[cr].removed
      BY DEF Holding, Live
    <3> QED
      BY <3>1, <3>2 DEF Lists
  <2> QED
    BY <2>1, <2>2 DEF Listed, Holding, Counted
<1> QED
  BY <1>0, <1>1 DEF OccurrencesRight, Clean

(* While the solver simplifies, every live clause is in the list of each of
   its variables and n_occ counts the live clauses of each literal,
   whatever was strengthened, removed, replaced or collected in between
   (SimpSolver.cc:139-211, 698-721). *)
THEOREM OccurrencesCorrect == Spec => []OccurrencesRight
<1>1. Right => OccurrencesRight
  BY RightOccurrences
<1> QED
  BY <1>1, InvariantCorrect, PTL
=============================================================================
