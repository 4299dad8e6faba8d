------------------------- MODULE LocalSearchProofs --------------------------
(***************************************************************************)
(* About module LocalSearch: each step keeps the counts, the scores, the   *)
(* candidates, the average weight and the best solution right, for every   *)
(* number of variables, every instance and every order of its steps.       *)
(***************************************************************************)
EXTENDS LocalSearch, FiniteSetTheorems, WellFoundedInduction, TLAPS

(* Folds over sequences. *)

(* The element with which FoldLeft begins from behind. *)
Top(s) == CHOOSE x \in s : \A y \in s : x >= y

SelectOp(arg, kept, k) ==
  IF arg[1][k] \in arg[2] THEN Append(kept, arg[1][k]) ELSE kept
Selects == INSTANCE FoldTheorems WITH op <- SelectOp, pick <- Top

(* A set of naturals that has an element has a least one. *)
LEMMA Least ==
  \A B \in SUBSET Nat : B # {} => \E m \in B : \A k \in B : m <= k
<1> SUFFICES ASSUME NEW B \in SUBSET Nat, B # {}
             PROVE  \E m \in B : \A k \in B : m <= k
  OBVIOUS
<1> DEFINE R == OpToRel(<, Nat)
<1>1. \E n \in B : \A k \in B : ~(<<k, n>> \in R)
  <2>1. IsWellFoundedOn(R, Nat)
    BY NatLessThanWellFounded
  <2> QED
    BY <2>1, WFMin
<1>2. \A k, n \in Nat : k < n => <<k, n>> \in R
  BY DEF OpToRel
<1> HIDE DEF R
<1>3. PICK n \in B : \A k \in B : ~(<<k, n>> \in R)
  BY <1>1
<1>4. ASSUME NEW k \in B PROVE n <= k
  <2>1. ~(k < n)
    BY <1>2, <1>3
  <2> QED
    BY <2>1
<1> QED
  BY <1>4

(* What holds of 0, and passes from k - 1 to k, holds of n. *)
LEMMA Climb ==
  ASSUME NEW n \in Nat, NEW G, 0 \in G, \A k \in 1 .. n : k - 1 \in G => k \in G
  PROVE  n \in G
BY Least, Selects!Climb

(* Selected, element by element. *)
LEMMA SelectedTrace ==
  ASSUME NEW n \in Nat, NEW seq, DOMAIN seq = 1 .. n, NEW T
  PROVE  \E g : /\ g[0] = <<>>
                /\ \A k \in 1 .. n :
                     g[k] = IF seq[k] \in T THEN Append(g[k - 1], seq[k]) ELSE g[k - 1]
                /\ Selected(seq, T) = g[n]
<1> DEFINE arg == <<seq, T>>
           f == CHOOSE f : Selects!Folds(arg, <<>>, 1 .. n, f)
<1>1. \A s : Top(s) = Selects!Largest(s)
  BY DEF Top, Selects!Largest
<1>2. Selected(seq, T) = f[1 .. n]
  BY DEF Selected, SelectOp, Top, Selects!Folds, FoldLeft, MapThenFoldSet, Max
<1>3. \E h : Selects!Folds(arg, <<>>, 1 .. n, h)
  BY <1>1, Least, Selects!SequenceFold
<1>4. Selects!Folds(arg, <<>>, 1 .. n, f)
  BY <1>3
<1> HIDE DEF f
<1>5. PICK g : Selects!Trace(arg, <<>>, n, g) /\ g[n] = f[1 .. n]
  BY <1>1, <1>4, Selects!SequenceTrace
<1> QED
  BY <1>2, <1>5 DEF Selects!Trace, SelectOp

(* A sequence with one more element. *)
LEMMA Appended ==
  ASSUME NEW S, NEW seq \in Seq(S), NEW x \in S
  PROVE  /\ Append(seq, x) \in Seq(S)
         /\ Len(Append(seq, x)) = Len(seq) + 1 /\ DOMAIN Append(seq, x) = 1 .. Len(seq) + 1
         /\ \A i \in 1 .. Len(seq) : Append(seq, x)[i] = seq[i]
         /\ Append(seq, x)[Len(seq) + 1] = x
         /\ ToSet(Append(seq, x)) = ToSet(seq) \cup {x}
<1>1. Len(seq) \in Nat /\ DOMAIN seq = 1 .. Len(seq)
  OBVIOUS
<1>2. /\ Append(seq, x) \in Seq(S)
      /\ Len(Append(seq, x)) = Len(seq) + 1 /\ DOMAIN Append(seq, x) = 1 .. Len(seq) + 1
      /\ \A i \in 1 .. Len(seq) : Append(seq, x)[i] = seq[i]
      /\ Append(seq, x)[Len(seq) + 1] = x
  OBVIOUS
<1> DEFINE t == Append(seq, x)
<1> HIDE DEF t
<1>3. \A i \in 1 .. Len(seq) + 1 : i \in 1 .. Len(seq) \/ i = Len(seq) + 1
  BY <1>1
<1>4. \A i \in 1 .. Len(seq) : i \in 1 .. Len(seq) + 1
  BY <1>1
<1>5. Len(seq) + 1 \in 1 .. Len(seq) + 1
  BY <1>1
<1>6. ToSet(t) = ToSet(seq) \cup {x}
  BY <1>1, <1>2, <1>3, <1>4, <1>5 DEF ToSet, t
<1> QED
  BY <1>2, <1>6 DEF t

(* No element twice. *)
Distinct(seq) == \A i, j \in DOMAIN seq : seq[i] = seq[j] => i = j

(* A sequence without repetition is as long as the set of its elements is
   large. *)
LEMMA DistinctLength ==
  ASSUME NEW S, NEW seq \in Seq(S), Distinct(seq)
  PROVE  IsFiniteSet(ToSet(seq)) /\ Len(seq) = Cardinality(ToSet(seq))
<1>1. Len(seq) \in Nat /\ DOMAIN seq = 1 .. Len(seq)
  OBVIOUS
<1>2. seq \in Bijection(1 .. Len(seq), ToSet(seq))
  <2>1. seq \in [1 .. Len(seq) -> ToSet(seq)]
    BY <1>1 DEF ToSet
  <2>2. \A t \in ToSet(seq) : \E i \in 1 .. Len(seq) : seq[i] = t
    BY <1>1 DEF ToSet
  <2> QED
    BY <1>1, <2>1, <2>2 DEF Bijection, Injection, Surjection, IsInjective, Distinct
<1>3. ExistsBijection(1 .. Len(seq), ToSet(seq))
  BY <1>2 DEF ExistsBijection
<1> QED
  BY <1>1, <1>3, FS_CountingElements, FS_NatBijection

(* A new element at the end repeats none. *)
LEMMA AppendedDistinct ==
  ASSUME NEW S, NEW seq \in Seq(S), NEW x \in S, Distinct(seq), x \notin ToSet(seq)
  PROVE  Distinct(Append(seq, x))
<1>1. Len(seq) \in Nat /\ DOMAIN seq = 1 .. Len(seq)
  OBVIOUS
<1> DEFINE t == Append(seq, x)
<1>2. /\ DOMAIN t = 1 .. Len(seq) + 1
      /\ \A i \in 1 .. Len(seq) : t[i] = seq[i]
      /\ t[Len(seq) + 1] = x
  OBVIOUS
<1> HIDE DEF t
<1>3. \A i \in 1 .. Len(seq) + 1 : i \in 1 .. Len(seq) \/ i = Len(seq) + 1
  BY <1>1
<1>4. \A i \in 1 .. Len(seq) : seq[i] # x
  BY <1>1 DEF ToSet
<1>5. Distinct(t)
  BY <1>1, <1>2, <1>3, <1>4 DEF Distinct
<1> QED
  BY <1>5 DEF t

-----------------------------------------------------------------------------
(* What Selected returns. *)
LEMMA SelectedFacts ==
  ASSUME NEW S, NEW seq \in Seq(S), NEW T
  PROVE  /\ Selected(seq, T) \in Seq(ToSet(seq) \cap T)
         /\ ToSet(Selected(seq, T)) = ToSet(seq) \cap T
         /\ Distinct(seq) => Distinct(Selected(seq, T))
<1> DEFINE n == Len(seq)
           X == ToSet(seq) \cap T
           Upto(k) == {seq[i] : i \in 1 .. k} \cap T
<1>1. n \in Nat /\ DOMAIN seq = 1 .. n
  OBVIOUS
<1>2. PICK g : /\ g[0] = <<>>
               /\ \A k \in 1 .. n :
                    g[k] = IF seq[k] \in T THEN Append(g[k - 1], seq[k]) ELSE g[k - 1]
               /\ Selected(seq, T) = g[n]
  BY <1>1, SelectedTrace, SMTT(30)
<1> DEFINE good(k) == /\ g[k] \in Seq(X) /\ ToSet(g[k]) = Upto(k)
                      /\ Distinct(seq) => Distinct(g[k])
           G == {k \in 0 .. n : good(k)}
<1>3. 0 \in G
  <2>1. <<>> \in Seq(X) /\ ToSet(<<>>) = {} /\ Distinct(<<>>)
    BY DEF ToSet, Distinct
  <2>2. Upto(0) = {}
    OBVIOUS
  <2>3. 0 \in 0 .. n
    BY <1>1
  <2> HIDE DEF Upto, X, n
  <2> QED
    BY <1>2, <2>1, <2>2, <2>3
<1>4. ASSUME NEW k \in 1 .. n, k - 1 \in G PROVE k \in G
  <2>1. k \in 0 .. n /\ good(k - 1)
    BY <1>4
  <2>2. Upto(k) = IF seq[k] \in T THEN Upto(k - 1) \cup {seq[k]} ELSE Upto(k - 1)
    <3>1. \A i \in 1 .. k : i \in 1 .. k - 1 \/ i = k
      OBVIOUS
    <3>2. k \in 1 .. k /\ \A i \in 1 .. k - 1 : i \in 1 .. k
      OBVIOUS
    <3> QED
      BY <3>1, <3>2
  <2>3. CASE seq[k] \notin T
    <3>1. g[k] = g[k - 1] /\ Upto(k) = Upto(k - 1)
      BY <1>2, <2>2, <2>3
    <3> HIDE DEF Upto
    <3> QED
      BY <2>1, <3>1
  <2>4. CASE seq[k] \in T
    <3>1. g[k] = Append(g[k - 1], seq[k]) /\ Upto(k) = Upto(k - 1) \cup {seq[k]}
      BY <1>2, <2>2, <2>4
    <3>2. seq[k] \in X
      BY <1>1, <2>4 DEF ToSet
    <3>3. g[k - 1] \in Seq(X) /\ ToSet(g[k - 1]) = Upto(k - 1)
      BY <2>1
    <3>4. g[k] \in Seq(X) /\ ToSet(g[k]) = Upto(k)
      BY <3>1, <3>2, <3>3, Appended
    <3>5. ASSUME Distinct(seq) PROVE Distinct(g[k])
      <4>1. seq[k] \notin Upto(k - 1)
        BY <1>1, <3>5 DEF Distinct
      <4>2. Distinct(g[k - 1])
        BY <2>1, <3>5
      <4> HIDE DEF Upto, X
      <4> QED
        BY <3>1, <3>2, <3>3, <4>1, <4>2, AppendedDistinct
    <3> HIDE DEF Upto, X
    <3> QED
      BY <2>1, <3>4, <3>5
  <2> QED
    BY <2>3, <2>4
<1> HIDE DEF G
<1>5. n \in G
  BY <1>1, <1>3, <1>4, Climb
<1>6. Upto(n) = X
  BY <1>1 DEF ToSet
<1> QED
  BY <1>2, <1>5, <1>6 DEF G

-----------------------------------------------------------------------------
(* Sums over finite sets. *)

(* What holds of a set when it holds without any of its elements, holds of
   every set of numbers up to n. *)
LEMMA SetClimb ==
  ASSUME NEW n \in Nat, NEW Q, {} \in Q,
         \A s \in SUBSET (1 .. n) : s # {} /\ (\A x \in s : s \ {x} \in Q) => s \in Q
  PROVE  \A s \in SUBSET (1 .. n) : s \in Q
<1> DEFINE G == {k \in 0 .. n : \A s \in SUBSET (1 .. n) : Cardinality(s) = k => s \in Q}
<1>1. \A s \in SUBSET (1 .. n) : IsFiniteSet(s) /\ Cardinality(s) \in 0 .. n
  <2>1. IsFiniteSet(1 .. n) /\ Cardinality(1 .. n) = n
    BY FS_Interval
  <2>2. \A s \in SUBSET (1 .. n) : IsFiniteSet(s) /\ Cardinality(s) <= n
    BY <2>1, FS_Subset
  <2>3. \A s \in SUBSET (1 .. n) : Cardinality(s) \in Nat
    BY <2>2, FS_CardinalityType
  <2> QED
    BY <2>2, <2>3
<1>2. 0 \in G
  <2>1. \A s \in SUBSET (1 .. n) : Cardinality(s) = 0 => s = {}
    BY <1>1, FS_EmptySet
  <2> QED
    BY <2>1
<1>3. ASSUME NEW k \in 1 .. n, k - 1 \in G PROVE k \in G
  <2>1. ASSUME NEW s \in SUBSET (1 .. n), Cardinality(s) = k PROVE s \in Q
    <3>1. s # {}
      <4>1. Cardinality({}) = 0 /\ k # 0
        BY FS_EmptySet
      <4> QED
        BY <2>1, <4>1
    <3>2. ASSUME NEW x \in s PROVE s \ {x} \in Q
      <4>1. Cardinality(s \ {x}) = k - 1
        BY <1>1, <2>1, FS_RemoveElement
      <4> QED
        BY <1>3, <4>1
    <3> QED
      BY <3>1, <3>2
  <2> QED
    BY <2>1
<1>4. ASSUME NEW s \in SUBSET (1 .. n) PROVE s \in Q
  <2> HIDE DEF G
  <2>1. \A k \in 0 .. n : k \in G
    <3>1. ASSUME NEW k \in 0 .. n PROVE k \in G
      <4>1. k \in Nat /\ \A j \in 1 .. k : j \in 1 .. n
        OBVIOUS
      <4>2. \A j \in 1 .. k : j - 1 \in G => j \in G
        BY <1>3, <4>1
      <4> QED
        BY <1>2, <4>1, <4>2, Climb
    <3> QED
      BY <3>1
  <2> QED
    BY <1>1, <2>1 DEF G
<1> QED
  BY <1>4

-----------------------------------------------------------------------------
AnyOf(s) == CHOOSE x \in s : TRUE
AddOp(F, acc, x) == F[x] + acc
Adds == INSTANCE FoldTheorems WITH op <- AddOp, pick <- AnyOf

(* The sum of F over S, what MapThenSumSet returns. *)
SumOf(F, S) == MapThenSumSet(LAMBDA c : F[c], S)
Wholes(F, S) == \A x \in S : F[x] \in Int

(* A sum has the elements of S one by one. *)
LEMMA SumFold ==
  ASSUME NEW F, NEW n \in Nat, NEW S \in SUBSET (1 .. n)
  PROVE  \E f : Adds!Folds(F, 0, S, f) /\ SumOf(F, S) = f[S]
<1> DEFINE f == CHOOSE f : Adds!Folds(F, 0, S, f)
<1> DEFINE card == [s \in SUBSET S |-> Cardinality(s)]
<1>0. IsFiniteSet(S)
  <2>1. IsFiniteSet(1 .. n)
    BY FS_Interval
  <2> QED
    BY <2>1, FS_Subset
<1>1. Adds!Measures(S, card, Cardinality(S))
  <2>1. ASSUME NEW s \in SUBSET S
        PROVE  /\ IsFiniteSet(s) /\ Cardinality(s) \in Nat
               /\ Cardinality(s) <= Cardinality(S) /\ card[s] = Cardinality(s)
    BY <1>0, FS_Subset, FS_CardinalityType
  <2>2. ASSUME NEW s \in SUBSET S, s # {} PROVE card[s \ {AnyOf(s)}] < card[s]
    <3>1. AnyOf(s) \in s
      BY <2>2 DEF AnyOf
    <3>2. Cardinality(s \ {AnyOf(s)}) = Cardinality(s) - 1
      BY <2>1, <3>1, FS_RemoveElement
    <3> HIDE DEF card
    <3>3. card[s \ {AnyOf(s)}] = Cardinality(s) - 1 /\ card[s] = Cardinality(s)
      BY <2>1, <3>2
    <3>4. Cardinality(s) \in Nat
      BY <2>1
    <3> QED
      BY <3>3, <3>4
  <2>3. Cardinality(S) \in Nat
    BY <1>0, FS_CardinalityType
  <2> HIDE DEF card
  <2>4. ASSUME NEW s \in SUBSET S PROVE card[s] \in 0 .. Cardinality(S)
    BY <2>1, <2>3
  <2> QED
    BY <2>2, <2>4 DEF Adds!Measures
<1>2. \E h : Adds!Folds(F, 0, S, h)
  <2>1. Cardinality(S) \in Nat
    BY <1>0, FS_CardinalityType
  <2> HIDE DEF card
  <2> QED
    BY <1>1, <2>1, Least, Adds!MeasuredFold
<1>3. Adds!Folds(F, 0, S, f)
  BY <1>2
<1>4. SumOf(F, S) = f[S]
  BY DEF SumOf, MapThenSumSet, MapThenFoldSet, Adds!Folds, AddOp, AnyOf
<1> HIDE DEF f
<1> QED
  BY <1>3, <1>4

(* The steps of a fold do not depend on the set it was made for. *)
LEMMA FoldUnique ==
  ASSUME NEW F, NEW n \in Nat, NEW S \in SUBSET (1 .. n), NEW f, Adds!Folds(F, 0, S, f),
         NEW T \in SUBSET (1 .. n), NEW h, Adds!Folds(F, 0, T, h)
  PROVE  \A s \in SUBSET (S \cap T) : f[s] = h[s]
<1> DEFINE Q == {s \in SUBSET (1 .. n) : s \subseteq S \cap T => f[s] = h[s]}
<1>1. f[{}] = 0 /\ h[{}] = 0
  BY DEF Adds!Folds
<1>2. /\ \A s \in SUBSET S : s # {} => f[s] = F[AnyOf(s)] + f[s \ {AnyOf(s)}]
      /\ \A s \in SUBSET T : s # {} => h[s] = F[AnyOf(s)] + h[s \ {AnyOf(s)}]
  BY DEF Adds!Folds, AddOp
<1>3. ASSUME NEW s \in SUBSET (1 .. n), s # {}, \A x \in s : s \ {x} \in Q
      PROVE  s \in Q
  <2>1. AnyOf(s) \in s
    BY <1>3 DEF AnyOf
  <2>2. s \ {AnyOf(s)} \in Q
    BY <1>3, <2>1
  <2>3. ASSUME s \subseteq S \cap T PROVE f[s] = h[s]
    <3>1. s \in SUBSET S /\ s \in SUBSET T
      BY <2>3
    <3>2. f[s] = F[AnyOf(s)] + f[s \ {AnyOf(s)}] /\ h[s] = F[AnyOf(s)] + h[s \ {AnyOf(s)}]
      BY <1>2, <1>3, <3>1
    <3>3. f[s \ {AnyOf(s)}] = h[s \ {AnyOf(s)}]
      BY <2>2, <2>3
    <3> QED
      BY <3>2, <3>3
  <2> QED
    BY <2>3
<1>4. {} \in Q
  BY <1>1
<1> HIDE DEF Q
<1>5. \A s \in SUBSET (1 .. n) : s \in Q
  BY <1>3, <1>4, SetClimb
<1> QED
  BY <1>5 DEF Q

(* The sum over no element. *)
LEMMA SumEmpty ==
  ASSUME NEW F
  PROVE  SumOf(F, {}) = 0
<1>1. {} \in SUBSET (1 .. 0) /\ 0 \in Nat
  OBVIOUS
<1>2. PICK f : Adds!Folds(F, 0, {}, f) /\ SumOf(F, {}) = f[{}]
  BY <1>1, SumFold
<1> QED
  BY <1>2 DEF Adds!Folds

(* The sum over a set, by the element that is taken first. *)
LEMMA SumPick ==
  ASSUME NEW F, NEW n \in Nat, NEW S \in SUBSET (1 .. n), S # {}
  PROVE  AnyOf(S) \in S /\ SumOf(F, S) = F[AnyOf(S)] + SumOf(F, S \ {AnyOf(S)})
<1>1. AnyOf(S) \in S
  BY DEF AnyOf
<1> DEFINE T == S \ {AnyOf(S)}
<1>2. T \in SUBSET (1 .. n) /\ T \in SUBSET (S \cap T) /\ T \in SUBSET S
  OBVIOUS
<1>3. PICK f : Adds!Folds(F, 0, S, f) /\ SumOf(F, S) = f[S]
  BY SumFold
<1>4. PICK h : Adds!Folds(F, 0, T, h) /\ SumOf(F, T) = h[T]
  BY <1>2, SumFold
<1> HIDE DEF T
<1>5. f[T] = h[T]
  BY <1>2, <1>3, <1>4, FoldUnique
<1>6. f[S] = F[AnyOf(S)] + f[S \ {AnyOf(S)}]
  BY <1>3 DEF Adds!Folds, AddOp
<1> QED
  BY <1>1, <1>3, <1>4, <1>5, <1>6 DEF T

(* A sum of integers is one. *)
LEMMA SumInt ==
  ASSUME NEW F, NEW n \in Nat, NEW S \in SUBSET (1 .. n), Wholes(F, S)
  PROVE  SumOf(F, S) \in Int
<1> DEFINE Q == {s \in SUBSET (1 .. n) : Wholes(F, s) => SumOf(F, s) \in Int}
<1>1. {} \in Q
  BY SumEmpty
<1>2. ASSUME NEW s \in SUBSET (1 .. n), s # {}, \A x \in s : s \ {x} \in Q
      PROVE  s \in Q
  <2>1. AnyOf(s) \in s /\ SumOf(F, s) = F[AnyOf(s)] + SumOf(F, s \ {AnyOf(s)})
    BY <1>2, SumPick
  <2>2. s \ {AnyOf(s)} \in Q
    BY <1>2, <2>1
  <2>3. ASSUME Wholes(F, s) PROVE SumOf(F, s) \in Int
    <3>1. Wholes(F, s \ {AnyOf(s)}) /\ F[AnyOf(s)] \in Int
      BY <2>1, <2>3 DEF Wholes
    <3> QED
      BY <2>1, <2>2, <3>1
  <2> QED
    BY <2>3
<1> HIDE DEF Q
<1>3. S \in Q
  BY <1>1, <1>2, SetClimb
<1> QED
  BY <1>3 DEF Q

(* Any element can be taken first. *)
LEMMA SumRemove ==
  ASSUME NEW F, NEW n \in Nat, NEW S \in SUBSET (1 .. n), Wholes(F, S)
  PROVE  \A x \in S : SumOf(F, S) = F[x] + SumOf(F, S \ {x})
<1> DEFINE Q == {s \in SUBSET (1 .. n) :
                   Wholes(F, s) => \A y \in s : SumOf(F, s) = F[y] + SumOf(F, s \ {y})}
<1>1. {} \in Q
  OBVIOUS
<1>2. ASSUME NEW s \in SUBSET (1 .. n), s # {}, \A y \in s : s \ {y} \in Q
      PROVE  s \in Q
  <2> DEFINE p == AnyOf(s)
  <2>1. p \in s /\ SumOf(F, s) = F[p] + SumOf(F, s \ {p})
    BY <1>2, SumPick
  <2> HIDE DEF p
  <2>2. ASSUME Wholes(F, s), NEW y \in s PROVE SumOf(F, s) = F[y] + SumOf(F, s \ {y})
    <3>1. CASE y = p
      <4>1. SumOf(F, s) = F[p] + SumOf(F, s \ {p})
        BY <2>1
      <4> QED
        BY <3>1, <4>1
    <3>2. CASE y # p
      <4>1. /\ y \in s \ {p} /\ p \in s \ {y} /\ (s \ {p}) \ {y} = (s \ {y}) \ {p}
            /\ Wholes(F, s \ {p}) /\ Wholes(F, s \ {y}) /\ Wholes(F, (s \ {y}) \ {p})
            /\ F[p] \in Int /\ F[y] \in Int
            /\ (s \ {y}) \ {p} \in SUBSET (1 .. n)
        BY <2>1, <2>2, <3>2 DEF Wholes
      <4>2. SumOf(F, s \ {p}) = F[y] + SumOf(F, (s \ {p}) \ {y})
        BY <1>2, <2>1, <4>1
      <4>3. SumOf(F, s \ {y}) = F[p] + SumOf(F, (s \ {y}) \ {p})
        BY <1>2, <2>2, <4>1
      <4>4. SumOf(F, (s \ {y}) \ {p}) \in Int
        BY <4>1, SumInt
      <4>5. \A a, b, r \in Int : a + (b + r) = b + (a + r)
        OBVIOUS
      <4> DEFINE r == SumOf(F, (s \ {y}) \ {p})
      <4>6. SumOf(F, s) = F[p] + (F[y] + r) /\ SumOf(F, s \ {y}) = F[p] + r
        BY <2>1, <4>1, <4>2, <4>3, ZenonT(60)
      <4>7. r \in Int
        BY <4>4
      <4> HIDE DEF r
      <4>8. F[p] + (F[y] + r) = F[y] + (F[p] + r)
        BY <4>1, <4>5, <4>7
      <4> QED
        BY ONLY <4>6, <4>8
    <3> QED
      BY <3>1, <3>2
  <2> QED
    BY <2>2
<1> HIDE DEF Q
<1>3. S \in Q
  BY <1>1, <1>2, SetClimb
<1> QED
  BY <1>3 DEF Q

(* One element more. *)
LEMMA SumAdd ==
  ASSUME NEW F, NEW n \in Nat, NEW S \in SUBSET (1 .. n), NEW x \in 1 .. n, x \notin S,
         Wholes(F, S), F[x] \in Int
  PROVE  SumOf(F, S \cup {x}) = F[x] + SumOf(F, S)
<1> DEFINE T == S \cup {x}
<1>1. T \ {x} = S /\ T \in SUBSET (1 .. n) /\ Wholes(F, T) /\ x \in T
  BY DEF Wholes
<1> HIDE DEF T
<1>2. \A y \in T : SumOf(F, T) = F[y] + SumOf(F, T \ {y})
  BY <1>1, SumRemove, ZenonT(60)
<1>3. SumOf(F, T) = F[x] + SumOf(F, T \ {x})
  BY <1>1, <1>2
<1> QED
  BY <1>1, <1>3 DEF T

(* The sum of G is that of F when they agree, that of F with one more for
   each element of U, the sum of F from the other side when G is -F. *)
LEMMA SumSame ==
  ASSUME NEW F, NEW G, NEW n \in Nat, NEW S \in SUBSET (1 .. n), \A x \in S : F[x] = G[x]
  PROVE  SumOf(F, S) = SumOf(G, S)
<1> DEFINE Q == {s \in SUBSET (1 .. n) : s \subseteq S => SumOf(F, s) = SumOf(G, s)}
<1>1. {} \in Q
  BY SumEmpty
<1>2. ASSUME NEW s \in SUBSET (1 .. n), s # {}, \A x \in s : s \ {x} \in Q
      PROVE  s \in Q
  <2>1. /\ AnyOf(s) \in s /\ SumOf(F, s) = F[AnyOf(s)] + SumOf(F, s \ {AnyOf(s)})
        /\ SumOf(G, s) = G[AnyOf(s)] + SumOf(G, s \ {AnyOf(s)})
    BY <1>2, SumPick
  <2>2. s \ {AnyOf(s)} \in Q
    BY <1>2, <2>1
  <2> QED
    BY <2>1, <2>2
<1> HIDE DEF Q
<1>3. S \in Q
  BY <1>1, <1>2, SetClimb
<1> QED
  BY <1>3 DEF Q

Bumps(F, G, U, S) ==
  /\ Wholes(F, S) /\ \A x \in S : G[x] = IF x \in U THEN F[x] + 1 ELSE F[x]
BumpSum(F, G, U, S) == SumOf(G, S) = SumOf(F, S) + Cardinality(S \cap U)

(* When F is one less than G on the elements of U, and equal elsewhere, the
   sums differ by how many of U there are. *)
LEMMA BumpedSum ==
  ASSUME NEW F, NEW G, NEW U, NEW n \in Nat, NEW S \in SUBSET (1 .. n), Bumps(F, G, U, S)
  PROVE  BumpSum(F, G, U, S)
<1> USE DEF Bumps, BumpSum
<1> DEFINE Q == {s \in SUBSET (1 .. n) :
                   s \subseteq S => SumOf(G, s) = SumOf(F, s) + Cardinality(s \cap U)}
<1>1. {} \in Q
  <2>1. {} \cap U = {}
    OBVIOUS
  <2> QED
    BY <2>1, SumEmpty, FS_EmptySet
<1>2. ASSUME NEW s \in SUBSET (1 .. n), s # {}, \A x \in s : s \ {x} \in Q
      PROVE  s \in Q
  <2>1. ASSUME s \subseteq S PROVE SumOf(G, s) = SumOf(F, s) + Cardinality(s \cap U)
    <3> DEFINE p == AnyOf(s)
    <3>1. /\ p \in s /\ SumOf(F, s) = F[p] + SumOf(F, s \ {p})
          /\ SumOf(G, s) = G[p] + SumOf(G, s \ {p})
      BY <1>2, SumPick
    <3> HIDE DEF p
    <3>2. SumOf(G, s \ {p}) = SumOf(F, s \ {p}) + Cardinality((s \ {p}) \cap U)
      BY <1>2, <2>1, <3>1
    <3>3. SumOf(F, s \ {p}) \in Int
      BY <1>2, <2>1, SumInt DEF Wholes
    <3>4. F[p] \in Int /\ G[p] = IF p \in U THEN F[p] + 1 ELSE F[p]
      BY <2>1, <3>1 DEF Wholes
    <3>5. IsFiniteSet(s \cap U)
      <4>1. IsFiniteSet(1 .. n)
        BY FS_Interval
      <4>2. s \cap U \in SUBSET (1 .. n)
        OBVIOUS
      <4> QED
        BY <4>1, <4>2, FS_Subset
    <3>6. (s \ {p}) \cap U = (s \cap U) \ {p}
      OBVIOUS
    <3>7. /\ Cardinality(s \cap U) \in Nat
          /\ Cardinality((s \ {p}) \cap U)
               = IF p \in s \cap U THEN Cardinality(s \cap U) - 1 ELSE Cardinality(s \cap U)
      BY <3>5, <3>6, FS_RemoveElement, FS_CardinalityType
    <3> QED
      BY <3>1, <3>2, <3>3, <3>4, <3>7
  <2> QED
    BY <2>1
<1> HIDE DEF Q
<1>3. S \in Q
  BY <1>1, <1>2, SetClimb
<1> QED
  BY <1>3 DEF Q

(* The sum of what is negated. *)
LEMMA SumNegated ==
  ASSUME NEW F, NEW G, NEW n \in Nat, NEW S \in SUBSET (1 .. n), Wholes(F, S),
         \A x \in S : G[x] = -F[x]
  PROVE  SumOf(G, S) = -SumOf(F, S)
<1> DEFINE Q == {s \in SUBSET (1 .. n) : s \subseteq S => SumOf(G, s) = -SumOf(F, s)}
<1>1. {} \in Q
  BY SumEmpty
<1>2. ASSUME NEW s \in SUBSET (1 .. n), s # {}, \A x \in s : s \ {x} \in Q
      PROVE  s \in Q
  <2>1. ASSUME s \subseteq S PROVE SumOf(G, s) = -SumOf(F, s)
    <3> DEFINE p == AnyOf(s)
    <3>1. /\ p \in s /\ SumOf(F, s) = F[p] + SumOf(F, s \ {p})
          /\ SumOf(G, s) = G[p] + SumOf(G, s \ {p})
      BY <1>2, SumPick
    <3> HIDE DEF p
    <3>2. SumOf(G, s \ {p}) = -SumOf(F, s \ {p})
      BY <1>2, <2>1, <3>1
    <3>3. SumOf(F, s \ {p}) \in Int
      BY <1>2, <2>1, SumInt DEF Wholes
    <3>4. F[p] \in Int /\ G[p] = -F[p]
      BY <2>1, <3>1 DEF Wholes
    <3> QED
      BY <3>1, <3>2, <3>3, <3>4
  <2> QED
    BY <2>1
<1> HIDE DEF Q
<1>3. S \in Q
  BY <1>1, <1>2, SetClimb
<1> QED
  BY <1>3 DEF Q

(* One of the numbers changes. *)
LEMMA SumChange ==
  ASSUME NEW F, NEW G, NEW n \in Nat, NEW S \in SUBSET (1 .. n), NEW x \in 1 .. n,
         Wholes(F, S), Wholes(G, S), \A y \in S : y # x => F[y] = G[y]
  PROVE  SumOf(G, S) = IF x \in S THEN SumOf(F, S) + (G[x] - F[x]) ELSE SumOf(F, S)
<1>1. CASE x \notin S
  BY <1>1, SumSame
<1>2. CASE x \in S
  <2> DEFINE T == S \ {x}
  <2>1. /\ T \in SUBSET (1 .. n) /\ Wholes(F, T) /\ F[x] \in Int /\ G[x] \in Int
        /\ \A y \in T : F[y] = G[y]
    BY <1>2 DEF Wholes
  <2>2. \A y \in S : SumOf(F, S) = F[y] + SumOf(F, S \ {y})
    BY SumRemove, ZenonT(60)
  <2>5. \A y \in S : SumOf(G, S) = G[y] + SumOf(G, S \ {y})
    BY SumRemove, ZenonT(60)
  <2>6. SumOf(F, S) = F[x] + SumOf(F, T) /\ SumOf(G, S) = G[x] + SumOf(G, T)
    BY <1>2, <2>2, <2>5
  <2> HIDE DEF T
  <2>3. SumOf(F, T) = SumOf(G, T)
    BY <2>1, SumSame
  <2>4. SumOf(F, T) \in Int
    BY <2>1, SumInt
  <2> QED
    BY <1>2, <2>1, <2>3, <2>4, <2>6
<1> QED
  BY <1>1, <1>2

-----------------------------------------------------------------------------
(* The lists with positions. *)

(* The lists with positions. *)
Lists(S) == [items : Seq(S), at : [S -> Nat]]

(* A list whose positions are right repeats nothing. *)
LEMMA ListedDistinct ==
  ASSUME NEW X, NEW l \in Lists(X), NEW S, Listed(l, S)
  PROVE  Distinct(l.items) /\ IsFiniteSet(S)
<1>1. Distinct(l.items)
  BY DEF Distinct, Listed
<1>2. l.items \in Seq(X)
  BY DEF Lists
<1> QED
  BY <1>1, <1>2, DistinctLength DEF Listed

(* Push keeps the positions right (the push_back and index assignment of
   unsat_a_clause, ccnr.cc). *)
LEMMA Pushed ==
  ASSUME NEW X, NEW l \in Lists(X), NEW S, Listed(l, S), NEW x \in X, x \notin S
  PROVE  Push(l, x) \in Lists(X) /\ Listed(Push(l, x), S \cup {x})
<1> DEFINE items == Append(l.items, x)
           at == [l.at EXCEPT ![x] = Len(l.items) + 1]
<1>1. l.items \in Seq(X) /\ l.at \in [X -> Nat] /\ Len(l.items) \in Nat
      /\ DOMAIN l.items = 1 .. Len(l.items)
  BY DEF Lists
<1>2. /\ items \in Seq(X) /\ Len(items) = Len(l.items) + 1 /\ DOMAIN items = 1 .. Len(l.items) + 1
      /\ \A i \in 1 .. Len(l.items) : items[i] = l.items[i]
      /\ items[Len(l.items) + 1] = x
      /\ ToSet(items) = ToSet(l.items) \cup {x}
  BY <1>1, Appended
<1>3. at \in [X -> Nat] /\ at[x] = Len(l.items) + 1 /\ \A y \in X : y # x => at[y] = l.at[y]
  BY <1>1
<1>4. ToSet(l.items) = S /\ Len(l.items) = Cardinality(S) /\ \A i \in DOMAIN l.items : l.at[l.items[i]] = i
  BY DEF Listed
<1>5. Push(l, x) = [items |-> items, at |-> at]
  BY DEF Push
<1> HIDE DEF items, at
<1>6. Push(l, x) \in Lists(X) /\ Push(l, x).items = items /\ Push(l, x).at = at
  BY <1>2, <1>3, <1>5 DEF Lists
<1>7. IsFiniteSet(S) /\ Cardinality(S \cup {x}) = Cardinality(S) + 1
  BY ListedDistinct, FS_AddElement
<1>8. ASSUME NEW i \in DOMAIN items PROVE at[items[i]] = i
  <2>1. CASE i \in 1 .. Len(l.items)
    <3>1. items[i] = l.items[i] /\ l.items[i] \in S /\ l.items[i] \in X
      BY <1>1, <1>2, <1>4, <2>1 DEF ToSet
    <3> QED
      BY <1>1, <1>3, <1>4, <2>1, <3>1
  <2>2. CASE i = Len(l.items) + 1
    BY <1>2, <1>3, <2>2
  <2> QED
    BY <1>1, <1>2, <2>1, <2>2
<1> QED
  BY <1>2, <1>4, <1>6, <1>7, <1>8 DEF Listed

(* The last element takes the place of the one that leaves. *)
SwapOut(l, k) ==
  LET left == Front(l) IN IF k \in DOMAIN left THEN [left EXCEPT ![k] = Last(l)] ELSE left

(* A sequence whose element k was overwritten by the last one. *)
LEMMA SwappedOut ==
  ASSUME NEW X, NEW l \in Seq(X), Distinct(l), NEW k \in DOMAIN l
  PROVE  /\ Len(l) \in Nat \ {0} /\ k \in 1 .. Len(l)
         /\ SwapOut(l, k) \in Seq(X) /\ Len(SwapOut(l, k)) = Len(l) - 1
         /\ DOMAIN SwapOut(l, k) = 1 .. Len(l) - 1
         /\ \A i \in 1 .. Len(l) - 1 : SwapOut(l, k)[i] = IF i = k THEN l[Len(l)] ELSE l[i]
         /\ Distinct(SwapOut(l, k)) /\ ToSet(SwapOut(l, k)) = ToSet(l) \ {l[k]}
<1> DEFINE n == Len(l)
           left == Front(l)
           items == SwapOut(l, k)
<1>1. n \in Nat /\ DOMAIN l = 1 .. n
  OBVIOUS
<1>3. k \in 1 .. n /\ n # 0
  BY <1>1
<1>4. left \in Seq(X) /\ DOMAIN left = 1 .. n - 1 /\ Len(left) = n - 1
      /\ \A i \in 1 .. n - 1 : left[i] = l[i]
  BY <1>1, <1>3 DEF Front
<1>5. Last(l) = l[n] /\ l[n] \in X
  BY <1>1, <1>3 DEF Last
<1>6. items = IF k \in DOMAIN left THEN [left EXCEPT ![k] = l[n]] ELSE left
  BY <1>5 DEF SwapOut
<1> HIDE DEF n, left, items
<1>7. /\ items \in Seq(X) /\ DOMAIN items = 1 .. n - 1 /\ Len(items) = n - 1
      /\ \A i \in 1 .. n - 1 : items[i] = IF i = k THEN l[n] ELSE l[i]
  BY <1>4, <1>5, <1>6
<1>11. \A i, j \in 1 .. n : l[i] = l[j] => i = j
  BY <1>1 DEF Distinct
<1>12. \A i \in 1 .. n - 1 : i \in 1 .. n /\ i # n
  BY <1>1
<1>13. n \in 1 .. n
  BY <1>1, <1>3
<1>14. Distinct(items)
  <2>1. ASSUME NEW i \in 1 .. n - 1, NEW j \in 1 .. n - 1, items[i] = items[j] PROVE i = j
    BY <1>7, <1>11, <1>12, <1>13, <2>1
  <2> QED
    BY <1>7, <2>1 DEF Distinct
<1>15. ToSet(items) = ToSet(l) \ {l[k]}
  <2>1. ASSUME NEW i \in 1 .. n - 1 PROVE items[i] \in ToSet(l) \ {l[k]}
    <3>1. CASE i = k
      <4>1. items[i] = l[n] /\ l[n] \in ToSet(l) /\ n # k
        BY <1>1, <1>7, <1>12, <1>13, <3>1 DEF ToSet
      <4> QED
        BY <1>3, <1>11, <1>13, <4>1
    <3>2. CASE i # k
      <4>1. items[i] = l[i] /\ l[i] \in ToSet(l)
        BY <1>1, <1>7, <1>12, <3>2 DEF ToSet
      <4> QED
        BY <1>3, <1>11, <1>12, <3>2, <4>1
    <3> QED
      BY <3>1, <3>2
  <2>2. ASSUME NEW y \in ToSet(l) \ {l[k]} PROVE \E i \in 1 .. n - 1 : items[i] = y
    <3>1. PICK i \in 1 .. n : l[i] = y
      BY <1>1 DEF ToSet
    <3>2. i # k
      BY <3>1
    <3>3. CASE i = n
      <4>1. k \in 1 .. n - 1
        BY <1>1, <1>3, <3>2, <3>3
      <4> QED
        BY <1>7, <3>1, <3>3, <4>1
    <3>4. CASE i # n
      <4>1. i \in 1 .. n - 1
        BY <1>1, <3>4
      <4> QED
        BY <1>7, <3>1, <3>2, <4>1
    <3> QED
      BY <3>3, <3>4
  <2>3. ToSet(items) = {items[i] : i \in 1 .. n - 1}
    BY <1>7 DEF ToSet
  <2> HIDE DEF items, n
  <2> QED
    BY <2>1, <2>2, <2>3
<1> QED
  BY <1>1, <1>3, <1>7, <1>14, <1>15 DEF n, items

(* Drop keeps the positions right: the last element moves to the place of
   the one that goes (sat_a_clause). *)
LEMMA Dropped ==
  ASSUME NEW X, NEW l \in Lists(X), NEW S, Listed(l, S), NEW x \in S
  PROVE  Drop(l, x) \in Lists(X) /\ Listed(Drop(l, x), S \ {x})
<1> DEFINE n == Len(l.items)
           k == l.at[x]
           items == SwapOut(l.items, k)
           at == [l.at EXCEPT ![Last(l.items)] = k]
<1>1. l.items \in Seq(X) /\ l.at \in [X -> Nat] /\ n \in Nat
      /\ DOMAIN l.items = 1 .. n
  BY DEF Lists
<1>2. ToSet(l.items) = S /\ n = Cardinality(S) /\ \A i \in 1 .. n : l.at[l.items[i]] = i
  BY <1>1 DEF Listed
<1>3. k \in 1 .. n /\ l.items[k] = x
  <2>1. PICK i \in 1 .. n : l.items[i] = x
    BY <1>1, <1>2 DEF ToSet
  <2> QED
    BY <1>2, <2>1
<1>4. Distinct(l.items) /\ IsFiniteSet(S)
  BY ListedDistinct
<1>5. Last(l.items) = l.items[n] /\ l.items[n] \in X
  BY <1>1, <1>3 DEF Last
<1>6. Drop(l, x) = [items |-> items, at |-> at]
  BY DEF Drop, SwapOut
<1> HIDE DEF k, n
<1>7. /\ items \in Seq(X) /\ DOMAIN items = 1 .. n - 1 /\ Len(items) = n - 1
      /\ \A i \in 1 .. n - 1 : items[i] = IF i = k THEN l.items[n] ELSE l.items[i]
      /\ ToSet(items) = S \ {x}
  <2> DEFINE q == l.items
  <2>1. q \in Seq(X) /\ Distinct(q) /\ k \in DOMAIN q
    BY <1>1, <1>3, <1>4
  <2> HIDE DEF q
  <2>2. /\ SwapOut(q, k) \in Seq(X) /\ Len(SwapOut(q, k)) = Len(q) - 1
        /\ DOMAIN SwapOut(q, k) = 1 .. Len(q) - 1
        /\ \A i \in 1 .. Len(q) - 1 : SwapOut(q, k)[i] = IF i = k THEN q[Len(q)] ELSE q[i]
        /\ ToSet(SwapOut(q, k)) = ToSet(q) \ {q[k]}
    BY <2>1, SwappedOut
  <2> QED
    BY <1>2, <1>3, <2>2 DEF q, n
<1>8. at \in [X -> Nat] /\ at[l.items[n]] = k /\ \A y \in X : y # l.items[n] => at[y] = l.at[y]
  BY <1>1, <1>3, <1>5
<1> HIDE DEF items, at
<1>9. Drop(l, x) \in Lists(X) /\ Drop(l, x).items = items /\ Drop(l, x).at = at
  BY <1>6, <1>7, <1>8 DEF Lists
<1>10. Cardinality(S \ {x}) = Cardinality(S) - 1
  BY <1>4, FS_RemoveElement
<1>11. \A i, j \in 1 .. n : l.items[i] = l.items[j] => i = j
  BY <1>2
<1>12. \A i \in 1 .. n - 1 : i \in 1 .. n /\ i # n /\ l.items[i] \in X
  BY <1>1
<1>13. n \in 1 .. n
  BY <1>1, <1>3
<1>14. ASSUME NEW i \in 1 .. n - 1 PROVE at[items[i]] = i
  <2>1. CASE i = k
    BY <1>7, <1>8, <2>1
  <2>2. CASE i # k
    <3>1. items[i] = l.items[i] /\ l.items[i] # l.items[n]
      BY <1>7, <1>11, <1>12, <1>13, <2>2
    <3> QED
      BY <1>2, <1>8, <1>12, <3>1
  <2> QED
    BY <2>1, <2>2
<1> QED
  BY <1>2, <1>7, <1>9, <1>10, <1>14 DEF Listed

-----------------------------------------------------------------------------
(* The state of the local search, and the problem it was given. *)

Fields == {"clauses", "solution", "sat_count", "sat_var", "weight", "unsat_clauses",
           "unsat_vars", "unsat_appear", "score", "last_flip_step", "cc_value", "in_ccd",
           "ccd_vars", "avg", "delta", "mems"}
Rec(s) == s = [f \in Fields |-> s[f]]
(* t is s but for the fields of N. *)
Same(t, s, N) == Rec(t) /\ \A f \in Fields \ N : t[f] = s[f]

(* The clauses and the variables of a search. *)
Problem(cs, V) ==
  /\ V \in SUBSET Vars
  /\ cs \in Seq(Seq(Lits))
  /\ \A c \in DOMAIN cs :
       /\ cs[c] # <<>>
       /\ \A i \in DOMAIN cs[c] : Var(cs[c][i]) \in V
       /\ \A i, j \in DOMAIN cs[c] : Var(cs[c][i]) = Var(cs[c][j]) => i = j

(* There are finitely many variables. *)
LEMMA VarsFinite ==
  ASSUME NEW V \in SUBSET Vars
  PROVE  IsFiniteSet(V)
<1>1. IsFiniteSet(Vars)
  BY NVarsAssumption, FS_Interval DEF Vars
<1> QED
  BY <1>1, FS_Subset

(* Clauses and the variables in them. *)
LEMMA ProblemFacts ==
  ASSUME NEW s, NEW V, Problem(s.clauses, V)
  PROVE  /\ Len(s.clauses) \in Nat /\ ClausesOf(s) = 1 .. Len(s.clauses) /\ IsFiniteSet(ClausesOf(s))
         /\ \A c \in ClausesOf(s) :
              /\ ClauseVars(s, c) \in Seq(V) /\ Distinct(ClauseVars(s, c))
              /\ Len(ClauseVars(s, c)) \in Nat \ {0}
              /\ DOMAIN ClauseVars(s, c) = 1 .. Len(ClauseVars(s, c))
              /\ DOMAIN s.clauses[c] = DOMAIN ClauseVars(s, c)
              /\ \A i \in DOMAIN ClauseVars(s, c) : ClauseVars(s, c)[i] = Var(s.clauses[c][i])
<1>1. Len(s.clauses) \in Nat /\ ClausesOf(s) = 1 .. Len(s.clauses)
  BY DEF Problem, ClausesOf
<1>2. IsFiniteSet(ClausesOf(s))
  BY <1>1, FS_Interval
<1>3. ASSUME NEW c \in ClausesOf(s)
      PROVE  /\ ClauseVars(s, c) \in Seq(V) /\ Distinct(ClauseVars(s, c))
             /\ Len(ClauseVars(s, c)) \in Nat \ {0}
             /\ DOMAIN ClauseVars(s, c) = 1 .. Len(ClauseVars(s, c))
             /\ DOMAIN s.clauses[c] = DOMAIN ClauseVars(s, c)
             /\ \A i \in DOMAIN ClauseVars(s, c) : ClauseVars(s, c)[i] = Var(s.clauses[c][i])
  <2> DEFINE cl == s.clauses[c]
             vs == ClauseVars(s, c)
  <2>1. cl \in Seq(Lits) /\ cl # <<>> /\ (\A i \in DOMAIN cl : Var(cl[i]) \in V)
        /\ \A i, j \in DOMAIN cl : Var(cl[i]) = Var(cl[j]) => i = j
    BY DEF Problem, ClausesOf
  <2>2. vs = [i \in DOMAIN cl |-> Var(cl[i])]
    BY DEF ClauseVars
  <2> HIDE DEF cl, vs
  <2>3. Len(cl) \in Nat \ {0} /\ DOMAIN cl = 1 .. Len(cl)
    BY <2>1
  <2>4. vs \in [1 .. Len(cl) -> V] /\ DOMAIN vs = DOMAIN cl /\ \A i \in DOMAIN cl : vs[i] = Var(cl[i])
    BY <2>1, <2>2, <2>3
  <2>5. vs \in Seq(V) /\ Len(vs) = Len(cl)
    BY <2>3, <2>4
  <2>6. Distinct(vs)
    BY <2>1, <2>4 DEF Distinct
  <2> QED
    BY <2>3, <2>4, <2>5, <2>6 DEF cl, vs
<1> QED
  BY <1>1, <1>2, <1>3

-----------------------------------------------------------------------------
(* The variables that appear in unsatisfied clauses, and their list. *)
Appearing(t, V) ==
  /\ Rec(t)
  /\ t.unsat_appear \in [V -> Nat]
  /\ t.unsat_vars \in Lists(V)
  /\ Listed(t.unsat_vars, {v \in V : t.unsat_appear[v] > 0})

AppearStep(t, v) ==
  LET u == Appears(t, v, 1) IN
    IF u.unsat_appear[v] = 1 THEN [u EXCEPT !.unsat_vars = Push(@, v)] ELSE u
VanishStep(t, v) ==
  LET u == Appears(t, v, -1) IN
    IF u.unsat_appear[v] = 0 THEN [u EXCEPT !.unsat_vars = Drop(@, v)] ELSE u

(* Appears changes one counter. *)
LEMMA AppearsFacts ==
  ASSUME NEW t, Rec(t), NEW V, t.unsat_appear \in [V -> Nat], NEW v \in V, NEW n \in Int
  PROVE  /\ Same(Appears(t, v, n), t, {"unsat_appear"})
         /\ Appears(t, v, n).unsat_appear = [t.unsat_appear EXCEPT ![v] = @ + n]
BY DEF Appears, Rec, Same, Fields

(* Replacing the list. *)
LEMMA UnsatVarsFacts ==
  ASSUME NEW t, Rec(t), NEW l
  PROVE  /\ Same([t EXCEPT !.unsat_vars = l], t, {"unsat_vars"})
         /\ [t EXCEPT !.unsat_vars = l].unsat_vars = l
BY DEF Rec, Same, Fields

(* unsat_a_clause, for one variable: listed when its counter was zero. *)
LEMMA AppearStepFacts ==
  ASSUME NEW V, NEW t, Appearing(t, V), NEW v \in V
  PROVE  /\ Appearing(AppearStep(t, v), V)
         /\ Same(AppearStep(t, v), t, {"unsat_appear", "unsat_vars"})
         /\ \A x \in V : AppearStep(t, v).unsat_appear[x] =
             IF x = v THEN t.unsat_appear[x] + 1 ELSE t.unsat_appear[x]
<1> DEFINE u == Appears(t, v, 1)
           U == {x \in V : t.unsat_appear[x] > 0}
           W == {x \in V : u.unsat_appear[x] > 0}
           w == AppearStep(t, v)
<1>1. /\ Rec(t) /\ t.unsat_appear \in [V -> Nat] /\ t.unsat_vars \in Lists(V)
      /\ Listed(t.unsat_vars, U)
  BY DEF Appearing
<1>2. /\ Same(u, t, {"unsat_appear"}) /\ u.unsat_appear = [t.unsat_appear EXCEPT ![v] = @ + 1]
  BY <1>1, AppearsFacts
<1>3. u.unsat_vars = t.unsat_vars /\ Rec(u)
  BY <1>2 DEF Same, Fields
<1>4. w = IF u.unsat_appear[v] = 1 THEN [u EXCEPT !.unsat_vars = Push(t.unsat_vars, v)] ELSE u
  BY <1>3 DEF AppearStep
<1> HIDE DEF u, w
<1>5. u.unsat_appear \in [V -> Nat] /\ u.unsat_appear[v] = t.unsat_appear[v] + 1
      /\ \A x \in V : x # v => u.unsat_appear[x] = t.unsat_appear[x]
  BY <1>1, <1>2
<1>6. W = U \cup {v} /\ (u.unsat_appear[v] = 1 <=> v \notin U)
  BY <1>1, <1>5
<1> HIDE DEF U, W
<1>7. CASE u.unsat_appear[v] = 1
  <2>1. w = [u EXCEPT !.unsat_vars = Push(t.unsat_vars, v)]
    BY <1>4, <1>7
  <2>2. Same(w, u, {"unsat_vars"}) /\ w.unsat_vars = Push(t.unsat_vars, v)
    BY <1>3, <2>1, UnsatVarsFacts
  <2>3. Push(t.unsat_vars, v) \in Lists(V) /\ Listed(Push(t.unsat_vars, v), W)
    BY <1>1, <1>6, <1>7, Pushed
  <2>4. w.unsat_appear = u.unsat_appear /\ Rec(w)
    BY <2>2 DEF Same, Fields
  <2>5. Appearing(w, V)
    BY <1>5, <2>2, <2>3, <2>4 DEF Appearing, W
  <2>6. Same(w, t, {"unsat_appear", "unsat_vars"})
    BY <1>2, <2>2 DEF Same
  <2> QED
    BY <1>5, <2>4, <2>5, <2>6 DEF w
<1>8. CASE u.unsat_appear[v] # 1
  <2>1. w = u /\ W = U
    BY <1>4, <1>6, <1>8
  <2>2. Appearing(w, V)
    BY <1>1, <1>3, <1>5, <2>1 DEF Appearing, W
  <2>3. Same(w, t, {"unsat_appear", "unsat_vars"})
    BY <1>2, <2>1 DEF Same
  <2> QED
    BY <1>5, <2>1, <2>2, <2>3 DEF w
<1> QED
  BY <1>7, <1>8

(* sat_a_clause, for one variable: it goes from the list when its counter
   becomes zero. *)
LEMMA VanishStepFacts ==
  ASSUME NEW V, NEW t, Appearing(t, V), NEW v \in V, t.unsat_appear[v] > 0
  PROVE  /\ Appearing(VanishStep(t, v), V)
         /\ Same(VanishStep(t, v), t, {"unsat_appear", "unsat_vars"})
         /\ \A x \in V : VanishStep(t, v).unsat_appear[x] =
             IF x = v THEN t.unsat_appear[x] - 1 ELSE t.unsat_appear[x]
<1> DEFINE u == Appears(t, v, -1)
           U == {x \in V : t.unsat_appear[x] > 0}
           W == {x \in V : u.unsat_appear[x] > 0}
           w == VanishStep(t, v)
<1>1. /\ Rec(t) /\ t.unsat_appear \in [V -> Nat] /\ t.unsat_vars \in Lists(V)
      /\ Listed(t.unsat_vars, U)
  BY DEF Appearing
<1>2. /\ Same(u, t, {"unsat_appear"}) /\ u.unsat_appear = [t.unsat_appear EXCEPT ![v] = @ + (-1)]
  BY <1>1, AppearsFacts
<1>3. u.unsat_vars = t.unsat_vars /\ Rec(u)
  BY <1>2 DEF Same, Fields
<1>4. w = IF u.unsat_appear[v] = 0 THEN [u EXCEPT !.unsat_vars = Drop(t.unsat_vars, v)] ELSE u
  BY <1>3 DEF VanishStep
<1> HIDE DEF u, w
<1>5. u.unsat_appear \in [V -> Nat] /\ u.unsat_appear[v] = t.unsat_appear[v] - 1
      /\ \A x \in V : x # v => u.unsat_appear[x] = t.unsat_appear[x]
  BY <1>1, <1>2
<1>6. v \in U /\ W = IF u.unsat_appear[v] = 0 THEN U \ {v} ELSE U
  BY <1>1, <1>5
<1> HIDE DEF U, W
<1>7. CASE u.unsat_appear[v] = 0
  <2>1. w = [u EXCEPT !.unsat_vars = Drop(t.unsat_vars, v)]
    BY <1>4, <1>7
  <2>2. Same(w, u, {"unsat_vars"}) /\ w.unsat_vars = Drop(t.unsat_vars, v)
    BY <1>3, <2>1, UnsatVarsFacts
  <2>3. Drop(t.unsat_vars, v) \in Lists(V) /\ Listed(Drop(t.unsat_vars, v), W)
    BY <1>1, <1>6, <1>7, Dropped
  <2>4. w.unsat_appear = u.unsat_appear /\ Rec(w)
    BY <2>2 DEF Same, Fields
  <2>5. Appearing(w, V)
    BY <1>5, <2>2, <2>3, <2>4 DEF Appearing, W
  <2>6. Same(w, t, {"unsat_appear", "unsat_vars"})
    BY <1>2, <2>2 DEF Same
  <2> QED
    BY <1>5, <2>4, <2>5, <2>6 DEF w
<1>8. CASE u.unsat_appear[v] # 0
  <2>1. w = u /\ W = U
    BY <1>4, <1>6, <1>8
  <2>2. Appearing(w, V)
    BY <1>1, <1>3, <1>5, <2>1 DEF Appearing, W
  <2>3. Same(w, t, {"unsat_appear", "unsat_vars"})
    BY <1>2, <2>1 DEF Same
  <2> QED
    BY <1>5, <2>1, <2>2, <2>3 DEF w
<1> QED
  BY <1>7, <1>8

AppearOp(vs, t, k) == AppearStep(t, vs[k])
Appear == INSTANCE FoldTheorems WITH op <- AppearOp, pick <- Top
VanishOp(vs, t, k) == VanishStep(t, vs[k])
Vanish == INSTANCE FoldTheorems WITH op <- VanishOp, pick <- Top

AppearAll(s, vs) == FoldLeft(AppearStep, s, vs)

(* unsat_a_clause, variable by variable. *)
LEMMA AppearTrace ==
  ASSUME NEW n \in Nat, NEW vs, DOMAIN vs = 1 .. n, NEW s
  PROVE  \E g : /\ g[0] = s
                /\ \A k \in 1 .. n : g[k] = AppearStep(g[k - 1], vs[k])
                /\ AppearAll(s, vs) = g[n]
<1> DEFINE f == CHOOSE f : Appear!Folds(vs, s, 1 .. n, f)
<1>1. \A S : Top(S) = Appear!Largest(S)
  BY DEF Top, Appear!Largest
<1>2. AppearAll(s, vs) = f[1 .. n]
  BY DEF AppearAll, AppearOp, Top, Appear!Folds, FoldLeft, MapThenFoldSet, Max
<1>3. \E h : Appear!Folds(vs, s, 1 .. n, h)
  BY <1>1, Least, Appear!SequenceFold
<1>4. Appear!Folds(vs, s, 1 .. n, f)
  BY <1>3
<1> HIDE DEF f
<1>5. PICK g : Appear!Trace(vs, s, n, g) /\ g[n] = f[1 .. n]
  BY <1>1, <1>4, Appear!SequenceTrace
<1> QED
  BY <1>2, <1>5 DEF Appear!Trace, AppearOp

VanishAll(s, vs) == FoldLeft(VanishStep, s, vs)

(* sat_a_clause, variable by variable. *)
LEMMA VanishTrace ==
  ASSUME NEW n \in Nat, NEW vs, DOMAIN vs = 1 .. n, NEW s
  PROVE  \E g : /\ g[0] = s
                /\ \A k \in 1 .. n : g[k] = VanishStep(g[k - 1], vs[k])
                /\ VanishAll(s, vs) = g[n]
<1> DEFINE f == CHOOSE f : Vanish!Folds(vs, s, 1 .. n, f)
<1>1. \A S : Top(S) = Vanish!Largest(S)
  BY DEF Top, Vanish!Largest
<1>2. VanishAll(s, vs) = f[1 .. n]
  BY DEF VanishAll, VanishOp, Top, Vanish!Folds, FoldLeft, MapThenFoldSet, Max
<1>3. \E h : Vanish!Folds(vs, s, 1 .. n, h)
  BY <1>1, Least, Vanish!SequenceFold
<1>4. Vanish!Folds(vs, s, 1 .. n, f)
  BY <1>3
<1> HIDE DEF f
<1>5. PICK g : Vanish!Trace(vs, s, n, g) /\ g[n] = f[1 .. n]
  BY <1>1, <1>4, Vanish!SequenceTrace
<1> QED
  BY <1>2, <1>5 DEF Vanish!Trace, VanishOp

-----------------------------------------------------------------------------
(* All the variables of a clause, each once. *)
LEMMA AllAppear ==
  ASSUME NEW V, NEW s, Appearing(s, V), NEW vs \in Seq(V), Distinct(vs), NEW t,
         t = AppearAll(s, vs)
  PROVE  /\ Appearing(t, V)
         /\ Same(t, s, {"unsat_appear", "unsat_vars"})
         /\ \A v \in V : t.unsat_appear[v] =
              IF v \in ToSet(vs) THEN s.unsat_appear[v] + 1 ELSE s.unsat_appear[v]
<1> DEFINE n == Len(vs)
           Upto(k) == {vs[i] : i \in 1 .. k}
<1>1. n \in Nat /\ DOMAIN vs = 1 .. n
  OBVIOUS
<1>2. PICK g : /\ g[0] = s
               /\ \A k \in 1 .. n : g[k] = AppearStep(g[k - 1], vs[k])
               /\ t = g[n]
  BY <1>1, AppearTrace
<1> DEFINE good(k) == /\ Appearing(g[k], V)
                      /\ Same(g[k], s, {"unsat_appear", "unsat_vars"})
                      /\ \A v \in V : g[k].unsat_appear[v] =
                           IF v \in Upto(k) THEN s.unsat_appear[v] + 1 ELSE s.unsat_appear[v]
           G == {k \in 0 .. n : good(k)}
<1>3. 0 \in G
  <2>1. Upto(0) = {} /\ 0 \in 0 .. n
    BY <1>1
  <2>2. Same(s, s, {"unsat_appear", "unsat_vars"})
    BY DEF Appearing, Same
  <2> HIDE DEF Upto, n
  <2> QED
    BY <1>2, <2>1, <2>2
<1>4. ASSUME NEW k \in 1 .. n, k - 1 \in G PROVE k \in G
  <2>1. k \in 0 .. n /\ good(k - 1)
    BY <1>4
  <2>2. Upto(k) = Upto(k - 1) \cup {vs[k]} /\ vs[k] \notin Upto(k - 1) /\ vs[k] \in V
    <3>1. \A i \in 1 .. k : i \in 1 .. k - 1 \/ i = k
      OBVIOUS
    <3>2. k \in 1 .. k /\ \A i \in 1 .. k - 1 : i \in 1 .. k /\ i # k /\ i \in 1 .. n
      OBVIOUS
    <3> QED
      BY <1>1, <3>1, <3>2 DEF Distinct
  <2> DEFINE u == g[k - 1]
             w == g[k]
  <2>3. w = AppearStep(u, vs[k])
    BY <1>2
  <2>4. /\ Appearing(u, V) /\ Same(u, s, {"unsat_appear", "unsat_vars"})
        /\ \A v \in V : u.unsat_appear[v] =
             IF v \in Upto(k - 1) THEN s.unsat_appear[v] + 1 ELSE s.unsat_appear[v]
    BY <2>1
  <2> HIDE DEF u, w, Upto
  <2>5. /\ Appearing(w, V) /\ Same(w, u, {"unsat_appear", "unsat_vars"})
        /\ \A x \in V : w.unsat_appear[x] =
             IF x = vs[k] THEN u.unsat_appear[x] + 1 ELSE u.unsat_appear[x]
    <3> DEFINE v == vs[k]
    <3>1. v \in V /\ w = AppearStep(u, v) /\ Appearing(u, V)
      BY <2>2, <2>3, <2>4
    <3> HIDE DEF v
    <3>2. /\ Appearing(w, V) /\ Same(w, u, {"unsat_appear", "unsat_vars"})
          /\ \A x \in V : w.unsat_appear[x] =
               IF x = v THEN u.unsat_appear[x] + 1 ELSE u.unsat_appear[x]
      BY <3>1, AppearStepFacts
    <3> QED
      BY <3>2 DEF v
  <2>6. u.unsat_appear \in [V -> Nat]
    BY <2>4 DEF Appearing
  <2>7. Same(w, s, {"unsat_appear", "unsat_vars"})
    BY <2>4, <2>5 DEF Same
  <2>8. \A v \in V : w.unsat_appear[v] =
          IF v \in Upto(k) THEN s.unsat_appear[v] + 1 ELSE s.unsat_appear[v]
    BY <2>2, <2>4, <2>5, <2>6
  <2> QED
    BY <2>1, <2>5, <2>7, <2>8 DEF w
<1> HIDE DEF G
<1>5. n \in G
  BY <1>1, <1>3, <1>4, Climb
<1>6. Upto(n) = ToSet(vs)
  BY <1>1 DEF ToSet
<1> QED
  BY <1>2, <1>5, <1>6 DEF G

(* sat_a_clause, for all variables of a clause: their counters are one
   less. *)
LEMMA AllVanish ==
  ASSUME NEW V, NEW s, Appearing(s, V), NEW vs \in Seq(V), Distinct(vs), NEW t,
         t = VanishAll(s, vs), \A v \in ToSet(vs) : s.unsat_appear[v] > 0
  PROVE  /\ Appearing(t, V)
         /\ Same(t, s, {"unsat_appear", "unsat_vars"})
         /\ \A v \in V : t.unsat_appear[v] =
              IF v \in ToSet(vs) THEN s.unsat_appear[v] - 1 ELSE s.unsat_appear[v]
<1> DEFINE n == Len(vs)
           Upto(k) == {vs[i] : i \in 1 .. k}
<1>1. n \in Nat /\ DOMAIN vs = 1 .. n
  OBVIOUS
<1>2. PICK g : /\ g[0] = s
               /\ \A k \in 1 .. n : g[k] = VanishStep(g[k - 1], vs[k])
               /\ t = g[n]
  BY <1>1, VanishTrace
<1> DEFINE good(k) == /\ Appearing(g[k], V)
                      /\ Same(g[k], s, {"unsat_appear", "unsat_vars"})
                      /\ \A v \in V : g[k].unsat_appear[v] =
                           IF v \in Upto(k) THEN s.unsat_appear[v] - 1 ELSE s.unsat_appear[v]
           G == {k \in 0 .. n : good(k)}
<1>3. 0 \in G
  <2>1. Upto(0) = {} /\ 0 \in 0 .. n
    BY <1>1
  <2>2. Same(s, s, {"unsat_appear", "unsat_vars"})
    BY DEF Appearing, Same
  <2> HIDE DEF Upto, n
  <2> QED
    BY <1>2, <2>1, <2>2
<1>4. ASSUME NEW k \in 1 .. n, k - 1 \in G PROVE k \in G
  <2>1. k \in 0 .. n /\ good(k - 1)
    BY <1>4
  <2>2. Upto(k) = Upto(k - 1) \cup {vs[k]} /\ vs[k] \notin Upto(k - 1) /\ vs[k] \in V
        /\ vs[k] \in ToSet(vs)
    <3>1. \A i \in 1 .. k : i \in 1 .. k - 1 \/ i = k
      OBVIOUS
    <3>2. k \in 1 .. k /\ \A i \in 1 .. k - 1 : i \in 1 .. k /\ i # k /\ i \in 1 .. n
      OBVIOUS
    <3> QED
      BY <1>1, <3>1, <3>2 DEF Distinct, ToSet
  <2> DEFINE u == g[k - 1]
             w == g[k]
  <2>3. w = VanishStep(u, vs[k])
    BY <1>2
  <2>4. /\ Appearing(u, V) /\ Same(u, s, {"unsat_appear", "unsat_vars"})
        /\ \A v \in V : u.unsat_appear[v] =
             IF v \in Upto(k - 1) THEN s.unsat_appear[v] - 1 ELSE s.unsat_appear[v]
    BY <2>1
  <2> HIDE DEF u, w, Upto
  <2>9. u.unsat_appear[vs[k]] > 0
    BY <2>2, <2>4
  <2>5. /\ Appearing(w, V) /\ Same(w, u, {"unsat_appear", "unsat_vars"})
        /\ \A x \in V : w.unsat_appear[x] =
             IF x = vs[k] THEN u.unsat_appear[x] - 1 ELSE u.unsat_appear[x]
    <3> DEFINE v == vs[k]
    <3>1. v \in V /\ w = VanishStep(u, v) /\ Appearing(u, V) /\ u.unsat_appear[v] > 0
      BY <2>2, <2>3, <2>4, <2>9
    <3> HIDE DEF v
    <3>2. /\ Appearing(w, V) /\ Same(w, u, {"unsat_appear", "unsat_vars"})
          /\ \A x \in V : w.unsat_appear[x] =
               IF x = v THEN u.unsat_appear[x] - 1 ELSE u.unsat_appear[x]
      BY <3>1, VanishStepFacts
    <3> QED
      BY <3>2 DEF v
  <2>6. u.unsat_appear \in [V -> Nat]
    BY <2>4 DEF Appearing
  <2>7. Same(w, s, {"unsat_appear", "unsat_vars"})
    BY <2>4, <2>5 DEF Same
  <2>8. \A v \in V : w.unsat_appear[v] =
          IF v \in Upto(k) THEN s.unsat_appear[v] - 1 ELSE s.unsat_appear[v]
    BY <2>2, <2>4, <2>5, <2>6
  <2> QED
    BY <2>1, <2>5, <2>7, <2>8 DEF w
<1> HIDE DEF G
<1>5. n \in G
  BY <1>1, <1>3, <1>4, Climb
<1>6. Upto(n) = ToSet(vs)
  BY <1>1 DEF ToSet
<1> QED
  BY <1>2, <1>5, <1>6 DEF G

-----------------------------------------------------------------------------
(* The unsatisfied clauses are those of U, and the counts go with them. *)
AboutIn(s, U, v) == {c \in U : Mentions(s, c, v)}
Counted(s, U) ==
  /\ U \subseteq ClausesOf(s)
  /\ Appearing(s, VarsIn(s))
  /\ s.unsat_clauses \in Lists(ClausesOf(s)) /\ Listed(s.unsat_clauses, U)
  /\ \A v \in VarsIn(s) : s.unsat_appear[v] = Cardinality(AboutIn(s, U, v))

UnsatFields == {"unsat_clauses", "unsat_vars", "unsat_appear"}

(* Only the list of unsatisfied clauses changes. *)
LEMMA UnsatClausesFacts ==
  ASSUME NEW s, Rec(s), NEW l
  PROVE  /\ Same([s EXCEPT !.unsat_clauses = l], s, {"unsat_clauses"})
         /\ [s EXCEPT !.unsat_clauses = l].unsat_clauses = l
BY DEF Rec, Same, Fields

(* unsat_a_clause keeps the lists of unsatisfied clauses and of their
   variables right. *)
LEMMA UnsatFacts ==
  ASSUME NEW s, NEW U, Problem(s.clauses, VarsIn(s)), Counted(s, U),
         NEW c \in ClausesOf(s), c \notin U
  PROVE  /\ Counted(unsat_a_clause(s, c), U \cup {c})
         /\ Same(unsat_a_clause(s, c), s, UnsatFields)
<1> DEFINE V == VarsIn(s)
           vs == ClauseVars(s, c)
           l == Push(s.unsat_clauses, c)
           u == [s EXCEPT !.unsat_clauses = l]
           w == AppearAll(u, vs)
           W == U \cup {c}
<1>1. /\ Appearing(s, V) /\ s.unsat_clauses \in Lists(ClausesOf(s)) /\ Listed(s.unsat_clauses, U)
      /\ U \subseteq ClausesOf(s)
      /\ \A v \in V : s.unsat_appear[v] = Cardinality(AboutIn(s, U, v))
  BY DEF Counted
<1>2. unsat_a_clause(s, c) = w
  BY DEF unsat_a_clause, AppearStep, AppearAll
<1>3. vs \in Seq(V) /\ Distinct(vs) /\ IsFiniteSet(ClausesOf(s))
  BY ProblemFacts
<1>4. l \in Lists(ClausesOf(s)) /\ Listed(l, W)
  BY <1>1, Pushed
<1>5. Same(u, s, {"unsat_clauses"}) /\ u.unsat_clauses = l
  BY <1>1, UnsatClausesFacts DEF Appearing
<1> HIDE DEF u, vs, l
<1>6. Appearing(u, V)
  <2>1. Rec(u) /\ u.unsat_appear = s.unsat_appear /\ u.unsat_vars = s.unsat_vars
    BY <1>5 DEF Same, Fields
  <2> QED
    BY <1>1, <2>1 DEF Appearing
<1>7. /\ Appearing(w, V) /\ Same(w, u, {"unsat_appear", "unsat_vars"})
      /\ \A v \in V : w.unsat_appear[v] =
           IF v \in ToSet(vs) THEN u.unsat_appear[v] + 1 ELSE u.unsat_appear[v]
  BY <1>3, <1>6, AllAppear
<1> HIDE DEF w
<1>8. Same(w, s, UnsatFields)
  BY <1>5, <1>7 DEF Same, UnsatFields
<1>9. /\ w.clauses = s.clauses /\ w.solution = s.solution /\ w.unsat_clauses = l
      /\ u.unsat_appear = s.unsat_appear
  BY <1>5, <1>7 DEF Same, Fields
<1>10. VarsIn(w) = V /\ ClausesOf(w) = ClausesOf(s)
       /\ \A d, v : Mentions(w, d, v) = Mentions(s, d, v)
  BY <1>9 DEF VarsIn, ClausesOf, Mentions, ClauseVars
<1>11. ASSUME NEW v \in V PROVE w.unsat_appear[v] = Cardinality(AboutIn(w, W, v))
  <2>1. AboutIn(w, W, v) = AboutIn(s, W, v)
    BY <1>10 DEF AboutIn
  <2>2. AboutIn(s, W, v) = IF v \in ToSet(vs) THEN AboutIn(s, U, v) \cup {c} ELSE AboutIn(s, U, v)
    BY DEF AboutIn, Mentions, vs
  <2>3. c \notin AboutIn(s, U, v) /\ AboutIn(s, U, v) \in SUBSET ClausesOf(s)
    BY <1>1 DEF AboutIn
  <2>4. IsFiniteSet(AboutIn(s, U, v))
    BY <1>3, <2>3, FS_Subset
  <2>5. Cardinality(AboutIn(s, U, v) \cup {c}) = Cardinality(AboutIn(s, U, v)) + 1
    BY <2>3, <2>4, FS_AddElement
  <2> QED
    BY <1>1, <1>7, <1>9, <2>1, <2>2, <2>5
<1>12. Counted(w, W)
  BY <1>1, <1>4, <1>7, <1>9, <1>10, <1>11 DEF Counted
<1> QED
  BY <1>2, <1>8, <1>12

(* sat_a_clause keeps them right. *)
LEMMA SatFacts ==
  ASSUME NEW s, NEW U, Problem(s.clauses, VarsIn(s)), Counted(s, U), NEW c \in U
  PROVE  /\ Counted(sat_a_clause(s, c), U \ {c})
         /\ Same(sat_a_clause(s, c), s, UnsatFields)
<1> DEFINE V == VarsIn(s)
           vs == ClauseVars(s, c)
           l == Drop(s.unsat_clauses, c)
           u == [s EXCEPT !.unsat_clauses = l]
           w == VanishAll(u, vs)
           W == U \ {c}
<1>1. /\ Appearing(s, V) /\ s.unsat_clauses \in Lists(ClausesOf(s)) /\ Listed(s.unsat_clauses, U)
      /\ U \subseteq ClausesOf(s) /\ c \in ClausesOf(s)
      /\ \A v \in V : s.unsat_appear[v] = Cardinality(AboutIn(s, U, v))
  BY DEF Counted
<1>2. sat_a_clause(s, c) = w
  BY DEF sat_a_clause, VanishStep, VanishAll
<1>3. vs \in Seq(V) /\ Distinct(vs) /\ IsFiniteSet(ClausesOf(s))
  BY <1>1, ProblemFacts
<1>4. l \in Lists(ClausesOf(s)) /\ Listed(l, W)
  BY <1>1, Dropped
<1>5. Same(u, s, {"unsat_clauses"}) /\ u.unsat_clauses = l
  BY <1>1, UnsatClausesFacts DEF Appearing
<1>13. ASSUME NEW v \in V
       PROVE  /\ IsFiniteSet(AboutIn(s, U, v)) /\ Cardinality(AboutIn(s, U, v)) \in Nat
              /\ v \in ToSet(vs) => /\ c \in AboutIn(s, U, v) /\ Cardinality(AboutIn(s, U, v)) > 0
  <2>1. AboutIn(s, U, v) \in SUBSET ClausesOf(s)
    BY <1>1 DEF AboutIn
  <2>2. IsFiniteSet(AboutIn(s, U, v)) /\ Cardinality(AboutIn(s, U, v)) \in Nat
    BY <1>3, <2>1, FS_Subset, FS_CardinalityType
  <2>3. v \in ToSet(vs) => c \in AboutIn(s, U, v)
    BY DEF AboutIn, Mentions, vs
  <2>4. c \in AboutIn(s, U, v) => Cardinality(AboutIn(s, U, v)) # 0
    BY <2>2, FS_EmptySet
  <2> QED
    BY <2>2, <2>3, <2>4
<1> HIDE DEF u, vs, l
<1>6. Appearing(u, V) /\ \A v \in ToSet(vs) : u.unsat_appear[v] > 0
  <2>1. Rec(u) /\ u.unsat_appear = s.unsat_appear /\ u.unsat_vars = s.unsat_vars
    BY <1>5 DEF Same, Fields
  <2>2. \A v \in ToSet(vs) : v \in V
    BY <1>3 DEF ToSet
  <2> QED
    BY <1>1, <1>13, <2>1, <2>2 DEF Appearing
<1>7. /\ Appearing(w, V) /\ Same(w, u, {"unsat_appear", "unsat_vars"})
      /\ \A v \in V : w.unsat_appear[v] =
           IF v \in ToSet(vs) THEN u.unsat_appear[v] - 1 ELSE u.unsat_appear[v]
  BY <1>3, <1>6, AllVanish
<1> HIDE DEF w
<1>8. Same(w, s, UnsatFields)
  BY <1>5, <1>7 DEF Same, UnsatFields
<1>9. /\ w.clauses = s.clauses /\ w.solution = s.solution /\ w.unsat_clauses = l
      /\ u.unsat_appear = s.unsat_appear
  BY <1>5, <1>7 DEF Same, Fields
<1>10. VarsIn(w) = V /\ ClausesOf(w) = ClausesOf(s)
       /\ \A d, v : Mentions(w, d, v) = Mentions(s, d, v)
  BY <1>9 DEF VarsIn, ClausesOf, Mentions, ClauseVars
<1>11. ASSUME NEW v \in V PROVE w.unsat_appear[v] = Cardinality(AboutIn(w, W, v))
  <2>1. AboutIn(w, W, v) = AboutIn(s, W, v)
    BY <1>10 DEF AboutIn
  <2>2. AboutIn(s, W, v) = IF v \in ToSet(vs) THEN AboutIn(s, U, v) \ {c} ELSE AboutIn(s, U, v)
    BY DEF AboutIn, Mentions, vs
  <2>5. v \in ToSet(vs) => Cardinality(AboutIn(s, U, v) \ {c}) = Cardinality(AboutIn(s, U, v)) - 1
    BY <1>13, FS_RemoveElement
  <2> QED
    BY <1>1, <1>7, <1>9, <2>1, <2>2, <2>5
<1>12. Counted(w, W)
  BY <1>1, <1>4, <1>7, <1>9, <1>10, <1>11 DEF Counted
<1> QED
  BY <1>2, <1>8, <1>12

-----------------------------------------------------------------------------
(* What a variable is worth. *)

(* Where a variable occurs. *)
About(s, v) == {c \in ClausesOf(s) : Mentions(s, c, v)}

(* OccursIn lists the clauses about a variable, each once. *)
LEMMA OccursFacts ==
  ASSUME NEW s, NEW V, Problem(s.clauses, V), NEW v
  PROVE  /\ OccursIn(s, v) \in Seq(About(s, v)) /\ ToSet(OccursIn(s, v)) = About(s, v)
         /\ Distinct(OccursIn(s, v))
         /\ About(s, v) \in SUBSET (1 .. Len(s.clauses))
<1> DEFINE C == ClausesOf(s)
           ps == Positions(s.clauses)
           T == {c \in C : Mentions(s, c, v)}
<1>1. C = 1 .. Len(s.clauses) /\ Len(s.clauses) \in Nat /\ C = DOMAIN s.clauses
  BY ProblemFacts DEF ClausesOf
<1>2. ps = [k \in 1 .. Len(s.clauses) |-> k]
  BY <1>1 DEF Positions
<1> HIDE DEF C, ps
<1>3. ps \in Seq(C) /\ ToSet(ps) = C /\ Distinct(ps)
  BY <1>1, <1>2 DEF ToSet, Distinct
<1>4. OccursIn(s, v) = Selected(ps, T)
  BY DEF OccursIn, ps, C
<1>5. ToSet(ps) \cap T = About(s, v)
  BY <1>3 DEF About, C
<1> HIDE DEF T
<1>6. /\ Selected(ps, T) \in Seq(ToSet(ps) \cap T)
      /\ ToSet(Selected(ps, T)) = ToSet(ps) \cap T
      /\ Distinct(ps) => Distinct(Selected(ps, T))
  BY <1>3, SelectedFacts
<1>7. About(s, v) \in SUBSET (1 .. Len(s.clauses))
  BY <1>1 DEF About, C
<1> QED
  BY <1>3, <1>4, <1>5, <1>6, <1>7

(* What each clause adds to the gain of v. *)
Worth(s, v) ==
  [c \in ClausesOf(s) |->
     CASE s.sat_count[c] = 0 -> s.weight[c]
       [] s.sat_count[c] = 1 /\ v \in TrueVars(s, c) -> -s.weight[c]
       [] OTHER -> 0]

(* What a clause adds to the score of a variable. *)
LEMMA WorthAt ==
  ASSUME NEW s, NEW v, NEW c \in ClausesOf(s)
  PROVE  Worth(s, v)[c] = IF s.sat_count[c] = 0 THEN s.weight[c]
                          ELSE IF s.sat_count[c] = 1 /\ v \in TrueVars(s, c) THEN -s.weight[c] ELSE 0
BY DEF Worth

Weighed(s) == s.sat_count \in [ClausesOf(s) -> Nat] /\ s.weight \in [ClausesOf(s) -> Nat \ {0}]

(* It is an integer. *)
LEMMA WorthWhole ==
  ASSUME NEW s, NEW v, Weighed(s), NEW S \in SUBSET ClausesOf(s)
  PROVE  Wholes(Worth(s, v), S)
<1>1. ASSUME NEW c \in ClausesOf(s) PROVE Worth(s, v)[c] \in Int
  <2>1. s.weight[c] \in Int /\ -s.weight[c] \in Int /\ 0 \in Int
    BY DEF Weighed
  <2> QED
    BY <2>1, WorthAt
<1> QED
  BY <1>1 DEF Wholes

(* The score a variable should have, as a sum over its clauses. *)
LEMMA GainSum ==
  ASSUME NEW s, NEW V, Problem(s.clauses, V), NEW v
  PROVE  Gain(s, v) = SumOf(Worth(s, v), About(s, v))
BY OccursFacts DEF Gain, SumOf, Worth

(* It is an integer. *)
LEMMA GainInt ==
  ASSUME NEW s, NEW V, Problem(s.clauses, V), NEW v, Weighed(s)
  PROVE  Gain(s, v) \in Int
<1>1. /\ Len(s.clauses) \in Nat /\ About(s, v) \in SUBSET (1 .. Len(s.clauses))
      /\ About(s, v) \in SUBSET ClausesOf(s)
  BY OccursFacts, ProblemFacts
<1>2. Wholes(Worth(s, v), About(s, v))
  BY <1>1, WorthWhole
<1> QED
  BY <1>1, <1>2, SumInt, GainSum

(* Clauses whose worth is the same do not count. *)
LEMMA GainSame ==
  ASSUME NEW s, NEW V, Problem(s.clauses, V), NEW t, t.clauses = s.clauses, NEW v,
         \A c \in About(s, v) : Worth(t, v)[c] = Worth(s, v)[c]
  PROVE  Gain(t, v) = Gain(s, v)
<1>1. About(t, v) = About(s, v)
  BY DEF About, ClausesOf, Mentions, ClauseVars
<1>2. /\ Len(s.clauses) \in Nat /\ About(s, v) \in SUBSET (1 .. Len(s.clauses))
  BY OccursFacts, ProblemFacts
<1>3. SumOf(Worth(t, v), About(s, v)) = SumOf(Worth(s, v), About(s, v))
  BY <1>2, SumSame
<1>4. Problem(t.clauses, V)
  OBVIOUS
<1>5. Gain(t, v) = SumOf(Worth(t, v), About(t, v)) /\ Gain(s, v) = SumOf(Worth(s, v), About(s, v))
  BY <1>4, GainSum
<1> QED
  BY <1>1, <1>3, <1>5

(* The worth of one clause changes. *)
LEMMA GainChange ==
  ASSUME NEW s, NEW V, Problem(s.clauses, V), NEW t, t.clauses = s.clauses, NEW v,
         Weighed(s), Weighed(t), NEW c \in ClausesOf(s),
         \A d \in ClausesOf(s) : d # c => Worth(t, v)[d] = Worth(s, v)[d]
  PROVE  Gain(t, v) = IF Mentions(s, c, v) THEN Gain(s, v) + (Worth(t, v)[c] - Worth(s, v)[c])
                      ELSE Gain(s, v)
<1> DEFINE F == Worth(s, v)
           G == Worth(t, v)
           A == About(s, v)
<1>1. About(t, v) = A /\ ClausesOf(t) = ClausesOf(s)
  BY DEF About, ClausesOf, Mentions, ClauseVars
<1>2. /\ Len(s.clauses) \in Nat /\ A \in SUBSET (1 .. Len(s.clauses))
      /\ A \in SUBSET ClausesOf(s) /\ c \in 1 .. Len(s.clauses)
  BY OccursFacts, ProblemFacts
<1>3. Wholes(F, A) /\ Wholes(G, A)
  BY <1>1, <1>2, WorthWhole
<1>4. Problem(t.clauses, V)
  OBVIOUS
<1>5. Gain(t, v) = SumOf(G, A) /\ Gain(s, v) = SumOf(F, A)
  BY <1>1, <1>4, GainSum
<1>6. \A d \in A : d # c => F[d] = G[d]
  BY <1>2
<1>7. c \in A <=> Mentions(s, c, v)
  BY DEF About
<1> HIDE DEF F, G, A
<1>8. SumOf(G, A) = IF c \in A THEN SumOf(F, A) + (G[c] - F[c]) ELSE SumOf(F, A)
  BY <1>2, <1>3, <1>6, SumChange
<1> QED
  BY <1>5, <1>7, <1>8 DEF F, G

-----------------------------------------------------------------------------
(* The literals of a clause that m makes true. *)
TrueIn(s, m, c) == {i \in DOMAIN s.clauses[c] : Makes(m, s.clauses[c][i])}

(* The counts of c are those of m. *)
RightAt(s, m, c) ==
  /\ s.sat_count[c] = Cardinality(TrueIn(s, m, c))
  /\ s.sat_count[c] = 1 => \E i \in TrueIn(s, m, c) : s.sat_var[c] = Var(s.clauses[c][i])

(* A clause has finitely many literals that are true. *)
LEMMA TrueFinite ==
  ASSUME NEW s, NEW V, Problem(s.clauses, V), NEW c \in ClausesOf(s), NEW m
  PROVE  IsFiniteSet(TrueIn(s, m, c)) /\ Cardinality(TrueIn(s, m, c)) \in Nat
<1> DEFINE n == Len(ClauseVars(s, c))
<1>1. DOMAIN s.clauses[c] = 1 .. n /\ n \in Nat
  BY ProblemFacts
<1> HIDE DEF n
<1>2. IsFiniteSet(DOMAIN s.clauses[c])
  <2>1. IsFiniteSet(1 .. n)
    BY <1>1, FS_Interval
  <2> QED
    BY <1>1, <2>1
<1>3. TrueIn(s, m, c) \in SUBSET DOMAIN s.clauses[c]
  BY DEF TrueIn
<1> QED
  BY <1>2, <1>3, FS_Subset, FS_CardinalityType

(* The literal of v in a clause that has one. *)
IsAt(s, c, v) == \E i \in DOMAIN s.clauses[c] : Var(s.clauses[c][i]) = v
Once(s, c) ==
  \A i, j \in DOMAIN s.clauses[c] : Var(s.clauses[c][i]) = Var(s.clauses[c][j]) => i = j

(* A clause mentions a variable at one position at most. *)
LEMMA MentionedAt ==
  ASSUME NEW s, NEW V, Problem(s.clauses, V), NEW c \in ClausesOf(s), NEW v
  PROVE  (Mentions(s, c, v) <=> IsAt(s, c, v)) /\ Once(s, c)
<1>1. /\ DOMAIN s.clauses[c] = DOMAIN ClauseVars(s, c)
      /\ \A i \in DOMAIN ClauseVars(s, c) : ClauseVars(s, c)[i] = Var(s.clauses[c][i])
      /\ Distinct(ClauseVars(s, c))
  BY ProblemFacts
<1> QED
  BY <1>1 DEF Mentions, ToSet, Distinct, IsAt, Once

(* A flip of v changes whether the literal of v is true, and no other. *)
Turned(m, v) == [m EXCEPT ![v] = ~@]

(* A flip changes the literals of the variable and no others. *)
LEMMA MakesFlipped ==
  ASSUME NEW V, NEW m \in [V -> BOOLEAN], NEW v \in V, NEW p, Var(p) \in V
  PROVE  Makes(Turned(m, v), p) <=> IF Var(p) = v THEN ~Makes(m, p) ELSE Makes(m, p)
<1> DEFINE w == Turned(m, v)
<1>1. w[v] = ~m[v] /\ \A x \in V : x # v => w[x] = m[x]
  BY DEF Turned
<1>2. m[v] \in BOOLEAN /\ m[Var(p)] \in BOOLEAN
  OBVIOUS
<1> HIDE DEF w
<1>3. Makes(w, p) <=> IF Var(p) = v THEN ~Makes(m, p) ELSE Makes(m, p)
  <2>1. CASE Var(p) = v
    <3>1. w[Var(p)] <=> ~m[Var(p)]
      BY <1>1, <2>1, ZenonT(60)
    <3> QED
      BY <2>1, <3>1 DEF Makes
  <2>2. CASE Var(p) # v
    <3>1. w[Var(p)] = m[Var(p)]
      BY <1>1, <2>2
    <3> QED
      BY <2>2, <3>1 DEF Makes
  <2> QED
    BY <2>1, <2>2
<1> QED
  BY <1>3 DEF w

TurnsAt(s, m, w, c, v) ==
  /\ ~Mentions(s, c, v) => TrueIn(s, w, c) = TrueIn(s, m, c)
  /\ \A i \in DOMAIN s.clauses[c] : Var(s.clauses[c][i]) = v =>
       TrueIn(s, w, c) =
         IF i \in TrueIn(s, m, c) THEN TrueIn(s, m, c) \ {i} ELSE TrueIn(s, m, c) \cup {i}

(* So the true literals of a clause change at the position of the variable,
   if it has one. *)
LEMMA TrueFlipped ==
  ASSUME NEW s, NEW V, Problem(s.clauses, V), NEW c \in ClausesOf(s),
         NEW m \in [V -> BOOLEAN], NEW v \in V
  PROVE  TurnsAt(s, m, Turned(m, v), c, v)
<1> DEFINE w == Turned(m, v)
<1>1. \A i \in DOMAIN s.clauses[c] : Var(s.clauses[c][i]) \in V
  BY DEF Problem, ClausesOf
<1>2. ASSUME NEW i \in DOMAIN s.clauses[c]
      PROVE  Makes(w, s.clauses[c][i]) <=>
               IF Var(s.clauses[c][i]) = v THEN ~Makes(m, s.clauses[c][i]) ELSE Makes(m, s.clauses[c][i])
  <2> DEFINE p == s.clauses[c][i]
  <2>1. Var(p) \in V
    BY <1>1
  <2> HIDE DEF p
  <2>2. Makes(w, p) <=> IF Var(p) = v THEN ~Makes(m, p) ELSE Makes(m, p)
    BY <2>1, MakesFlipped
  <2> QED
    BY <2>2 DEF p
<1> HIDE DEF w
<1>3. \A i, j \in DOMAIN s.clauses[c] : Var(s.clauses[c][i]) = Var(s.clauses[c][j]) => i = j
  BY MentionedAt DEF Once
<1>4. ASSUME ~Mentions(s, c, v) PROVE TrueIn(s, w, c) = TrueIn(s, m, c)
  <2>1. \A i \in DOMAIN s.clauses[c] : Var(s.clauses[c][i]) # v
    BY <1>4, MentionedAt DEF IsAt
  <2> QED
    BY <1>2, <2>1 DEF TrueIn
<1>5. ASSUME NEW i \in DOMAIN s.clauses[c], Var(s.clauses[c][i]) = v
      PROVE  TrueIn(s, w, c) =
               IF i \in TrueIn(s, m, c) THEN TrueIn(s, m, c) \ {i} ELSE TrueIn(s, m, c) \cup {i}
  <2>1. \A j \in DOMAIN s.clauses[c] : Var(s.clauses[c][j]) = v <=> j = i
    BY <1>3, <1>5
  <2> QED
    BY <1>2, <2>1 DEF TrueIn
<1> QED
  BY <1>4, <1>5 DEF w, TurnsAt

-----------------------------------------------------------------------------
(* What the fields depend on. *)

(* Fields that the counts of unsatisfied clauses do not depend on. *)
LEMMA CountedSame ==
  ASSUME NEW s, NEW t, NEW N, Same(t, s, N),
         N \cap (UnsatFields \cup {"clauses", "solution"}) = {}, NEW U, Counted(s, U)
  PROVE  Counted(t, U)
<1>1. /\ Rec(t) /\ t.clauses = s.clauses /\ t.solution = s.solution
      /\ t.unsat_clauses = s.unsat_clauses /\ t.unsat_vars = s.unsat_vars
      /\ t.unsat_appear = s.unsat_appear
  BY DEF Same, Fields, UnsatFields
<1>2. VarsIn(t) = VarsIn(s) /\ ClausesOf(t) = ClausesOf(s)
      /\ \A v : AboutIn(t, U, v) = AboutIn(s, U, v)
  BY <1>1 DEF VarsIn, ClausesOf, AboutIn, Mentions, ClauseVars
<1>3. Appearing(t, VarsIn(t))
  BY <1>1, <1>2 DEF Counted, Appearing
<1> QED
  BY <1>1, <1>2, <1>3 DEF Counted

(* What stays when the clauses and the solution do. *)
LEMMA SameMeaning ==
  ASSUME NEW s, NEW t, t.clauses = s.clauses, t.solution = s.solution
  PROVE  /\ VarsIn(t) = VarsIn(s) /\ ClausesOf(t) = ClausesOf(s)
         /\ \A c, v : Mentions(t, c, v) = Mentions(s, c, v)
         /\ \A c : ClauseVars(t, c) = ClauseVars(s, c) /\ TrueVars(t, c) = TrueVars(s, c)
         /\ \A c : TrueAt(t, c) = TrueAt(s, c)
         /\ \A m, c : TrueIn(t, m, c) = TrueIn(s, m, c)
BY DEF VarsIn, ClausesOf, Mentions, ClauseVars, TrueVars, TrueAt, TrueIn

(* Rescored adds to the scores of some variables. *)
LEMMA RescoredFacts ==
  ASSUME NEW s, Rec(s), NEW vs, NEW w, s.score \in [VarsIn(s) -> Int], w \in Int
  PROVE  /\ Same(Rescored(s, vs, w), s, {"score"})
         /\ Rescored(s, vs, w).score \in [VarsIn(s) -> Int]
         /\ \A v \in VarsIn(s) : Rescored(s, vs, w).score[v] =
              IF v \in vs THEN s.score[v] + w ELSE s.score[v]
<1> DEFINE f == [v \in VarsIn(s) |-> IF v \in vs THEN s.score[v] + w ELSE s.score[v]]
<1>1. Rescored(s, vs, w) = [s EXCEPT !.score = f]
  BY DEF Rescored
<1>2. f \in [VarsIn(s) -> Int]
  OBVIOUS
<1>3. \A v \in VarsIn(s) : f[v] = IF v \in vs THEN s.score[v] + w ELSE s.score[v]
  OBVIOUS
<1> HIDE DEF f
<1>4. Same([s EXCEPT !.score = f], s, {"score"}) /\ [s EXCEPT !.score = f].score = f
  BY DEF Rec, Same, Fields
<1> QED
  BY <1>1, <1>2, <1>3, <1>4

SetAt(f, c, k) == [f EXCEPT ![c] = k]
WithCount(s, c, k) == [s EXCEPT !.sat_count[c] = k]
WithVar(s, c, k) == [s EXCEPT !.sat_var[c] = k]

(* A new count, or a new sole variable, of one clause. *)
LEMMA CountFacts ==
  ASSUME NEW s, Rec(s), NEW c, NEW k
  PROVE  /\ Same(WithCount(s, c, k), s, {"sat_count"})
         /\ WithCount(s, c, k).sat_count = SetAt(s.sat_count, c, k)
         /\ Same(WithVar(s, c, k), s, {"sat_var"})
         /\ WithVar(s, c, k).sat_var = SetAt(s.sat_var, c, k)
BY DEF Rec, Same, Fields, WithCount, WithVar, SetAt

-----------------------------------------------------------------------------
Zeros(s) == {c \in ClausesOf(s) : s.sat_count[c] = 0}
FlipFields == UnsatFields \cup {"sat_count", "sat_var", "score"}

(* While v is flipped: the clauses of P have been seen, the others have the
   counts of the solution m from before. *)
FlipState(t, m, v, P) ==
  /\ Rec(t) /\ Problem(t.clauses, VarsIn(t))
  /\ Weighed(t) /\ t.sat_var \in [ClausesOf(t) -> Int] /\ t.score \in [VarsIn(t) -> Int]
  /\ v \in VarsIn(t) /\ m \in [VarsIn(t) -> BOOLEAN] /\ t.solution = Turned(m, v)
  /\ Counted(t, Zeros(t))
  /\ \A d \in ClausesOf(t) : RightAt(t, IF d \in P THEN t.solution ELSE m, d)
  /\ \A u \in VarsIn(t) \ {v} : t.score[u] = Gain(t, u)

(* What a step of the fold has to do with the clause c. *)
Flipped(t, w, c, k) ==
  /\ Same(w, t, FlipFields)
  /\ w.sat_count = SetAt(t.sat_count, c, k) /\ k \in Nat
  /\ w.sat_var \in [ClausesOf(t) -> Int]
  /\ \A d \in ClausesOf(t) : d # c => w.sat_var[d] = t.sat_var[d]
  /\ w.score \in [VarsIn(t) -> Int]
  /\ Counted(w, Zeros(w))

(* The variable of c that alone makes it true gains what the clause weighs. *)
Cost1(n, sole, w) == IF n = 0 THEN w ELSE IF n = 1 /\ sole THEN -w ELSE 0

(* When one more clause was seen by flip, and the scores moved by what it
   is worth now and was before, the loop has made one step more. *)
LEMMA FlippedKeeps ==
  ASSUME NEW t, NEW m, NEW v, NEW P, FlipState(t, m, v, P), NEW c \in ClausesOf(t),
         NEW w, NEW k, Flipped(t, w, c, k),
         k = Cardinality(TrueAt(t, c)),
         k = 1 => w.sat_var[c] \in TrueVars(t, c),
         \A u \in VarsIn(t) \ {v} :
           w.score[u] = IF Mentions(t, c, u)
                        THEN t.score[u] + (Cost1(k, u \in TrueVars(t, c), t.weight[c])
                                             - Cost1(t.sat_count[c], u \in TrueVars(t, c), t.weight[c]))
                        ELSE t.score[u]
  PROVE  FlipState(w, m, v, P \cup {c})
<1>1. /\ Rec(t) /\ Problem(t.clauses, VarsIn(t))
      /\ Weighed(t) /\ t.sat_var \in [ClausesOf(t) -> Int] /\ t.score \in [VarsIn(t) -> Int]
      /\ v \in VarsIn(t) /\ m \in [VarsIn(t) -> BOOLEAN] /\ t.solution = Turned(m, v)
      /\ \A d \in ClausesOf(t) : RightAt(t, IF d \in P THEN t.solution ELSE m, d)
      /\ \A u \in VarsIn(t) \ {v} : t.score[u] = Gain(t, u)
  BY DEF FlipState
<1>2. /\ Same(w, t, FlipFields)
      /\ w.sat_count = SetAt(t.sat_count, c, k) /\ k \in Nat
      /\ w.sat_var \in [ClausesOf(t) -> Int]
      /\ \A d \in ClausesOf(t) : d # c => w.sat_var[d] = t.sat_var[d]
      /\ w.score \in [VarsIn(t) -> Int]
      /\ Counted(w, Zeros(w))
  BY DEF Flipped
<1>3. Rec(w) /\ w.clauses = t.clauses /\ w.solution = t.solution /\ w.weight = t.weight
  BY <1>2 DEF Same, Fields, FlipFields, UnsatFields
<1>4. /\ VarsIn(w) = VarsIn(t) /\ ClausesOf(w) = ClausesOf(t)
      /\ \A d : TrueVars(w, d) = TrueVars(t, d)
      /\ \A n, d : TrueIn(w, n, d) = TrueIn(t, n, d)
  BY <1>3, SameMeaning
<1>5. w.sat_count \in [ClausesOf(t) -> Nat] /\ w.sat_count[c] = k
      /\ \A d \in ClausesOf(t) : d # c => w.sat_count[d] = t.sat_count[d]
  BY <1>1, <1>2 DEF Weighed, SetAt
<1>6. Weighed(w)
  BY <1>1, <1>3, <1>4, <1>5 DEF Weighed
<1>7. ASSUME NEW d \in ClausesOf(t)
      PROVE  RightAt(w, IF d \in P \cup {c} THEN w.solution ELSE m, d)
  <2>1. CASE d = c
    <3>1. TrueIn(w, w.solution, c) = TrueAt(t, c)
      BY <1>3 DEF TrueIn, TrueAt
    <3>2. w.sat_count[c] = 1 => \E i \in TrueAt(t, c) : w.sat_var[c] = Var(w.clauses[c][i])
      BY <1>3, <1>5 DEF TrueVars
    <3> QED
      BY <1>5, <2>1, <3>1, <3>2 DEF RightAt
  <2>2. CASE d # c
    <3>1. RightAt(t, IF d \in P THEN t.solution ELSE m, d)
      BY <1>1
    <3>2. w.sat_count[d] = t.sat_count[d] /\ w.sat_var[d] = t.sat_var[d]
      BY <1>2, <1>5, <2>2
    <3>3. RightAt(w, IF d \in P THEN t.solution ELSE m, d)
      BY <1>3, <1>4, <3>1, <3>2 DEF RightAt
    <3> QED
      BY <1>3, <2>2, <3>3
  <2> QED
    BY <2>1, <2>2
<1>8. ASSUME NEW u \in VarsIn(t) \ {v} PROVE w.score[u] = Gain(w, u)
  <2>1. \A d \in ClausesOf(t) : d # c => Worth(w, u)[d] = Worth(t, u)[d]
    BY <1>3, <1>4, <1>5, WorthAt
  <2>2. Gain(w, u) = IF Mentions(t, c, u) THEN Gain(t, u) + (Worth(w, u)[c] - Worth(t, u)[c])
                     ELSE Gain(t, u)
    <3>1. Problem(t.clauses, VarsIn(t)) /\ w.clauses = t.clauses /\ Weighed(t) /\ Weighed(w)
      BY <1>1, <1>3, <1>6
    <3> QED
      BY <2>1, <3>1, GainChange
  <2>3. Worth(w, u)[c] = Cost1(k, u \in TrueVars(t, c), t.weight[c])
    BY <1>3, <1>4, <1>5, WorthAt DEF Cost1
  <2>4. Worth(t, u)[c] = Cost1(t.sat_count[c], u \in TrueVars(t, c), t.weight[c])
    BY WorthAt DEF Cost1
  <2>5. t.score[u] = Gain(t, u)
    BY <1>1
  <2> QED
    BY <2>2, <2>3, <2>4, <2>5
<1>9. Problem(w.clauses, VarsIn(w))
  BY <1>1, <1>3, <1>4
<1> QED
  BY <1>1, <1>2, <1>3, <1>4, <1>6, <1>7, <1>8, <1>9 DEF FlipState

-----------------------------------------------------------------------------
(* flip_clause: one clause, by how many literals of it are true. *)

(* The clauses that are true no longer, or again, and the same otherwise. *)
LEMMA ZerosAfter ==
  ASSUME NEW t, NEW w, Weighed(t), w.clauses = t.clauses, NEW c \in ClausesOf(t), NEW k \in Nat,
         w.sat_count = SetAt(t.sat_count, c, k)
  PROVE  Zeros(w) = IF k = 0 THEN Zeros(t) \cup {c} ELSE Zeros(t) \ {c}
<1>1. ClausesOf(w) = ClausesOf(t)
  BY DEF ClausesOf
<1>2. w.sat_count[c] = k /\ \A d \in ClausesOf(t) : d # c => w.sat_count[d] = t.sat_count[d]
  BY DEF Weighed, SetAt
<1> QED
  BY <1>1, <1>2 DEF Zeros

(* The count changes and nothing else. *)
LEMMA Recounted ==
  ASSUME NEW t, NEW m, NEW v, NEW P, FlipState(t, m, v, P), NEW c \in ClausesOf(t), NEW k \in Nat,
         NEW u, u = WithCount(t, c, k)
  PROVE  /\ Same(u, t, {"sat_count"}) /\ u.sat_count = SetAt(t.sat_count, c, k)
         /\ Rec(u) /\ u.clauses = t.clauses /\ u.solution = t.solution /\ u.score = t.score
         /\ u.weight = t.weight /\ u.sat_var = t.sat_var
         /\ Counted(u, Zeros(t)) /\ VarsIn(u) = VarsIn(t) /\ ClausesOf(u) = ClausesOf(t)
<1>1. Rec(t) /\ Counted(t, Zeros(t))
  BY DEF FlipState
<1>2. Same(u, t, {"sat_count"}) /\ u.sat_count = SetAt(t.sat_count, c, k)
  BY <1>1, CountFacts
<1>3. Rec(u) /\ u.clauses = t.clauses /\ u.solution = t.solution /\ u.score = t.score
      /\ u.weight = t.weight /\ u.sat_var = t.sat_var
  BY <1>2 DEF Same, Fields
<1>4. Counted(u, Zeros(t))
  <2>1. {"sat_count"} \cap (UnsatFields \cup {"clauses", "solution"}) = {}
    BY DEF UnsatFields
  <2> QED
    BY <1>1, <1>2, <2>1, CountedSame
<1> QED
  BY <1>2, <1>3, <1>4, SameMeaning

(* flip_clause where the clause stays true: no list changes. *)
LEMMA FlipOther ==
  ASSUME NEW t, NEW m, NEW v, NEW P, FlipState(t, m, v, P), NEW c \in ClausesOf(t), NEW k \in Nat \ {0},
         NEW u, u = WithCount(t, c, k), t.sat_count[c] # 0
  PROVE  Flipped(t, u, c, k) /\ u.score = t.score /\ u.sat_var = t.sat_var
<1>1. Weighed(t) /\ t.sat_var \in [ClausesOf(t) -> Int] /\ t.score \in [VarsIn(t) -> Int]
  BY DEF FlipState
<1>2. /\ Same(u, t, {"sat_count"}) /\ u.sat_count = SetAt(t.sat_count, c, k)
      /\ Rec(u) /\ u.clauses = t.clauses /\ u.solution = t.solution /\ u.score = t.score
      /\ u.weight = t.weight /\ u.sat_var = t.sat_var
      /\ Counted(u, Zeros(t)) /\ VarsIn(u) = VarsIn(t) /\ ClausesOf(u) = ClausesOf(t)
  BY Recounted
<1>3. Zeros(u) = Zeros(t)
  <2>1. Zeros(u) = Zeros(t) \ {c}
    BY <1>1, <1>2, ZerosAfter
  <2>2. c \notin Zeros(t)
    BY DEF Zeros
  <2> QED
    BY <2>1, <2>2
<1>4. Same(u, t, FlipFields)
  BY <1>2 DEF Same, FlipFields
<1> QED
  BY <1>1, <1>2, <1>3, <1>4 DEF Flipped

(* Scores change too. *)
LEMMA FlipRescored ==
  ASSUME NEW t, Weighed(t), NEW c \in ClausesOf(t), NEW k, NEW u, Flipped(t, u, c, k),
         NEW vs, NEW x \in Int, NEW w, w = Rescored(u, vs, x)
  PROVE  /\ Flipped(t, w, c, k) /\ w.sat_var = u.sat_var
         /\ \A y \in VarsIn(t) : w.score[y] = IF y \in vs THEN u.score[y] + x ELSE u.score[y]
<1>1. /\ Same(u, t, FlipFields)
      /\ u.sat_count = SetAt(t.sat_count, c, k) /\ k \in Nat
      /\ u.sat_var \in [ClausesOf(t) -> Int]
      /\ \A d \in ClausesOf(t) : d # c => u.sat_var[d] = t.sat_var[d]
      /\ u.score \in [VarsIn(t) -> Int]
      /\ Counted(u, Zeros(u))
  BY DEF Flipped
<1>2. Rec(u) /\ VarsIn(u) = VarsIn(t) /\ ClausesOf(u) = ClausesOf(t)
  BY <1>1 DEF Same, Fields, FlipFields, UnsatFields, VarsIn, ClausesOf
<1>3. /\ Same(w, u, {"score"}) /\ w.score \in [VarsIn(t) -> Int]
      /\ \A y \in VarsIn(t) : w.score[y] = IF y \in vs THEN u.score[y] + x ELSE u.score[y]
  <2>1. u.score \in [VarsIn(u) -> Int]
    BY <1>1, <1>2
  <2>2. /\ Same(w, u, {"score"}) /\ w.score \in [VarsIn(u) -> Int]
        /\ \A y \in VarsIn(u) : w.score[y] = IF y \in vs THEN u.score[y] + x ELSE u.score[y]
    BY <1>2, <2>1, RescoredFacts
  <2> QED
    BY <1>2, <2>2
<1>4. /\ w.sat_count = u.sat_count /\ w.sat_var = u.sat_var /\ w.clauses = u.clauses
  BY <1>3 DEF Same, Fields
<1>5. Counted(w, Zeros(w))
  <2>1. {"score"} \cap (UnsatFields \cup {"clauses", "solution"}) = {}
    BY DEF UnsatFields
  <2>2. Zeros(w) = Zeros(u)
    BY <1>4 DEF Zeros, ClausesOf
  <2> QED
    BY <1>1, <1>3, <2>1, <2>2, CountedSame
<1>6. Same(w, t, FlipFields)
  BY <1>1, <1>3 DEF Same, FlipFields
<1> QED
  BY <1>1, <1>3, <1>4, <1>5, <1>6 DEF Flipped

(* The variable that makes c true is noted. *)
LEMMA FlipNoted ==
  ASSUME NEW t, NEW c \in ClausesOf(t), NEW k, NEW u, Flipped(t, u, c, k),
         NEW x \in Int, NEW w, w = WithVar(u, c, x)
  PROVE  Flipped(t, w, c, k) /\ w.sat_var[c] = x /\ w.score = u.score
<1>1. /\ Same(u, t, FlipFields)
      /\ u.sat_count = SetAt(t.sat_count, c, k) /\ k \in Nat
      /\ u.sat_var \in [ClausesOf(t) -> Int]
      /\ \A d \in ClausesOf(t) : d # c => u.sat_var[d] = t.sat_var[d]
      /\ u.score \in [VarsIn(t) -> Int]
      /\ Counted(u, Zeros(u))
  BY DEF Flipped
<1>2. Rec(u) /\ VarsIn(u) = VarsIn(t) /\ ClausesOf(u) = ClausesOf(t)
  BY <1>1 DEF Same, Fields, FlipFields, UnsatFields, VarsIn, ClausesOf
<1>3. Same(w, u, {"sat_var"}) /\ w.sat_var = SetAt(u.sat_var, c, x)
  BY <1>2, CountFacts
<1>4. w.sat_count = u.sat_count /\ w.score = u.score /\ w.clauses = u.clauses
  BY <1>3 DEF Same, Fields
<1>5. Counted(w, Zeros(w))
  <2>1. {"sat_var"} \cap (UnsatFields \cup {"clauses", "solution"}) = {}
    BY DEF UnsatFields
  <2>2. Zeros(w) = Zeros(u)
    BY <1>4 DEF Zeros, ClausesOf
  <2> QED
    BY <1>1, <1>3, <2>1, <2>2, CountedSame
<1>6. Same(w, t, FlipFields)
  BY <1>1, <1>3 DEF Same, FlipFields
<1>7. w.sat_var \in [ClausesOf(t) -> Int] /\ w.sat_var[c] = x
      /\ \A d \in ClausesOf(t) : d # c => w.sat_var[d] = u.sat_var[d]
  BY <1>1, <1>3 DEF SetAt
<1> QED
  BY <1>1, <1>4, <1>5, <1>6, <1>7 DEF Flipped

(* A clause becomes true, or is true no longer. *)
LEMMA FlipSat ==
  ASSUME NEW t, NEW m, NEW v, NEW P, FlipState(t, m, v, P), NEW c \in ClausesOf(t),
         t.sat_count[c] = 0, NEW u, u = WithCount(t, c, 1), NEW w, w = sat_a_clause(u, c)
  PROVE  Flipped(t, w, c, 1) /\ w.score = t.score /\ VarsIn(w) = VarsIn(t)
<1>1. /\ Weighed(t) /\ t.sat_var \in [ClausesOf(t) -> Int] /\ t.score \in [VarsIn(t) -> Int]
      /\ Problem(t.clauses, VarsIn(t))
  BY DEF FlipState
<1>2. /\ Same(u, t, {"sat_count"}) /\ u.sat_count = SetAt(t.sat_count, c, 1)
      /\ Rec(u) /\ u.clauses = t.clauses /\ u.solution = t.solution /\ u.score = t.score
      /\ u.weight = t.weight /\ u.sat_var = t.sat_var
      /\ Counted(u, Zeros(t)) /\ VarsIn(u) = VarsIn(t) /\ ClausesOf(u) = ClausesOf(t)
  BY Recounted
<1>3. c \in Zeros(t)
  BY DEF Zeros
<1>4. Counted(w, Zeros(t) \ {c}) /\ Same(w, u, UnsatFields)
  BY <1>1, <1>2, <1>3, SatFacts
<1>5. /\ w.sat_count = u.sat_count /\ w.sat_var = u.sat_var /\ w.clauses = u.clauses
      /\ w.score = u.score /\ w.solution = u.solution
  BY <1>4 DEF Same, Fields, UnsatFields
<1>6. Zeros(w) = Zeros(t) \ {c}
  BY <1>1, <1>2, <1>5, ZerosAfter
<1>7. Same(w, t, FlipFields)
  BY <1>2, <1>4 DEF Same, FlipFields
<1>8. VarsIn(w) = VarsIn(t)
  BY <1>2, <1>5, SameMeaning
<1> QED
  BY <1>1, <1>2, <1>4, <1>5, <1>6, <1>7, <1>8 DEF Flipped

(* flip_clause where the clause becomes false. *)
LEMMA FlipUnsat ==
  ASSUME NEW t, NEW m, NEW v, NEW P, FlipState(t, m, v, P), NEW c \in ClausesOf(t),
         t.sat_count[c] # 0, NEW u, u = WithCount(t, c, 0), NEW w, w = unsat_a_clause(u, c)
  PROVE  Flipped(t, w, c, 0) /\ w.score = t.score /\ VarsIn(w) = VarsIn(t)
<1>1. /\ Weighed(t) /\ t.sat_var \in [ClausesOf(t) -> Int] /\ t.score \in [VarsIn(t) -> Int]
      /\ Problem(t.clauses, VarsIn(t))
  BY DEF FlipState
<1>2. /\ Same(u, t, {"sat_count"}) /\ u.sat_count = SetAt(t.sat_count, c, 0)
      /\ Rec(u) /\ u.clauses = t.clauses /\ u.solution = t.solution /\ u.score = t.score
      /\ u.weight = t.weight /\ u.sat_var = t.sat_var
      /\ Counted(u, Zeros(t)) /\ VarsIn(u) = VarsIn(t) /\ ClausesOf(u) = ClausesOf(t)
  BY Recounted
<1>3. c \notin Zeros(t)
  BY DEF Zeros
<1>4. Counted(w, Zeros(t) \cup {c}) /\ Same(w, u, UnsatFields)
  BY <1>1, <1>2, <1>3, UnsatFacts
<1>5. /\ w.sat_count = u.sat_count /\ w.sat_var = u.sat_var /\ w.clauses = u.clauses
      /\ w.score = u.score /\ w.solution = u.solution
  BY <1>4 DEF Same, Fields, UnsatFields
<1>6. Zeros(w) = Zeros(t) \cup {c}
  BY <1>1, <1>2, <1>5, ZerosAfter
<1>7. Same(w, t, FlipFields)
  BY <1>2, <1>4 DEF Same, FlipFields
<1>8. VarsIn(w) = VarsIn(t)
  BY <1>2, <1>5, SameMeaning
<1> QED
  BY <1>1, <1>2, <1>4, <1>5, <1>6, <1>7, <1>8 DEF Flipped

(* The variable of the one literal that is true. *)
LEMMA SoleVarFacts ==
  ASSUME NEW s, NEW c, NEW i, TrueAt(s, c) = {i}, i \in Int
  PROVE  SoleVar(s, c) = Var(s.clauses[c][i])
<1>1. Min({i}) = i
  <2>1. \A x : (x \in {i} /\ \A y \in {i} : x =< y) <=> x = i
    OBVIOUS
  <2> QED
    BY <2>1 DEF Min
<1> QED
  BY <1>1 DEF SoleVar

(* The clause c, of which v is one variable, before and after. *)
LEMMA FlipCounts ==
  ASSUME NEW t, NEW m, NEW v, NEW P, FlipState(t, m, v, P), NEW c \in ClausesOf(t), c \notin P,
         Mentions(t, c, v), NEW n, n = t.sat_count[c]
  PROVE  /\ n \in Nat /\ t.weight[c] \in Int
         /\ IF v \in TrueVars(t, c)
            THEN /\ Cardinality(TrueAt(t, c)) = n + 1
                 /\ n = 0 => \A u : u \in TrueVars(t, c) => u = v
                 /\ n = 1 => \A u \in VarsIn(t) \ {v} : u \in TrueVars(t, c) <=> u = t.sat_var[c]
            ELSE /\ n >= 1 /\ Cardinality(TrueAt(t, c)) = n - 1
                 /\ n = 2 => /\ SoleVar(t, c) \in VarsIn(t)
                             /\ \A u : u \in TrueVars(t, c) <=> u = SoleVar(t, c)
<1> DEFINE V == VarsIn(t)
           old == TrueIn(t, m, c)
           new == TrueAt(t, c)
           var(i) == Var(t.clauses[c][i])
<1>1. /\ Problem(t.clauses, V) /\ Weighed(t) /\ v \in V /\ m \in [V -> BOOLEAN]
      /\ t.solution = Turned(m, v) /\ RightAt(t, m, c)
  BY DEF FlipState
<1>2. n \in Nat /\ t.weight[c] \in Int
  BY <1>1 DEF Weighed
<1>4. /\ \E i \in DOMAIN t.clauses[c] : var(i) = v
      /\ \A j, k \in DOMAIN t.clauses[c] : var(j) = var(k) => j = k
  <2>1. Problem(t.clauses, V)
    BY <1>1
  <2> HIDE DEF V
  <2>2. IsAt(t, c, v) /\ Once(t, c)
    BY <2>1, MentionedAt
  <2> QED
    BY <2>2 DEF IsAt, Once
<1>3. PICK i \in DOMAIN t.clauses[c] : var(i) = v
  BY <1>4
<1>5. new = TrueIn(t, t.solution, c)
  BY DEF TrueAt, TrueIn
<1>6. new = IF i \in old THEN old \ {i} ELSE old \cup {i}
  <2>1. /\ Problem(t.clauses, V) /\ v \in V /\ m \in [V -> BOOLEAN]
        /\ t.solution = Turned(m, v)
    BY <1>1
  <2>2. Var(t.clauses[c][i]) = v
    BY <1>3
  <2> HIDE DEF V, var, old, new
  <2>3. TurnsAt(t, m, Turned(m, v), c, v)
    BY <2>1, TrueFlipped
  <2>4. new = TrueIn(t, Turned(m, v), c)
    BY <1>5, <2>1
  <2> QED
    BY <1>3, <2>2, <2>3, <2>4 DEF old, TurnsAt
<1>7. old \subseteq DOMAIN t.clauses[c] /\ \A u : u \in TrueVars(t, c) <=> \E j \in new : var(j) = u
  BY DEF TrueIn, TrueVars
<1>8. \A j \in DOMAIN t.clauses[c] : j \in Int /\ var(j) \in V
  <2>1. \A j \in DOMAIN t.clauses[c] : var(j) \in V
    BY <1>1 DEF Problem, ClausesOf
  <2>2. t.clauses[c] \in Seq(Lits)
    BY <1>1 DEF Problem, ClausesOf
  <2>3. DOMAIN t.clauses[c] = 1 .. Len(t.clauses[c])
    BY <2>2
  <2> QED
    BY <2>1, <2>3
<1>9. IsFiniteSet(old) /\ IsFiniteSet(new)
  <2>1. Problem(t.clauses, V)
    BY <1>1
  <2> HIDE DEF V, var
  <2> QED
    BY <1>5, <2>1, TrueFinite
<1>14. n = Cardinality(old)
  BY <1>1 DEF RightAt
<1>13. n = 1 => \E j \in old : t.sat_var[c] = var(j)
  BY <1>1 DEF RightAt
<1> HIDE DEF old, new, var, V
<1>10. v \in TrueVars(t, c) <=> i \notin old
  BY <1>3, <1>4, <1>6, <1>7
<1>11. CASE i \notin old
  <2>1. new = old \cup {i} /\ Cardinality(new) = n + 1
    BY <1>6, <1>9, <1>14, <1>11, FS_AddElement
  <2>2. n = 0 => old = {}
    BY <1>9, <1>14, FS_EmptySet
  <2>3. n = 0 => \A u : u \in TrueVars(t, c) => u = v
    BY <1>3, <1>7, <2>1, <2>2
  <2>4. ASSUME n = 1, NEW u \in V \ {v} PROVE u \in TrueVars(t, c) <=> u = t.sat_var[c]
    <3>1. PICK x : old = {x}
      <4>1. Cardinality(old) = 1
        BY <1>14, <2>4
      <4> QED
        BY <1>9, <4>1, FS_Singleton
    <3>2. t.sat_var[c] = var(x)
      BY <1>13, <2>4, <3>1
    <3>3. new = {x, i}
      BY <2>1, <3>1
    <3> QED
      BY <1>3, <1>7, <2>4, <3>2, <3>3
  <2> QED
    BY <1>2, <1>10, <1>11, <2>1, <2>3, <2>4 DEF new, V
<1>12. CASE i \in old
  <2>1. new = old \ {i} /\ Cardinality(new) = n - 1
    BY <1>6, <1>9, <1>14, <1>12, FS_RemoveElement
  <2>2. n >= 1
    <3>1. n # 0
      BY <1>9, <1>14, <1>12, FS_EmptySet
    <3> QED
      BY <1>2, <3>1
  <2>3. ASSUME n = 2
        PROVE  SoleVar(t, c) \in V /\ \A u : u \in TrueVars(t, c) <=> u = SoleVar(t, c)
    <3>1. PICK x : new = {x}
      <4>1. Cardinality(new) = 1
        BY <2>1, <2>3
      <4> QED
        BY <1>9, <4>1, FS_Singleton
    <3>2. x \in DOMAIN t.clauses[c]
      BY <1>7, <2>1, <3>1
    <3>3. SoleVar(t, c) = var(x)
      BY <1>8, <3>1, <3>2, SoleVarFacts DEF new, var
    <3> QED
      BY <1>7, <1>8, <3>1, <3>2, <3>3
  <2> QED
    BY <1>2, <1>10, <1>12, <2>1, <2>2, <2>3 DEF new, V
<1> QED
  BY <1>11, <1>12

(* flip_clause, in all its cases: one step of the loop of flip. *)
LEMMA FlipClause ==
  ASSUME NEW t, NEW m, NEW v, NEW P, FlipState(t, m, v, P), NEW c \in ClausesOf(t), c \notin P,
         Mentions(t, c, v), NEW w, w = flip_clause(t, v, c)
  PROVE  /\ FlipState(w, m, v, P \cup {c})
         /\ \E k : Flipped(t, w, c, k)
<1> DEFINE n == t.sat_count[c]
           made == v \in TrueVars(t, c)
           vs == ToSet(ClauseVars(t, c))
           x == t.weight[c]
           gained == WithCount(t, c, n + 1)
           lost == WithCount(t, c, n - 1)
           a == sat_a_clause(gained, c)
           b == unsat_a_clause(lost, c)
           sole == SoleVar(t, c)
           d == Rescored(lost, {sole}, -x)
<1>1. w = CASE made /\ n = 0 -> Rescored(WithVar(a, c, v), vs, -x)
            [] made /\ n = 1 -> Rescored(gained, {t.sat_var[c]}, x)
            [] ~made /\ n = 1 -> Rescored(b, vs, x)
            [] ~made /\ n = 2 -> WithVar(d, c, SoleVar(lost, c))
            [] OTHER -> IF made THEN gained ELSE lost
  BY DEF flip_clause, WithCount, WithVar
<1> DEFINE V == VarsIn(t)
<1>2. /\ n \in Nat /\ x \in Int
      /\ made => /\ Cardinality(TrueAt(t, c)) = n + 1
                 /\ n = 0 => \A u : u \in TrueVars(t, c) => u = v
                 /\ n = 1 => \A u \in V \ {v} : u \in TrueVars(t, c) <=> u = t.sat_var[c]
      /\ ~made => /\ n >= 1 /\ Cardinality(TrueAt(t, c)) = n - 1
                  /\ n = 2 => /\ sole \in V
                              /\ \A u : u \in TrueVars(t, c) <=> u = sole
  BY FlipCounts
<1>3. /\ Weighed(t) /\ Problem(t.clauses, V) /\ v \in V /\ V \in SUBSET Int
      /\ t.score \in [V -> Int] /\ -x \in Int
  BY <1>2 DEF FlipState, Problem, Vars
<1>4. \A u : Mentions(t, c, u) <=> u \in vs
  BY DEF Mentions
<1> HIDE DEF n, made, vs, x, gained, lost, a, b, sole, d, V
<1>5. CASE made /\ n = 0
  <2>1. w = Rescored(WithVar(a, c, v), vs, -x)
    BY <1>1, <1>5
  <2>2. Flipped(t, a, c, 1) /\ a.score = t.score
    BY <1>5, FlipSat DEF n, gained, a
  <2> DEFINE e == WithVar(a, c, v)
  <2>3. Flipped(t, e, c, 1) /\ e.sat_var[c] = v /\ e.score = t.score
    <3>1. v \in Int
      BY <1>3
    <3> QED
      BY <2>2, <3>1, FlipNoted
  <2> HIDE DEF e
  <2>4. /\ Flipped(t, w, c, 1) /\ w.sat_var = e.sat_var
        /\ \A u \in V : w.score[u] = IF u \in vs THEN t.score[u] + (-x) ELSE t.score[u]
    BY <1>3, <2>1, <2>3, FlipRescored DEF e, V
  <2>5. ASSUME NEW u \in V \ {v}
        PROVE  w.score[u] = IF Mentions(t, c, u)
                 THEN t.score[u] + (Cost1(1, u \in TrueVars(t, c), x) - Cost1(n, u \in TrueVars(t, c), x))
                 ELSE t.score[u]
    <3>1. u \notin TrueVars(t, c)
      BY <1>2, <1>5
    <3>2. Cost1(1, u \in TrueVars(t, c), x) = 0 /\ Cost1(n, u \in TrueVars(t, c), x) = x
      BY <1>5, <3>1 DEF Cost1
    <3>3. t.score[u] \in Int
      BY <1>3
    <3> QED
      BY <1>2, <1>4, <2>4, <3>2, <3>3
  <2>6. 1 = Cardinality(TrueAt(t, c)) /\ w.sat_var[c] \in TrueVars(t, c)
    BY <1>2, <1>5, <2>3, <2>4 DEF made
  <2>7. FlipState(w, m, v, P \cup {c})
    BY <2>4, <2>5, <2>6, FlippedKeeps, SMTT(30) DEF V, n, x
  <2> QED
    BY <2>4, <2>7
<1>6. CASE made /\ n = 1
  <2>1. w = Rescored(gained, {t.sat_var[c]}, x)
    BY <1>1, <1>6
  <2>2. Flipped(t, gained, c, n + 1) /\ gained.score = t.score
    BY <1>2, <1>6, FlipOther DEF n, gained
  <2>3. /\ Flipped(t, w, c, n + 1)
        /\ \A u \in V : w.score[u] = IF u \in {t.sat_var[c]} THEN t.score[u] + x ELSE t.score[u]
    BY <1>2, <1>3, <2>1, <2>2, FlipRescored DEF V
  <2>4. ASSUME NEW u \in V \ {v}
        PROVE  w.score[u] = IF Mentions(t, c, u)
                 THEN t.score[u] + (Cost1(n + 1, u \in TrueVars(t, c), x) - Cost1(n, u \in TrueVars(t, c), x))
                 ELSE t.score[u]
    <3>1. u \in TrueVars(t, c) <=> u = t.sat_var[c]
      BY <1>2, <1>6
    <3>2. /\ Cost1(n + 1, u \in TrueVars(t, c), x) = 0
          /\ Cost1(n, u \in TrueVars(t, c), x) = IF u \in TrueVars(t, c) THEN -x ELSE 0
      BY <1>6 DEF Cost1
    <3>3. t.score[u] \in Int
      BY <1>3
    <3>4. u \in TrueVars(t, c) => Mentions(t, c, u)
      BY DEF TrueVars, TrueAt, Mentions, ToSet, ClauseVars
    <3> QED
      BY <1>2, <2>3, <3>1, <3>2, <3>3, <3>4
  <2>5. n + 1 = Cardinality(TrueAt(t, c)) /\ n + 1 # 1
    BY <1>2, <1>6
  <2>6. FlipState(w, m, v, P \cup {c})
    BY <2>3, <2>4, <2>5, FlippedKeeps DEF V, n, x
  <2> QED
    BY <2>3, <2>6
<1>7. CASE ~made /\ n = 1
  <2>1. w = Rescored(b, vs, x)
    BY <1>1, <1>7
  <2>2. Flipped(t, b, c, 0) /\ b.score = t.score
    <3>1. lost = WithCount(t, c, 0) /\ t.sat_count[c] # 0
      BY <1>7 DEF lost, n
    <3> QED
      BY <3>1, FlipUnsat DEF b
  <2>3. /\ Flipped(t, w, c, 0)
        /\ \A u \in V : w.score[u] = IF u \in vs THEN t.score[u] + x ELSE t.score[u]
    BY <1>2, <1>3, <2>1, <2>2, FlipRescored DEF V
  <2>4. ASSUME NEW u \in V \ {v}
        PROVE  w.score[u] = IF Mentions(t, c, u)
                 THEN t.score[u] + (Cost1(0, u \in TrueVars(t, c), x) - Cost1(n, u \in TrueVars(t, c), x))
                 ELSE t.score[u]
    <3>1. u \notin TrueVars(t, c)
      <4>1. Cardinality(TrueAt(t, c)) = 0
        BY <1>2, <1>7
      <4>2. IsFiniteSet(TrueAt(t, c))
        <5>1. TrueAt(t, c) = TrueIn(t, t.solution, c)
          BY DEF TrueAt, TrueIn
        <5> QED
          BY <1>3, <5>1, TrueFinite
      <4>3. TrueAt(t, c) = {}
        BY <4>1, <4>2, FS_EmptySet
      <4> QED
        BY <4>3 DEF TrueVars
    <3>2. Cost1(0, u \in TrueVars(t, c), x) = x /\ Cost1(n, u \in TrueVars(t, c), x) = 0
      BY <1>7, <3>1 DEF Cost1
    <3>3. t.score[u] \in Int
      BY <1>3
    <3> QED
      BY <1>2, <1>4, <2>3, <3>2, <3>3
  <2>5. 0 = Cardinality(TrueAt(t, c))
    BY <1>2, <1>7
  <2>6. FlipState(w, m, v, P \cup {c})
    BY <2>3, <2>4, <2>5, FlippedKeeps DEF V, n, x
  <2> QED
    BY <2>3, <2>6
<1>8. CASE ~made /\ n = 2
  <2>1. w = WithVar(d, c, sole)
    <3>1. lost.clauses = t.clauses /\ lost.solution = t.solution
      BY <1>2, <1>8, Recounted DEF lost, n
    <3>2. SoleVar(lost, c) = sole
      BY <3>1 DEF SoleVar, TrueAt, sole
    <3> QED
      BY <1>1, <1>8, <3>2
  <2>2. Flipped(t, lost, c, 1) /\ lost.score = t.score
    <3>1. lost = WithCount(t, c, 1) /\ t.sat_count[c] # 0
      BY <1>8 DEF lost, n
    <3> QED
      BY <3>1, FlipOther
  <2>3. /\ Flipped(t, d, c, 1)
        /\ \A u \in V : d.score[u] = IF u \in {sole} THEN t.score[u] + (-x) ELSE t.score[u]
    BY <1>3, <2>2, FlipRescored DEF V, d
  <2>4. sole \in Int /\ sole \in TrueVars(t, c)
    BY <1>2, <1>3, <1>8
  <2>5. Flipped(t, w, c, 1) /\ w.sat_var[c] = sole /\ w.score = d.score
    BY <2>1, <2>3, <2>4, FlipNoted
  <2>6. ASSUME NEW u \in V \ {v}
        PROVE  w.score[u] = IF Mentions(t, c, u)
                 THEN t.score[u] + (Cost1(1, u \in TrueVars(t, c), x) - Cost1(n, u \in TrueVars(t, c), x))
                 ELSE t.score[u]
    <3>1. u \in TrueVars(t, c) <=> u = sole
      BY <1>2, <1>8
    <3>2. /\ Cost1(n, u \in TrueVars(t, c), x) = 0
          /\ Cost1(1, u \in TrueVars(t, c), x) = IF u \in TrueVars(t, c) THEN -x ELSE 0
      BY <1>8 DEF Cost1
    <3>3. t.score[u] \in Int
      BY <1>3
    <3>4. u \in TrueVars(t, c) => Mentions(t, c, u)
      BY DEF TrueVars, TrueAt, Mentions, ToSet, ClauseVars
    <3> QED
      BY <1>2, <2>3, <2>5, <3>1, <3>2, <3>3, <3>4
  <2>7. 1 = Cardinality(TrueAt(t, c))
    BY <1>2, <1>8
  <2>8. FlipState(w, m, v, P \cup {c})
    BY <2>4, <2>5, <2>6, <2>7, FlippedKeeps DEF V, n, x
  <2> QED
    BY <2>5, <2>8
<1>9. CASE ~(made /\ n = 0) /\ ~(made /\ n = 1) /\ ~(~made /\ n = 1) /\ ~(~made /\ n = 2)
  <2> DEFINE k == IF made THEN n + 1 ELSE n - 1
  <2>1. w = WithCount(t, c, k)
    BY <1>1, <1>9 DEF gained, lost
  <2>2. k \in Nat \ {0} /\ k # 1 /\ n # 0 /\ n # 1 /\ k = Cardinality(TrueAt(t, c))
    BY <1>2, <1>9
  <2> HIDE DEF k
  <2>3. Flipped(t, w, c, k) /\ w.score = t.score
    BY <2>1, <2>2, FlipOther DEF n
  <2>4. ASSUME NEW u \in V \ {v}
        PROVE  w.score[u] = IF Mentions(t, c, u)
                 THEN t.score[u] + (Cost1(k, u \in TrueVars(t, c), x) - Cost1(n, u \in TrueVars(t, c), x))
                 ELSE t.score[u]
    <3>1. Cost1(k, u \in TrueVars(t, c), x) = 0 /\ Cost1(n, u \in TrueVars(t, c), x) = 0
      BY <2>2 DEF Cost1
    <3>2. t.score[u] \in Int
      BY <1>3
    <3> QED
      BY <2>3, <3>1, <3>2
  <2>5. FlipState(w, m, v, P \cup {c})
    BY <2>2, <2>3, <2>4, FlippedKeeps DEF V, n, x
  <2> QED
    BY <2>3, <2>5
<1> QED
  BY <1>5, <1>6, <1>7, <1>8, <1>9

-----------------------------------------------------------------------------
(* flip: all clauses of the variable. *)

FlipOp(arg, t, k) == flip_clause(t, arg[1], arg[2][k])
Flips == INSTANCE FoldTheorems WITH op <- FlipOp, pick <- Top
FlipAll(s, v, mine) == FoldLeft(LAMBDA t, c : flip_clause(t, v, c), s, mine)

(* flip, clause by clause. *)
LEMMA FlipTrace ==
  ASSUME NEW n \in Nat, NEW mine, DOMAIN mine = 1 .. n, NEW s, NEW v
  PROVE  \E g : /\ g[0] = s
                /\ \A k \in 1 .. n : g[k] = flip_clause(g[k - 1], v, mine[k])
                /\ FlipAll(s, v, mine) = g[n]
<1> DEFINE arg == <<v, mine>>
           f == CHOOSE f : Flips!Folds(arg, s, 1 .. n, f)
<1>1. \A S : Top(S) = Flips!Largest(S)
  BY DEF Top, Flips!Largest
<1>2. FlipAll(s, v, mine) = f[1 .. n]
  BY DEF FlipAll, FlipOp, Top, Flips!Folds, FoldLeft, MapThenFoldSet, Max
<1>3. \E h : Flips!Folds(arg, s, 1 .. n, h)
  BY <1>1, Least, Flips!SequenceFold
<1>4. Flips!Folds(arg, s, 1 .. n, f)
  BY <1>3
<1> HIDE DEF f
<1>5. PICK g : Flips!Trace(arg, s, n, g) /\ g[n] = f[1 .. n]
  BY <1>1, <1>4, Flips!SequenceTrace
<1> QED
  BY <1>2, <1>5 DEF Flips!Trace, FlipOp

(* All the clauses of v, one after the other. *)
LEMMA AllFlipped ==
  ASSUME NEW s, NEW m, NEW v, FlipState(s, m, v, {}), NEW t, t = FlipAll(s, v, OccursIn(s, v))
  PROVE  /\ FlipState(t, m, v, About(s, v)) /\ Same(t, s, FlipFields)
         /\ \A d \in ClausesOf(s) \ About(s, v) : t.sat_count[d] = s.sat_count[d]
<1> DEFINE mine == OccursIn(s, v)
           n == Len(mine)
           Upto(k) == {mine[i] : i \in 1 .. k}
<1>1. Problem(s.clauses, VarsIn(s)) /\ Rec(s)
  BY DEF FlipState
<1>2. /\ mine \in Seq(About(s, v)) /\ ToSet(mine) = About(s, v) /\ Distinct(mine)
  BY <1>1, OccursFacts
<1>3. n \in Nat /\ DOMAIN mine = 1 .. n
  BY <1>2
<1> HIDE DEF mine
<1>4. PICK g : /\ g[0] = s
               /\ \A k \in 1 .. n : g[k] = flip_clause(g[k - 1], v, mine[k])
               /\ t = g[n]
  BY <1>3, FlipTrace DEF mine
<1> DEFINE good(k) == /\ FlipState(g[k], m, v, Upto(k)) /\ Same(g[k], s, FlipFields)
                      /\ \A d \in ClausesOf(s) \ About(s, v) : g[k].sat_count[d] = s.sat_count[d]
           G == {k \in 0 .. n : good(k)}
<1>5. 0 \in G
  <2>1. Upto(0) = {} /\ 0 \in 0 .. n
    BY <1>3
  <2>2. Same(s, s, FlipFields)
    BY <1>1 DEF Same
  <2> HIDE DEF Upto, n
  <2> QED
    BY <1>4, <2>1, <2>2
<1>6. ASSUME NEW k \in 1 .. n, k - 1 \in G PROVE k \in G
  <2>1. k \in 0 .. n /\ good(k - 1)
    BY <1>6
  <2> DEFINE c == mine[k]
             u == g[k - 1]
             w == g[k]
             P == Upto(k - 1)
  <2>2. Upto(k) = P \cup {c} /\ c \notin P /\ c \in About(s, v)
    <3>1. \A i \in 1 .. k : i \in 1 .. k - 1 \/ i = k
      OBVIOUS
    <3>2. k \in 1 .. k /\ \A i \in 1 .. k - 1 : i \in 1 .. k /\ i # k /\ i \in 1 .. n
      OBVIOUS
    <3> QED
      BY <1>2, <1>3, <3>1, <3>2 DEF Distinct, ToSet
  <2>3. w = flip_clause(u, v, c)
    BY <1>4
  <2>4. FlipState(u, m, v, P) /\ Same(u, s, FlipFields)
        /\ \A d \in ClausesOf(s) \ About(s, v) : u.sat_count[d] = s.sat_count[d]
    BY <2>1
  <2> HIDE DEF c, u, w, P, Upto
  <2>5. u.clauses = s.clauses /\ ClausesOf(u) = ClausesOf(s)
        /\ \A d, x : Mentions(u, d, x) = Mentions(s, d, x)
    BY <2>4 DEF Same, Fields, FlipFields, UnsatFields, ClausesOf, Mentions, ClauseVars
  <2>6. c \in ClausesOf(u) /\ Mentions(u, c, v)
    BY <2>2, <2>5 DEF About
  <2>7. FlipState(w, m, v, P \cup {c}) /\ \E j : Flipped(u, w, c, j)
    BY <2>2, <2>3, <2>4, <2>6, FlipClause
  <2>8. PICK j : Flipped(u, w, c, j)
    BY <2>7
  <2>9. Same(w, s, FlipFields)
    BY <2>4, <2>8 DEF Flipped, Same
  <2>10. ASSUME NEW d \in ClausesOf(s) \ About(s, v) PROVE w.sat_count[d] = s.sat_count[d]
    <3>1. d # c
      BY <2>2
    <3>2. w.sat_count = SetAt(u.sat_count, c, j) /\ u.sat_count \in [ClausesOf(u) -> Nat]
      BY <2>4, <2>8 DEF Flipped, FlipState, Weighed
    <3>3. w.sat_count[d] = u.sat_count[d]
      BY <2>5, <3>1, <3>2 DEF SetAt
    <3> QED
      BY <2>4, <3>3
  <2> QED
    BY <2>1, <2>2, <2>7, <2>9, <2>10 DEF w
<1> HIDE DEF G
<1>7. n \in G
  BY <1>3, <1>5, <1>6, Climb
<1>8. Upto(n) = About(s, v)
  BY <1>2, <1>3 DEF ToSet
<1> QED
  BY <1>4, <1>7, <1>8 DEF G

-----------------------------------------------------------------------------
(* The invariant of the data, part by part. *)
CountsOk(s) ==
  /\ Rec(s) /\ Problem(s.clauses, VarsIn(s)) /\ s.solution \in [VarsIn(s) -> BOOLEAN]
  /\ Weighed(s) /\ s.sat_var \in [ClausesOf(s) -> Int]
  /\ Counted(s, Zeros(s))
  /\ \A d \in ClausesOf(s) : RightAt(s, s.solution, d)
Scored(s) ==
  /\ s.score \in [VarsIn(s) -> Int]
  /\ \A u \in VarsIn(s) : s.score[u] = Gain(s, u)

(* The counts do not depend on the solution itself. *)
LEMMA CountedTurned ==
  ASSUME NEW s, NEW t, NEW N, Same(t, s, N), VarsIn(t) = VarsIn(s),
         N \cap (UnsatFields \cup {"clauses"}) = {}, NEW U, Counted(s, U)
  PROVE  Counted(t, U)
<1>1. /\ Rec(t) /\ t.clauses = s.clauses
      /\ t.unsat_clauses = s.unsat_clauses /\ t.unsat_vars = s.unsat_vars
      /\ t.unsat_appear = s.unsat_appear
  BY DEF Same, Fields, UnsatFields
<1>2. ClausesOf(t) = ClausesOf(s) /\ \A v : AboutIn(t, U, v) = AboutIn(s, U, v)
  BY <1>1 DEF ClausesOf, AboutIn, Mentions, ClauseVars
<1>3. Appearing(t, VarsIn(t))
  BY <1>1 DEF Counted, Appearing
<1> QED
  BY <1>1, <1>2, <1>3 DEF Counted

TurnVar(s, v, n) == [s EXCEPT !.solution[v] = ~@, !.mems = @ + n]

(* The variable is turned before its clauses are looked at. *)
LEMMA TurnVarFacts ==
  ASSUME NEW s, Rec(s), NEW v, NEW n
  PROVE  /\ Same(TurnVar(s, v, n), s, {"solution", "mems"})
         /\ TurnVar(s, v, n).solution = Turned(s.solution, v)
         /\ TurnVar(s, v, n).mems = s.mems + n
BY DEF Rec, Same, Fields, TurnVar, Turned

(* The literals of the other variables are as true as before. *)
LEMMA OthersTrue ==
  ASSUME NEW s, NEW V, Problem(s.clauses, V), NEW v \in V, s.solution \in [V -> BOOLEAN], NEW t,
         t.clauses = s.clauses, t.solution = Turned(s.solution, v), NEW c \in ClausesOf(s), NEW u, u # v
  PROVE  u \in TrueVars(t, c) <=> u \in TrueVars(s, c)
<1>1. ASSUME NEW i \in DOMAIN s.clauses[c], Var(s.clauses[c][i]) = u
      PROVE  Makes(t.solution, s.clauses[c][i]) <=> Makes(s.solution, s.clauses[c][i])
  <2> DEFINE p == s.clauses[c][i]
  <2>1. Var(p) \in V /\ Var(p) # v
    BY <1>1 DEF Problem, ClausesOf
  <2> HIDE DEF p
  <2>2. Makes(Turned(s.solution, v), p) <=> Makes(s.solution, p)
    BY <2>1, MakesFlipped
  <2> QED
    BY <2>2 DEF p
<1> QED
  BY <1>1 DEF TrueVars, TrueAt

(* The loop of flip begins with no clause seen. *)
LEMMA FlipBegins ==
  ASSUME NEW s, CountsOk(s), Scored(s), NEW v \in VarsIn(s), NEW n,
         NEW t, t = TurnVar(s, v, n)
  PROVE  FlipState(t, s.solution, v, {}) /\ VarsIn(t) = VarsIn(s)
<1> DEFINE V == VarsIn(s)
           m == s.solution
<1>1. /\ Rec(s) /\ Problem(s.clauses, V) /\ m \in [V -> BOOLEAN]
      /\ Weighed(s) /\ s.sat_var \in [ClausesOf(s) -> Int]
      /\ Counted(s, Zeros(s))
      /\ \A d \in ClausesOf(s) : RightAt(s, m, d)
      /\ s.score \in [V -> Int] /\ \A u \in V : s.score[u] = Gain(s, u)
  BY DEF CountsOk, Scored
<1>2. Same(t, s, {"solution", "mems"}) /\ t.solution = Turned(m, v)
  BY <1>1, TurnVarFacts
<1>3. /\ Rec(t) /\ t.clauses = s.clauses /\ t.sat_count = s.sat_count /\ t.weight = s.weight
      /\ t.sat_var = s.sat_var /\ t.score = s.score
  BY <1>2 DEF Same, Fields
<1>4. VarsIn(t) = V
  BY <1>1, <1>2 DEF VarsIn, Turned
<1>5. ClausesOf(t) = ClausesOf(s) /\ Zeros(t) = Zeros(s) /\ Weighed(t)
      /\ \A x, d : TrueIn(t, x, d) = TrueIn(s, x, d)
  BY <1>1, <1>3 DEF ClausesOf, Zeros, Weighed, TrueIn
<1>6. Counted(t, Zeros(t))
  <2>1. {"solution", "mems"} \cap (UnsatFields \cup {"clauses"}) = {}
    BY DEF UnsatFields
  <2> QED
    BY <1>1, <1>2, <1>4, <1>5, <2>1, CountedTurned
<1>7. \A d \in ClausesOf(t) : RightAt(t, m, d)
  BY <1>1, <1>3, <1>5 DEF RightAt
<1>8. ASSUME NEW u \in V \ {v} PROVE t.score[u] = Gain(t, u)
  <2>1. \A d \in ClausesOf(s) : u \in TrueVars(t, d) <=> u \in TrueVars(s, d)
    BY <1>1, <1>2, <1>3, OthersTrue
  <2>2. \A d \in About(s, u) : Worth(t, u)[d] = Worth(s, u)[d]
    BY <1>3, <1>5, <2>1, WorthAt DEF About
  <2>3. Gain(t, u) = Gain(s, u)
    <3>1. Problem(s.clauses, V) /\ t.clauses = s.clauses
      BY <1>1, <1>3
    <3> HIDE DEF V
    <3> QED
      BY <2>2, <3>1, GainSame
  <2> QED
    BY <1>1, <1>3, <2>3
<1> QED
  BY <1>1, <1>2, <1>3, <1>4, <1>5, <1>6, <1>7, <1>8 DEF FlipState

(* After all its clauses were seen, v gains what it would have lost. *)
LEMMA WorthTurned ==
  ASSUME NEW s, NEW V, Problem(s.clauses, V), Weighed(s), NEW v \in V, s.solution \in [V -> BOOLEAN],
         NEW t, t.clauses = s.clauses, t.solution = Turned(s.solution, v), t.weight = s.weight,
         NEW c \in ClausesOf(s), Mentions(s, c, v),
         RightAt(s, s.solution, c), RightAt(t, t.solution, c)
  PROVE  Worth(t, v)[c] = -Worth(s, v)[c]
<1> DEFINE old == TrueIn(s, s.solution, c)
           new == TrueIn(s, t.solution, c)
           n == s.sat_count[c]
           k == t.sat_count[c]
           x == s.weight[c]
<1>1. TurnsAt(s, s.solution, t.solution, c, v)
  BY TrueFlipped
<1>2. IsAt(s, c, v) /\ Once(s, c)
  BY MentionedAt
<1>3. PICK i \in DOMAIN s.clauses[c] : Var(s.clauses[c][i]) = v
  BY <1>2 DEF IsAt
<1>4. \A j \in DOMAIN s.clauses[c] : Var(s.clauses[c][j]) = v <=> j = i
  BY <1>2, <1>3 DEF Once
<1>5. new = IF i \in old THEN old \ {i} ELSE old \cup {i}
  BY <1>1, <1>3 DEF TurnsAt
<1>6. v \in TrueVars(s, c) <=> i \in old
  BY <1>3, <1>4 DEF TrueVars, TrueAt, TrueIn
<1>7. v \in TrueVars(t, c) <=> i \in new
  BY <1>3, <1>4 DEF TrueVars, TrueAt, TrueIn
<1>8. IsFiniteSet(old) /\ n = Cardinality(old) /\ n \in Nat
  BY TrueFinite DEF RightAt
<1>9. k = Cardinality(new)
  BY DEF RightAt, TrueIn
<1>10. x \in Nat /\ c \in ClausesOf(t) /\ t.weight[c] = x
  BY DEF Weighed, ClausesOf
<1> HIDE DEF old, new, n, k, x
<1>11. Worth(s, v)[c] = IF n = 0 THEN x ELSE IF n = 1 /\ i \in old THEN -x ELSE 0
  BY <1>6, WorthAt DEF n, x
<1>12. Worth(t, v)[c] = IF k = 0 THEN x ELSE IF k = 1 /\ i \in new THEN -x ELSE 0
  BY <1>7, <1>10, WorthAt DEF k
<1>13. CASE i \in old
  <2>1. new = old \ {i} /\ i \notin new
    BY <1>5, <1>13
  <2>2. k = n - 1 /\ n # 0
    BY <1>8, <1>9, <1>13, <2>1, FS_RemoveElement, FS_EmptySet
  <2> QED
    BY <1>8, <1>10, <1>11, <1>12, <1>13, <2>1, <2>2
<1>14. CASE i \notin old
  <2>1. new = old \cup {i} /\ i \in new
    BY <1>5, <1>14
  <2>2. k = n + 1
    BY <1>8, <1>9, <1>14, <2>1, FS_AddElement
  <2> QED
    BY <1>8, <1>10, <1>11, <1>12, <1>14, <2>1, <2>2
<1> QED
  BY <1>13, <1>14

(* The state in which the lists of variables to flip are not yet right. *)
Touching(s, v) == {u \in VarsIn(s) : \E c \in About(s, v) : Mentions(s, c, u)}

(* After the loop the counts are right, and the scores of all variables but
   the flipped one, whose gain is the opposite of what it was. *)
LEMMA FlipEnds ==
  ASSUME NEW s, CountsOk(s), Scored(s), NEW v \in VarsIn(s), NEW n,
         NEW t, t = FlipAll(TurnVar(s, v, n), v, OccursIn(s, v))
  PROVE  /\ CountsOk(t) /\ Same(t, s, FlipFields \cup {"solution", "mems"})
         /\ t.solution = Turned(s.solution, v) /\ t.mems = s.mems + n
         /\ t.score \in [VarsIn(t) -> Int]
         /\ \A u \in VarsIn(t) \ {v} : t.score[u] = Gain(t, u)
         /\ Gain(t, v) = -Gain(s, v)
         /\ \A u \in VarsIn(t) \ {v} : u \notin Touching(s, v) => t.score[u] = s.score[u]
<1> DEFINE V == VarsIn(s)
           m == s.solution
           u == TurnVar(s, v, n)
<1>1. /\ Rec(s) /\ Problem(s.clauses, V) /\ m \in [V -> BOOLEAN] /\ Weighed(s)
      /\ \A d \in ClausesOf(s) : RightAt(s, m, d)
      /\ \A x \in V : s.score[x] = Gain(s, x)
  BY DEF CountsOk, Scored
<1>2. Same(u, s, {"solution", "mems"}) /\ u.solution = Turned(m, v) /\ u.mems = s.mems + n
  BY <1>1, TurnVarFacts
<1>3. FlipState(u, m, v, {}) /\ VarsIn(u) = V
  BY FlipBegins
<1> HIDE DEF u
<1>4. u.clauses = s.clauses /\ u.sat_count = s.sat_count
  BY <1>2 DEF Same, Fields
<1>5. /\ OccursIn(u, v) = OccursIn(s, v) /\ About(u, v) = About(s, v) /\ ClausesOf(u) = ClausesOf(s)
  BY <1>4 DEF OccursIn, About, ClausesOf, Mentions, ClauseVars
<1> HIDE DEF V, m
<1>6. /\ FlipState(t, m, v, About(s, v)) /\ Same(t, u, FlipFields)
      /\ \A d \in ClausesOf(s) \ About(s, v) : t.sat_count[d] = s.sat_count[d]
  <2>1. t = FlipAll(u, v, OccursIn(u, v))
    BY <1>5 DEF u
  <2>2. /\ FlipState(t, m, v, About(u, v)) /\ Same(t, u, FlipFields)
        /\ \A d \in ClausesOf(u) \ About(u, v) : t.sat_count[d] = u.sat_count[d]
    BY <1>3, <2>1, AllFlipped
  <2> QED
    BY <1>4, <1>5, <2>2
<1>7. /\ Rec(t) /\ Problem(t.clauses, VarsIn(t))
      /\ Weighed(t) /\ t.sat_var \in [ClausesOf(t) -> Int] /\ t.score \in [VarsIn(t) -> Int]
      /\ v \in VarsIn(t) /\ m \in [VarsIn(t) -> BOOLEAN] /\ t.solution = Turned(m, v)
      /\ Counted(t, Zeros(t))
      /\ \A d \in ClausesOf(t) : RightAt(t, IF d \in About(s, v) THEN t.solution ELSE m, d)
      /\ \A x \in VarsIn(t) \ {v} : t.score[x] = Gain(t, x)
  BY <1>6 DEF FlipState
<1>8. /\ t.clauses = s.clauses /\ t.weight = s.weight /\ t.mems = u.mems
  BY <1>2, <1>6 DEF Same, Fields, FlipFields, UnsatFields
<1>9. VarsIn(t) = V /\ ClausesOf(t) = ClausesOf(s)
      /\ \A y, d : TrueIn(t, y, d) = TrueIn(s, y, d)
  BY <1>1, <1>7, <1>8 DEF ClausesOf, VarsIn, Turned, TrueIn
<1>10. \A d \in ClausesOf(s) : TurnsAt(s, m, t.solution, d, v)
  BY <1>1, <1>3, <1>7, <1>9, TrueFlipped
<1>11. ASSUME NEW d \in ClausesOf(t) PROVE RightAt(t, t.solution, d)
  <2>1. CASE d \in About(s, v)
    BY <1>7, <2>1
  <2>2. CASE d \notin About(s, v)
    <3>1. RightAt(t, m, d)
      BY <1>7, <2>2
    <3>2. ~Mentions(s, d, v)
      BY <1>9, <2>2 DEF About
    <3>3. TrueIn(t, t.solution, d) = TrueIn(t, m, d)
      BY <1>9, <1>10, <3>2 DEF TurnsAt
    <3> QED
      BY <3>1, <3>3 DEF RightAt
  <2> QED
    BY <2>1, <2>2
<1>12. CountsOk(t)
  <2>1. t.solution \in [VarsIn(t) -> BOOLEAN]
    BY <1>7 DEF Turned
  <2> QED
    BY <1>7, <1>11, <2>1 DEF CountsOk
<1>13. Gain(t, v) = -Gain(s, v)
  <2>1. ASSUME NEW d \in About(s, v) PROVE Worth(t, v)[d] = -Worth(s, v)[d]
    <3>1. d \in ClausesOf(s) /\ Mentions(s, d, v)
      BY DEF About
    <3>2. RightAt(s, s.solution, d) /\ RightAt(t, t.solution, d)
      BY <1>1, <1>9, <1>11, <3>1 DEF m
    <3>3. /\ Problem(s.clauses, V) /\ Weighed(s) /\ s.solution \in [V -> BOOLEAN] /\ v \in V
          /\ t.solution = Turned(s.solution, v)
      BY <1>1, <1>7, <1>9 DEF m
    <3> QED
      BY <1>8, <3>1, <3>2, <3>3, WorthTurned
  <2>2. /\ About(s, v) \in SUBSET (1 .. Len(s.clauses)) /\ Len(s.clauses) \in Nat
        /\ About(s, v) \in SUBSET ClausesOf(s)
    BY <1>1, OccursFacts, ProblemFacts
  <2>3. Wholes(Worth(s, v), About(s, v))
    BY <1>1, <2>2, WorthWhole
  <2>4. SumOf(Worth(t, v), About(s, v)) = -SumOf(Worth(s, v), About(s, v))
    BY <2>1, <2>2, <2>3, SumNegated
  <2>5. Gain(s, v) = SumOf(Worth(s, v), About(s, v))
    BY <1>1, GainSum
  <2>6. Gain(t, v) = SumOf(Worth(t, v), About(t, v))
    BY <1>7, GainSum
  <2>7. About(t, v) = About(s, v)
    BY <1>8 DEF About, ClausesOf, Mentions, ClauseVars
  <2> QED
    BY <2>4, <2>5, <2>6, <2>7
<1>14. ASSUME NEW x \in VarsIn(t) \ {v}, x \notin Touching(s, v) PROVE t.score[x] = s.score[x]
  <2>1. ASSUME NEW d \in About(s, x) PROVE Worth(t, x)[d] = Worth(s, x)[d]
    <3>1. d \in ClausesOf(s) /\ Mentions(s, d, x) /\ d \in ClausesOf(t)
      BY <1>9 DEF About
    <3>2. d \notin About(s, v)
      BY <1>9, <1>14, <3>1 DEF Touching, V
    <3>3. t.sat_count[d] = s.sat_count[d]
      BY <1>6, <3>1, <3>2
    <3>4. x \in TrueVars(t, d) <=> x \in TrueVars(s, d)
      <4>1. /\ Problem(s.clauses, V) /\ s.solution \in [V -> BOOLEAN] /\ v \in V
            /\ t.solution = Turned(s.solution, v)
        BY <1>1, <1>7, <1>9 DEF m
      <4> QED
        BY <1>8, <1>14, <3>1, <4>1, OthersTrue
    <3> QED
      BY <1>8, <3>1, <3>3, <3>4, WorthAt
  <2>2. Gain(t, x) = Gain(s, x)
    <3>1. Problem(s.clauses, V) /\ t.clauses = s.clauses
      BY <1>1, <1>8
    <3> QED
      BY <2>1, <3>1, GainSame
  <2>3. x \in V
    BY <1>9
  <2> QED
    BY <1>1, <1>7, <2>2, <2>3
<1>15. Same(t, s, FlipFields \cup {"solution", "mems"})
  BY <1>2, <1>6 DEF Same
<1> QED
  BY <1>2, <1>7, <1>8, <1>12, <1>13, <1>14, <1>15 DEF m

-----------------------------------------------------------------------------
(* Neighbours. *)

MetStep(us, u, v) == IF u = v \/ u \in ToSet(us) THEN us ELSE Append(us, u)
MetOp(arg, us, k) == MetStep(us, arg[2][k], arg[1])
Meets == INSTANCE FoldTheorems WITH op <- MetOp, pick <- Top
MeetAll(us, vs, v) == FoldLeft(LAMBDA xs, u : MetStep(xs, u, v), us, vs)

(* The neighbours in one clause, variable by variable. *)
LEMMA MeetTrace ==
  ASSUME NEW n \in Nat, NEW vs, DOMAIN vs = 1 .. n, NEW us, NEW v
  PROVE  \E g : /\ g[0] = us
                /\ \A k \in 1 .. n : g[k] = MetStep(g[k - 1], vs[k], v)
                /\ MeetAll(us, vs, v) = g[n]
<1> DEFINE arg == <<v, vs>>
           f == CHOOSE f : Meets!Folds(arg, us, 1 .. n, f)
<1>1. \A S : Top(S) = Meets!Largest(S)
  BY DEF Top, Meets!Largest
<1>2. MeetAll(us, vs, v) = f[1 .. n]
  BY DEF MeetAll, MetOp, Top, Meets!Folds, FoldLeft, MapThenFoldSet, Max
<1>3. \E h : Meets!Folds(arg, us, 1 .. n, h)
  BY <1>1, Least, Meets!SequenceFold
<1>4. Meets!Folds(arg, us, 1 .. n, f)
  BY <1>3
<1> HIDE DEF f
<1>5. PICK g : Meets!Trace(arg, us, n, g) /\ g[n] = f[1 .. n]
  BY <1>1, <1>4, Meets!SequenceTrace
<1> QED
  BY <1>2, <1>5 DEF Meets!Trace, MetOp

(* They are the variables of the clause, but for the one in question. *)
LEMMA AllMet ==
  ASSUME NEW V, NEW us \in Seq(V), NEW vs \in Seq(V), NEW v
  PROVE  /\ MeetAll(us, vs, v) \in Seq(V)
         /\ ToSet(MeetAll(us, vs, v)) = ToSet(us) \cup (ToSet(vs) \ {v})
<1> DEFINE n == Len(vs)
           Upto(k) == {vs[i] : i \in 1 .. k}
<1>1. n \in Nat /\ DOMAIN vs = 1 .. n
  OBVIOUS
<1>2. PICK g : /\ g[0] = us
               /\ \A k \in 1 .. n : g[k] = MetStep(g[k - 1], vs[k], v)
               /\ MeetAll(us, vs, v) = g[n]
  BY <1>1, MeetTrace
<1> DEFINE good(k) == g[k] \in Seq(V) /\ ToSet(g[k]) = ToSet(us) \cup (Upto(k) \ {v})
           G == {k \in 0 .. n : good(k)}
<1>3. 0 \in G
  <2>1. Upto(0) = {} /\ 0 \in 0 .. n
    BY <1>1
  <2> HIDE DEF Upto, n
  <2> QED
    BY <1>2, <2>1
<1>4. ASSUME NEW k \in 1 .. n, k - 1 \in G PROVE k \in G
  <2> DEFINE x == vs[k]
             old == g[k - 1]
             P == Upto(k - 1)
  <2>1. k \in 0 .. n /\ old \in Seq(V) /\ ToSet(old) = ToSet(us) \cup (P \ {v})
    BY <1>4
  <2>2. Upto(k) = P \cup {x} /\ x \in V
    <3>1. \A i \in 1 .. k : i \in 1 .. k - 1 \/ i = k
      OBVIOUS
    <3>2. k \in 1 .. k /\ \A i \in 1 .. k - 1 : i \in 1 .. k
      OBVIOUS
    <3> QED
      BY <1>1, <3>1, <3>2
  <2>3. g[k] = IF x = v \/ x \in ToSet(old) THEN old ELSE Append(old, x)
    BY <1>2 DEF MetStep
  <2> HIDE DEF x, old, P, Upto
  <2>4. Append(old, x) \in Seq(V) /\ ToSet(Append(old, x)) = ToSet(old) \cup {x}
    BY <2>1, <2>2, Appended
  <2>5. good(k)
    BY <2>1, <2>2, <2>3, <2>4
  <2> QED
    BY <2>1, <2>5
<1> HIDE DEF G
<1>5. n \in G
  BY <1>1, <1>3, <1>4, Climb
<1>6. Upto(n) = ToSet(vs)
  BY <1>1 DEF ToSet
<1> QED
  BY <1>2, <1>5, <1>6 DEF G

NextOp(arg, us, k) == MeetAll(us, ClauseVars(arg[1], arg[3][k]), arg[2])
Nexts == INSTANCE FoldTheorems WITH op <- NextOp, pick <- Top

(* The neighbours, clause by clause. *)
LEMMA NeighbourTrace ==
  ASSUME NEW s, NEW v, NEW n \in Nat, NEW mine, mine = OccursIn(s, v), DOMAIN mine = 1 .. n
  PROVE  \E g : /\ g[0] = <<>>
                /\ \A k \in 1 .. n : g[k] = MeetAll(g[k - 1], ClauseVars(s, mine[k]), v)
                /\ Neighbours(s, v) = g[n]
<1> DEFINE arg == <<s, v, mine>>
           f == CHOOSE f : Nexts!Folds(arg, <<>>, 1 .. n, f)
<1>1. \A S : Top(S) = Nexts!Largest(S)
  BY DEF Top, Nexts!Largest
<1>2. Neighbours(s, v) = f[1 .. n]
  <2>1. Neighbours(s, v) = FoldLeft(LAMBDA us, c : MeetAll(us, ClauseVars(s, c), v), <<>>, mine)
    BY DEF Neighbours, MeetAll, MetStep
  <2> QED
    BY <2>1 DEF NextOp, Top, Nexts!Folds, FoldLeft, MapThenFoldSet, Max
<1>3. \E h : Nexts!Folds(arg, <<>>, 1 .. n, h)
  BY <1>1, Least, Nexts!SequenceFold
<1>4. Nexts!Folds(arg, <<>>, 1 .. n, f)
  BY <1>3
<1> HIDE DEF f
<1>5. PICK g : Nexts!Trace(arg, <<>>, n, g) /\ g[n] = f[1 .. n]
  BY <1>1, <1>4, Nexts!SequenceTrace
<1> QED
  BY <1>2, <1>5 DEF Nexts!Trace, NextOp

(* They are all variables that share a clause with the one in question. *)
LEMMA NeighboursFacts ==
  ASSUME NEW s, Problem(s.clauses, VarsIn(s)), NEW v
  PROVE  /\ Neighbours(s, v) \in Seq(VarsIn(s))
         /\ ToSet(Neighbours(s, v)) = Touching(s, v) \ {v}
<1> DEFINE V == VarsIn(s)
           mine == OccursIn(s, v)
           n == Len(mine)
           P(k) == UNION {ToSet(ClauseVars(s, mine[i])) : i \in 1 .. k}
<1>1. mine \in Seq(About(s, v)) /\ ToSet(mine) = About(s, v)
  BY OccursFacts
<1>2. n \in Nat /\ DOMAIN mine = 1 .. n /\ \A k \in 1 .. n : mine[k] \in ClausesOf(s)
  <2>1. n \in Nat /\ DOMAIN mine = 1 .. n /\ \A k \in 1 .. n : mine[k] \in About(s, v)
    BY <1>1
  <2> QED
    BY <2>1 DEF About
<1>3. \A c \in ClausesOf(s) : ClauseVars(s, c) \in Seq(V)
  BY ProblemFacts
<1> HIDE DEF mine, n, V
<1>4. PICK g : /\ g[0] = <<>>
               /\ \A k \in 1 .. n : g[k] = MeetAll(g[k - 1], ClauseVars(s, mine[k]), v)
               /\ Neighbours(s, v) = g[n]
  BY <1>2, NeighbourTrace DEF mine
<1> DEFINE good(k) == g[k] \in Seq(V) /\ ToSet(g[k]) = P(k) \ {v}
           G == {k \in 0 .. n : good(k)}
<1>5. 0 \in G
  <2>1. P(0) = {} /\ 0 \in 0 .. n
    BY <1>2
  <2>2. <<>> \in Seq(V) /\ ToSet(<<>>) = {}
    BY DEF ToSet
  <2> HIDE DEF P
  <2> QED
    BY <1>4, <2>1, <2>2
<1>6. ASSUME NEW k \in 1 .. n, k - 1 \in G PROVE k \in G
  <2> DEFINE vs == ClauseVars(s, mine[k])
             old == g[k - 1]
             Q == P(k - 1)
  <2>1. k \in 0 .. n /\ old \in Seq(V) /\ ToSet(old) = Q \ {v}
    BY <1>2, <1>6
  <2>2. P(k) = Q \cup ToSet(vs) /\ vs \in Seq(V)
    <3>1. \A i \in 1 .. k : i \in 1 .. k - 1 \/ i = k
      BY <1>2
    <3>2. k \in 1 .. k /\ \A i \in 1 .. k - 1 : i \in 1 .. k
      BY <1>2
    <3> QED
      BY <1>2, <1>3, <3>1, <3>2
  <2>3. g[k] = MeetAll(old, vs, v)
    BY <1>4
  <2> HIDE DEF vs, old, Q, P
  <2>4. g[k] \in Seq(V) /\ ToSet(g[k]) = ToSet(old) \cup (ToSet(vs) \ {v})
    BY <2>1, <2>2, <2>3, AllMet
  <2>5. good(k)
    BY <2>1, <2>2, <2>4
  <2> QED
    BY <2>1, <2>5
<1> HIDE DEF G
<1>7. n \in G
  BY <1>2, <1>5, <1>6, Climb
<1>8. P(n) = Touching(s, v)
  <2>1. \A x : x \in P(n) <=> \E c \in About(s, v) : x \in ToSet(ClauseVars(s, c))
    <3>1. About(s, v) = {mine[i] : i \in 1 .. n}
      BY <1>1, <1>2 DEF ToSet
    <3>2. ASSUME NEW x, x \in P(n) PROVE \E c \in About(s, v) : x \in ToSet(ClauseVars(s, c))
      <4>1. PICK i \in 1 .. n : x \in ToSet(ClauseVars(s, mine[i]))
        BY <3>2
      <4> QED
        BY <3>1, <4>1
    <3>3. ASSUME NEW x, NEW c \in About(s, v), x \in ToSet(ClauseVars(s, c)) PROVE x \in P(n)
      <4>1. PICK i \in 1 .. n : mine[i] = c
        BY <3>1
      <4> QED
        BY <3>3, <4>1
    <3> QED
      BY <3>2, <3>3
  <2>2. \A c \in About(s, v) : c \in ClausesOf(s)
    BY DEF About
  <2>3. \A c \in ClausesOf(s) : \A x \in ToSet(ClauseVars(s, c)) : x \in V
    BY <1>3 DEF ToSet
  <2> HIDE DEF P
  <2> QED
    BY <2>1, <2>2, <2>3 DEF Touching, Mentions, V
<1> QED
  BY <1>4, <1>7, <1>8 DEF G, V

-----------------------------------------------------------------------------
(* ccd_vars. *)

(* ccd_vars has each of its variables once, and in_ccd says which they are. *)
CcdOk(t, V) ==
  /\ t.ccd_vars \in Seq(V) /\ Distinct(t.ccd_vars)
  /\ t.in_ccd \in [V -> BOOLEAN]
  /\ \A x \in V : t.in_ccd[x] <=> x \in ToSet(t.ccd_vars)
CcdFields == {"ccd_vars", "in_ccd", "mems"}

(* Leave takes a variable without a positive score out of ccd_vars
   (update_cc_after_flip, its first loop). *)
LEMMA LeaveFacts ==
  ASSUME NEW V, NEW t, Rec(t), CcdOk(t, V), NEW k \in DOMAIN t.ccd_vars,
         NEW u, u = Leave(t, k)
  PROVE  /\ Same(u, t, CcdFields) /\ CcdOk(u, V)
         /\ u.ccd_vars = IF t.score[t.ccd_vars[k]] > 0 THEN t.ccd_vars ELSE SwapOut(t.ccd_vars, k)
<1> DEFINE q == t.ccd_vars
           v == q[k]
<1>1. q \in Seq(V) /\ Distinct(q) /\ t.in_ccd \in [V -> BOOLEAN]
      /\ \A x \in V : t.in_ccd[x] <=> x \in ToSet(q)
  BY DEF CcdOk
<1>2. v \in V
  BY <1>1
<1>3. CASE t.score[v] > 0
  <2>1. u = t
    BY <1>3 DEF Leave
  <2> QED
    BY <1>3, <2>1 DEF Same
<1>4. CASE ~(t.score[v] > 0)
  <2> DEFINE r == SwapOut(q, k)
  <2>1. u = [t EXCEPT !.ccd_vars = r, !.in_ccd[v] = FALSE, !.mems = @ + 1]
    BY <1>4 DEF Leave, SwapOut
  <2>2. r \in Seq(V) /\ Distinct(r) /\ ToSet(r) = ToSet(q) \ {v}
    BY <1>1, SwappedOut
  <2> HIDE DEF r
  <2>3. Same(u, t, CcdFields) /\ u.ccd_vars = r /\ u.in_ccd = [t.in_ccd EXCEPT ![v] = FALSE]
    BY <2>1 DEF Same, Fields, CcdFields, Rec
  <2> DEFINE new == u.in_ccd
             old == t.in_ccd
  <2>4. new \in [V -> BOOLEAN] /\ \A x \in V : new[x] = IF x = v THEN FALSE ELSE old[x]
    BY <1>1, <2>3, ZenonT(60)
  <2>5. CcdOk(u, V)
    <3>1. \A x \in V : new[x] <=> x \in ToSet(r)
      <4> HIDE DEF q, v, new, old
      <4>0. \A x \in V : old[x] <=> x \in ToSet(q)
        BY <1>1 DEF old
      <4> QED
        BY <2>2, <2>4, <4>0
    <3> QED
      BY <2>2, <2>3, <2>4, <3>1 DEF CcdOk
  <2> QED
    BY <1>4, <2>3, <2>5 DEF r
<1> QED
  BY <1>3, <1>4

LeaveOp(ps, t, j) == Leave(t, ps[j])
Leaves == INSTANCE FoldTheorems WITH op <- LeaveOp, pick <- Top
LeaveAll(s, ps) == FoldLeft(Leave, s, ps)

(* The first loop of update_cc_after_flip, position by position. *)
LEMMA LeaveTrace ==
  ASSUME NEW n \in Nat, NEW ps, DOMAIN ps = 1 .. n, NEW s
  PROVE  \E g : /\ g[0] = s
                /\ \A j \in 1 .. n : g[j] = Leave(g[j - 1], ps[j])
                /\ LeaveAll(s, ps) = g[n]
<1> DEFINE f == CHOOSE f : Leaves!Folds(ps, s, 1 .. n, f)
<1>1. \A S : Top(S) = Leaves!Largest(S)
  BY DEF Top, Leaves!Largest
<1>2. LeaveAll(s, ps) = f[1 .. n]
  BY DEF LeaveAll, LeaveOp, Top, Leaves!Folds, FoldLeft, MapThenFoldSet, Max
<1>3. \E h : Leaves!Folds(ps, s, 1 .. n, h)
  BY <1>1, Least, Leaves!SequenceFold
<1>4. Leaves!Folds(ps, s, 1 .. n, f)
  BY <1>3
<1> HIDE DEF f
<1>5. PICK g : Leaves!Trace(ps, s, n, g) /\ g[n] = f[1 .. n]
  BY <1>1, <1>4, Leaves!SequenceTrace
<1> QED
  BY <1>2, <1>5 DEF Leaves!Trace, LeaveOp

(* Positions are seen from behind, so that the element which takes the
   place of one that leaves was seen before. *)
LEMMA AllLeft ==
  ASSUME NEW V, NEW s, Rec(s), CcdOk(s, V), NEW t, t = LeaveAll(s, Reverse(Positions(s.ccd_vars)))
  PROVE  /\ Same(t, s, CcdFields) /\ CcdOk(t, V)
         /\ ToSet(t.ccd_vars) = {x \in ToSet(s.ccd_vars) : s.score[x] > 0}
<1> DEFINE q == s.ccd_vars
           n == Len(q)
           ps == Reverse(Positions(q))
<1>1. n \in Nat /\ DOMAIN q = 1 .. n
  BY DEF CcdOk
<1>2. DOMAIN ps = 1 .. n /\ \A j \in 1 .. n : ps[j] = n - j + 1
  <2> DEFINE all == Positions(q)
  <2>1. all = [i \in 1 .. n |-> i]
    BY <1>1 DEF Positions
  <2>2. \A i \in 1 .. n : all[i] = i
    BY <2>1
  <2>3. Len(all) = n
    <3> HIDE DEF n
    <3>1. [i \in 1 .. n |-> i] \in Seq(Nat) /\ Len([i \in 1 .. n |-> i]) = n
      BY <1>1
    <3> QED
      BY <2>1, <3>1
  <2> HIDE DEF n, all
  <2>4. Reverse(all) = [j \in 1 .. n |-> all[(n - j) + 1]]
    BY <2>3 DEF Reverse
  <2>5. \A j \in 1 .. n : (n - j) + 1 \in 1 .. n
    BY <1>1
  <2> QED
    BY <2>2, <2>4, <2>5 DEF all
<1>9. t = LeaveAll(s, ps)
  OBVIOUS
<1> HIDE DEF ps
<1>10. \E g : /\ g[0] = s
              /\ \A j \in 1 .. n : g[j] = Leave(g[j - 1], ps[j])
              /\ LeaveAll(s, ps) = g[n]
  <2> HIDE DEF n
  <2>1. n \in Nat /\ DOMAIN ps = 1 .. n
    BY <1>1, <1>2
  <2> QED
    BY <2>1, LeaveTrace
<1>3. PICK g : /\ g[0] = s
               /\ \A j \in 1 .. n : g[j] = Leave(g[j - 1], ps[j])
               /\ t = g[n]
  BY <1>9, <1>10
<1> DEFINE good(j, u) ==
             /\ Same(u, s, CcdFields) /\ CcdOk(u, V)
             /\ Len(u.ccd_vars) >= n - j
             /\ \A i \in 1 .. n - j : u.ccd_vars[i] = q[i]
             /\ \A i \in DOMAIN u.ccd_vars : i > n - j => s.score[u.ccd_vars[i]] > 0
             /\ \A x \in ToSet(u.ccd_vars) : x \in ToSet(q)
             /\ \A x \in ToSet(q) : s.score[x] > 0 => x \in ToSet(u.ccd_vars)
           G == {j \in 0 .. n : good(j, g[j])}
<1>4. 0 \in G
  <2>1. Same(s, s, CcdFields)
    BY DEF Same
  <2>2. good(0, s) /\ 0 \in 0 .. n
    BY <1>1, <2>1
  <2> QED
    BY <1>3, <2>2
<1>5. ASSUME NEW j \in 1 .. n, j - 1 \in G PROVE j \in G
  <2> DEFINE u == g[j - 1]
             w == g[j]
             r == u.ccd_vars
             k == n - j + 1
             m == Len(r)
  <2>1. j \in 0 .. n /\ good(j - 1, u)
    BY <1>5
  <2>2. w = Leave(u, k)
    BY <1>2, <1>3
  <2> HIDE DEF u, w
  <2>3. r \in Seq(V) /\ Distinct(r) /\ m \in Nat /\ DOMAIN r = 1 .. m /\ Rec(u) /\ u.score = s.score
    BY <2>1 DEF CcdOk, Same, Fields, CcdFields
  <2>4. k \in 1 .. m /\ n - (j - 1) = k /\ n - j = k - 1
    BY <1>1, <2>1, <2>3
  <2>5. /\ Same(w, u, CcdFields) /\ CcdOk(w, V)
        /\ w.ccd_vars = IF s.score[r[k]] > 0 THEN r ELSE SwapOut(r, k)
    BY <2>1, <2>2, <2>3, <2>4, LeaveFacts
  <2>6. Same(w, s, CcdFields)
    BY <2>1, <2>5 DEF Same
  <2>7. r[k] = q[k] /\ \A i \in 1 .. k : r[i] = q[i]
    BY <2>1, <2>4
  <2>8. \A i \in 1 .. m : i > k => s.score[r[i]] > 0
    BY <2>1, <2>3, <2>4
  <2>9. (\A x \in ToSet(r) : x \in ToSet(q)) /\ \A x \in ToSet(q) : s.score[x] > 0 => x \in ToSet(r)
    BY <2>1
  <2> HIDE DEF k, m
  <2>10. CASE s.score[r[k]] > 0
    <3> HIDE DEF r
    <3>1. w.ccd_vars = r
      BY <2>5, <2>10
    <3>2. \A i \in DOMAIN r : i > n - j => s.score[r[i]] > 0
      <4>1. ASSUME NEW i \in 1 .. m, i > n - j PROVE i = k \/ i > k
        BY <2>3, <2>4, <4>1
      <4> QED
        BY <2>3, <2>8, <2>10, <4>1
    <3>3. Len(r) >= n - j /\ \A i \in 1 .. n - j : r[i] = q[i]
      BY <2>3, <2>4, <2>7
    <3> HIDE DEF r, q, n
    <3>4. good(j, w)
      BY <2>5, <2>6, <2>9, <3>1, <3>2, <3>3
    <3> QED
      BY <2>1, <3>4 DEF w
  <2>11. CASE ~(s.score[r[k]] > 0)
    <3> DEFINE z == SwapOut(r, k)
    <3>1. w.ccd_vars = z
      BY <2>5, <2>11
    <3>2. /\ Len(z) = m - 1 /\ DOMAIN z = 1 .. m - 1
          /\ \A i \in 1 .. m - 1 : z[i] = IF i = k THEN r[m] ELSE r[i]
          /\ ToSet(z) = ToSet(r) \ {r[k]}
      <4>1. k \in DOMAIN r /\ m = Len(r)
        BY <2>3, <2>4 DEF m
      <4>2. r \in Seq(V) /\ Distinct(r)
        BY <2>3
      <4> HIDE DEF r
      <4>3. /\ Len(z) = Len(r) - 1 /\ DOMAIN z = 1 .. Len(r) - 1
            /\ \A i \in 1 .. Len(r) - 1 : z[i] = IF i = k THEN r[Len(r)] ELSE r[i]
            /\ ToSet(z) = ToSet(r) \ {r[k]}
        <5>1. Len(z) = Len(r) - 1 /\ DOMAIN z = 1 .. Len(r) - 1
          BY <4>1, <4>2, SwappedOut DEF z
        <5>2. ToSet(z) = ToSet(r) \ {r[k]}
          BY <4>1, <4>2, SwappedOut DEF z
        <5>3. \A i \in 1 .. Len(r) - 1 : z[i] = IF i = k THEN r[Len(r)] ELSE r[i]
          BY <4>1, <4>2, SwappedOut, ZenonT(60) DEF z
        <5> QED
          BY <5>1, <5>2, <5>3
      <4> QED
        BY <4>1, <4>3
    <3> HIDE DEF z
    <3>3. Len(z) >= n - j /\ \A i \in 1 .. n - j : z[i] = q[i]
      BY <2>3, <2>4, <2>7, <3>2
    <3>4. ASSUME NEW i \in DOMAIN z, i > n - j PROVE s.score[z[i]] > 0
      <4>1. i \in 1 .. m - 1 /\ i >= k
        BY <2>3, <2>4, <3>2, <3>4
      <4>2. m \in 1 .. m /\ i \in 1 .. m /\ m > k
        BY <2>3, <2>4, <4>1
      <4>3. CASE i = k
        <5>1. z[i] = r[m]
          BY <3>2, <4>1, <4>3
        <5> QED
          BY <2>8, <4>2, <5>1
      <4>4. CASE i # k
        <5>1. z[i] = r[i] /\ i > k
          <6>1. i \in Int /\ k \in Int
            BY <2>3, <2>4, <4>1
          <6> QED
            BY <3>2, <4>1, <4>4, <6>1
        <5> QED
          BY <2>8, <4>2, <5>1
      <4> QED
        BY <4>3, <4>4
    <3>5. (\A x \in ToSet(z) : x \in ToSet(q)) /\ \A x \in ToSet(q) : s.score[x] > 0 => x \in ToSet(z)
      BY <2>9, <2>11, <3>2
    <3> HIDE DEF r, q, n
    <3>6. good(j, w)
      BY <2>5, <2>6, <3>1, <3>3, <3>4, <3>5
    <3> QED
      BY <2>1, <3>6 DEF w
  <2> QED
    BY <2>10, <2>11
<1> HIDE DEF G
<1>6. n \in G
  BY <1>1, <1>4, <1>5, Climb
<1>7. good(n, t)
  BY <1>3, <1>6 DEF G
<1>8. \A x \in ToSet(t.ccd_vars) : s.score[x] > 0
  <2>1. t.ccd_vars \in Seq(V) /\ DOMAIN t.ccd_vars = 1 .. Len(t.ccd_vars)
    BY <1>7 DEF CcdOk
  <2>2. \A i \in DOMAIN t.ccd_vars : i > n - n
    BY <1>1, <2>1
  <2> QED
    BY <1>7, <2>2 DEF ToSet
<1> QED
  BY <1>7, <1>8

-----------------------------------------------------------------------------
JoinOp(ns, t, k) == Join(t, ns[k])
Joins == INSTANCE FoldTheorems WITH op <- JoinOp, pick <- Top
JoinAll(s, ns) == FoldLeft(Join, s, ns)

(* The second loop of update_cc_after_flip, neighbour by neighbour. *)
LEMMA JoinTrace ==
  ASSUME NEW n \in Nat, NEW ns, DOMAIN ns = 1 .. n, NEW s
  PROVE  \E g : /\ g[0] = s
                /\ \A k \in 1 .. n : g[k] = Join(g[k - 1], ns[k])
                /\ JoinAll(s, ns) = g[n]
<1> DEFINE f == CHOOSE f : Joins!Folds(ns, s, 1 .. n, f)
<1>1. \A S : Top(S) = Joins!Largest(S)
  BY DEF Top, Joins!Largest
<1>2. JoinAll(s, ns) = f[1 .. n]
  BY DEF JoinAll, JoinOp, Top, Joins!Folds, FoldLeft, MapThenFoldSet, Max
<1>3. \E h : Joins!Folds(ns, s, 1 .. n, h)
  BY <1>1, Least, Joins!SequenceFold
<1>4. Joins!Folds(ns, s, 1 .. n, f)
  BY <1>3
<1> HIDE DEF f
<1>5. PICK g : Joins!Trace(ns, s, n, g) /\ g[n] = f[1 .. n]
  BY <1>1, <1>4, Joins!SequenceTrace
<1> QED
  BY <1>2, <1>5 DEF Joins!Trace, JoinOp

(* Enlist adds one candidate. *)
LEMMA EnlistFacts ==
  ASSUME NEW V, NEW t, Rec(t), CcdOk(t, V), NEW v \in V, ~t.in_ccd[v], NEW u, u = Enlist(t, v)
  PROVE  /\ Same(u, t, {"ccd_vars", "in_ccd"}) /\ CcdOk(u, V)
         /\ ToSet(u.ccd_vars) = ToSet(t.ccd_vars) \cup {v}
<1> DEFINE q == t.ccd_vars
           r == Append(q, v)
           old == t.in_ccd
           new == u.in_ccd
<1>1. q \in Seq(V) /\ Distinct(q) /\ old \in [V -> BOOLEAN]
      /\ \A x \in V : old[x] <=> x \in ToSet(q)
  BY DEF CcdOk
<1>2. Same(u, t, {"ccd_vars", "in_ccd"}) /\ u.ccd_vars = r /\ new = [old EXCEPT ![v] = TRUE]
  BY DEF Enlist, Same, Fields, Rec
<1>3. r \in Seq(V) /\ Distinct(r) /\ ToSet(r) = ToSet(q) \cup {v}
  <2>1. v \notin ToSet(q)
    BY <1>1
  <2> HIDE DEF q
  <2> QED
    BY <1>1, <2>1, Appended, AppendedDistinct
<1>4. new \in [V -> BOOLEAN] /\ \A x \in V : new[x] = IF x = v THEN TRUE ELSE old[x]
  BY <1>1, <1>2
<1>5. \A x \in V : new[x] <=> x \in ToSet(r)
  <2> HIDE DEF q, r, new, old
  <2> QED
    BY <1>1, <1>3, <1>4
<1> QED
  BY <1>2, <1>3, <1>4, <1>5 DEF CcdOk

JoinFields == CcdFields \cup {"cc_value"}

Joined(t, u, v) ==
  /\ Same(u, t, JoinFields) /\ u.cc_value = SetAt(t.cc_value, v, TRUE)
  /\ ToSet(u.ccd_vars) = IF t.score[v] > 0 THEN ToSet(t.ccd_vars) \cup {v} ELSE ToSet(t.ccd_vars)

(* Join marks a neighbour, and adds it when its score is positive and it is
   no candidate yet. *)
LEMMA JoinFacts ==
  ASSUME NEW V, NEW t, Rec(t), CcdOk(t, V), t.cc_value \in [V -> BOOLEAN], NEW v \in V,
         NEW u, u = Join(t, v)
  PROVE  Joined(t, u, v) /\ CcdOk(u, V)
<1> USE DEF Joined
<1> DEFINE w == [t EXCEPT !.cc_value[v] = TRUE]
<1>1. Same(w, t, {"cc_value"}) /\ w.cc_value = SetAt(t.cc_value, v, TRUE)
  BY DEF Same, Rec, Fields, SetAt
<1>2. Rec(w) /\ w.ccd_vars = t.ccd_vars /\ w.in_ccd = t.in_ccd /\ w.score = t.score
  BY <1>1 DEF Same, Fields
<1>3. CcdOk(w, V)
  BY <1>2 DEF CcdOk
<1> DEFINE x == [Enlist(w, v) EXCEPT !.mems = @ + 1]
<1>4. u = IF w.score[v] > 0 /\ ~w.in_ccd[v] THEN x ELSE w
  BY DEF Join
<1>5. w.in_ccd[v] <=> v \in ToSet(t.ccd_vars)
  BY <1>2 DEF CcdOk
<1> HIDE DEF w
<1>6. CASE w.score[v] > 0 /\ ~w.in_ccd[v]
  <2> DEFINE y == Enlist(w, v)
  <2>1. /\ Same(y, w, {"ccd_vars", "in_ccd"}) /\ CcdOk(y, V)
        /\ ToSet(y.ccd_vars) = ToSet(w.ccd_vars) \cup {v}
    BY <1>2, <1>3, <1>6, EnlistFacts
  <2> HIDE DEF y
  <2>2. u = [y EXCEPT !.mems = @ + 1]
    BY <1>4, <1>6 DEF y
  <2>3. Same(u, y, {"mems"})
    BY <2>1, <2>2 DEF Same, Rec, Fields
  <2>4. u.ccd_vars = y.ccd_vars /\ u.in_ccd = y.in_ccd /\ u.cc_value = w.cc_value
    BY <2>1, <2>3 DEF Same, Fields
  <2>5. CcdOk(u, V)
    BY <2>1, <2>4 DEF CcdOk
  <2>6. Same(u, t, JoinFields)
    BY <1>1, <2>1, <2>3 DEF Same, JoinFields, CcdFields
  <2> QED
    BY <1>1, <1>2, <1>6, <2>1, <2>4, <2>5, <2>6
<1>7. CASE ~(w.score[v] > 0 /\ ~w.in_ccd[v])
  <2>1. u = w
    BY <1>4, <1>7
  <2>2. t.score[v] > 0 => v \in ToSet(t.ccd_vars)
    BY <1>2, <1>5, <1>7
  <2>3. Same(u, t, JoinFields)
    BY <1>1, <2>1 DEF Same, JoinFields
  <2> QED
    BY <1>1, <1>2, <1>3, <2>1, <2>2, <2>3
<1> QED
  BY <1>6, <1>7

(* The second loop adds the neighbours with a positive score, each once. *)
LEMMA AllJoined ==
  ASSUME NEW V, NEW s, Rec(s), CcdOk(s, V), s.cc_value \in [V -> BOOLEAN], NEW ns \in Seq(V),
         NEW t, t = JoinAll(s, ns)
  PROVE  /\ Same(t, s, JoinFields) /\ CcdOk(t, V) /\ t.cc_value \in [V -> BOOLEAN]
         /\ \A x \in V : t.cc_value[x] <=> x \in ToSet(ns) \/ s.cc_value[x]
         /\ ToSet(t.ccd_vars) = ToSet(s.ccd_vars) \cup {x \in ToSet(ns) : s.score[x] > 0}
<1> DEFINE n == Len(ns)
           Upto(k) == {ns[i] : i \in 1 .. k}
<1>1. n \in Nat /\ DOMAIN ns = 1 .. n
  OBVIOUS
<1>2. PICK g : /\ g[0] = s
               /\ \A k \in 1 .. n : g[k] = Join(g[k - 1], ns[k])
               /\ t = g[n]
  BY <1>1, JoinTrace
<1> DEFINE good(U, u) ==
             /\ Same(u, s, JoinFields) /\ CcdOk(u, V) /\ u.cc_value \in [V -> BOOLEAN]
             /\ \A x \in V : u.cc_value[x] <=> x \in U \/ s.cc_value[x]
             /\ ToSet(u.ccd_vars) = ToSet(s.ccd_vars) \cup {x \in U : s.score[x] > 0}
           G == {k \in 0 .. n : good(Upto(k), g[k])}
<1>3. 0 \in G
  <2>1. Same(s, s, JoinFields)
    BY DEF Same
  <2>2. good({}, s)
    BY <2>1
  <2>3. Upto(0) = {} /\ 0 \in 0 .. n
    BY <1>1
  <2> HIDE DEF good, Upto
  <2> QED
    BY <1>2, <2>2, <2>3
<1>4. ASSUME NEW k \in 1 .. n, k - 1 \in G PROVE k \in G
  <2> DEFINE v == ns[k]
             u == g[k - 1]
             w == g[k]
             P == Upto(k - 1)
  <2>1. k \in 0 .. n /\ good(P, u)
    BY <1>4
  <2>2. Upto(k) = P \cup {v} /\ v \in V
    <3>1. \A i \in 1 .. k : i \in 1 .. k - 1 \/ i = k
      OBVIOUS
    <3>2. k \in 1 .. k /\ \A i \in 1 .. k - 1 : i \in 1 .. k
      OBVIOUS
    <3> QED
      BY <1>1, <3>1, <3>2
  <2>3. w = Join(u, v)
    BY <1>2
  <2> HIDE DEF v, u, w, P, Upto
  <2>4. Rec(u) /\ u.score = s.score
    BY <2>1 DEF Same, Fields, JoinFields, CcdFields
  <2>5. /\ Same(w, u, JoinFields) /\ CcdOk(w, V) /\ w.cc_value = SetAt(u.cc_value, v, TRUE)
        /\ ToSet(w.ccd_vars) = IF s.score[v] > 0 THEN ToSet(u.ccd_vars) \cup {v}
                               ELSE ToSet(u.ccd_vars)
    <3>1. CcdOk(u, V) /\ u.cc_value \in [V -> BOOLEAN]
      BY <2>1
    <3>2. v \in V
      BY <2>2
    <3>3. Joined(u, w, v) /\ CcdOk(w, V)
      BY <2>3, <2>4, <3>1, <3>2, JoinFacts
    <3> QED
      BY <2>4, <3>3 DEF Joined
  <2>6. Same(w, s, JoinFields)
    BY <2>1, <2>5 DEF Same
  <2>7. w.cc_value \in [V -> BOOLEAN]
        /\ \A x \in V : w.cc_value[x] = IF x = v THEN TRUE ELSE u.cc_value[x]
    BY <2>1, <2>5 DEF SetAt
  <2>8. \A x \in V : w.cc_value[x] <=> x \in P \cup {v} \/ s.cc_value[x]
    BY <2>1, <2>7
  <2>9. ToSet(w.ccd_vars) = ToSet(s.ccd_vars) \cup {x \in P \cup {v} : s.score[x] > 0}
    BY <2>1, <2>5
  <2>10. good(P \cup {v}, w)
    BY <2>5, <2>6, <2>7, <2>8, <2>9
  <2> HIDE DEF good
  <2> QED
    BY <2>1, <2>2, <2>10 DEF w
<1> HIDE DEF G
<1>5. n \in G
  BY <1>1, <1>3, <1>4, Climb
<1>6. Upto(n) = ToSet(ns)
  BY <1>1 DEF ToSet
<1>7. good(ToSet(ns), t)
  <2> HIDE DEF good, Upto
  <2> QED
    BY <1>2, <1>5, <1>6 DEF G
<1> QED
  BY <1>7

-----------------------------------------------------------------------------
(* flip keeps all of it. *)

CcUpdated(s, t, v) ==
  /\ Same(t, s, JoinFields) /\ CcdOk(t, VarsIn(s)) /\ t.cc_value \in [VarsIn(s) -> BOOLEAN]
  /\ \A x \in VarsIn(s) :
       t.cc_value[x] <=> x \in Touching(s, v) \ {v} \/ (x # v /\ s.cc_value[x])
  /\ ToSet(t.ccd_vars) =
       {x \in ToSet(s.ccd_vars) : s.score[x] > 0} \cup {x \in Touching(s, v) \ {v} : s.score[x] > 0}

(* update_cc_after_flip: candidates that lost their score go, neighbours
   that have one come, and the flipped variable is not configured. *)
LEMMA CcAfter ==
  ASSUME NEW s, Rec(s), Problem(s.clauses, VarsIn(s)), CcdOk(s, VarsIn(s)),
         s.cc_value \in [VarsIn(s) -> BOOLEAN], NEW v \in VarsIn(s),
         NEW t, t = update_cc_after_flip(s, v)
  PROVE  CcUpdated(s, t, v)
<1> DEFINE V == VarsIn(s)
           a == [s EXCEPT !.cc_value[v] = FALSE]
           ps == Reverse(Positions(s.ccd_vars))
           b == LeaveAll(a, ps)
           ns == Neighbours(s, v)
           N == Touching(s, v) \ {v}
<1>1. t = JoinAll(b, ns)
  BY DEF update_cc_after_flip, JoinAll, LeaveAll
<1>2. Same(a, s, {"cc_value"}) /\ a.cc_value = SetAt(s.cc_value, v, FALSE)
  BY DEF Same, Rec, Fields, SetAt
<1> HIDE DEF a
<1>3. Rec(a) /\ a.ccd_vars = s.ccd_vars /\ a.in_ccd = s.in_ccd /\ a.score = s.score
  BY <1>2 DEF Same, Fields
<1>4. CcdOk(a, V)
  BY <1>3 DEF CcdOk
<1>5. a.cc_value \in [V -> BOOLEAN]
      /\ \A x \in V : a.cc_value[x] = IF x = v THEN FALSE ELSE s.cc_value[x]
  BY <1>2 DEF SetAt
<1>6. /\ Same(b, a, CcdFields) /\ CcdOk(b, V)
      /\ ToSet(b.ccd_vars) = {x \in ToSet(a.ccd_vars) : a.score[x] > 0}
  <2>1. b = LeaveAll(a, Reverse(Positions(a.ccd_vars)))
    BY <1>3
  <2> HIDE DEF b, V
  <2> QED
    BY <1>3, <1>4, <2>1, AllLeft
<1> HIDE DEF b
<1>7. Rec(b) /\ b.cc_value = a.cc_value /\ b.score = s.score
  BY <1>3, <1>6 DEF Same, Fields, CcdFields
<1>8. ns \in Seq(V) /\ ToSet(ns) = N
  BY NeighboursFacts
<1> HIDE DEF ns, N
<1>9. /\ Same(t, b, JoinFields) /\ CcdOk(t, V) /\ t.cc_value \in [V -> BOOLEAN]
      /\ \A x \in V : t.cc_value[x] <=> x \in ToSet(ns) \/ b.cc_value[x]
      /\ ToSet(t.ccd_vars) = ToSet(b.ccd_vars) \cup {x \in ToSet(ns) : b.score[x] > 0}
  <2>1. b.cc_value \in [V -> BOOLEAN]
    BY <1>5, <1>7
  <2> HIDE DEF V
  <2> QED
    BY <1>1, <1>6, <1>7, <1>8, <2>1, AllJoined
<1>10. Same(t, s, JoinFields)
  BY <1>2, <1>6, <1>9 DEF Same, JoinFields
<1>11. \A x \in V : t.cc_value[x] <=> x \in N \/ (x # v /\ s.cc_value[x])
  BY <1>5, <1>7, <1>8, <1>9
<1>12. ToSet(t.ccd_vars) = {x \in ToSet(s.ccd_vars) : s.score[x] > 0} \cup {x \in N : s.score[x] > 0}
  BY <1>3, <1>6, <1>7, <1>8, <1>9
<1> QED
  BY <1>9, <1>10, <1>11, <1>12 DEF CcUpdated, N

-----------------------------------------------------------------------------
(* The whole invariant of the data. *)
CcdRight(s) ==
  /\ s.cc_value \in [VarsIn(s) -> BOOLEAN]
  /\ CcdOk(s, VarsIn(s)) /\ ToSet(s.ccd_vars) = Wanted(s)
Averaged(s) ==
  /\ s.avg \in Int /\ s.delta \in Int
  /\ s.avg * Len(s.clauses) + s.delta = SumOf(s.weight, ClausesOf(s))
Stepped(s) == s.last_flip_step \in [VarsIn(s) -> 0 .. MaxSteps]
Good(s) == CountsOk(s) /\ Scored(s) /\ CcdRight(s) /\ Averaged(s) /\ Stepped(s)

(* What the parts depend on. *)
CountsFields == UnsatFields \cup {"clauses", "solution", "sat_count", "sat_var", "weight"}

(* Counts do not depend on the weights. *)
LEMMA CountsOkWeighed ==
  ASSUME NEW s, NEW t, NEW N, Same(t, s, N), N \cap (CountsFields \ {"weight"}) = {}, CountsOk(s),
         t.weight \in [ClausesOf(s) -> Nat \ {0}]
  PROVE  CountsOk(t)
<1>1. /\ Rec(t) /\ t.clauses = s.clauses /\ t.solution = s.solution /\ t.sat_count = s.sat_count
      /\ t.sat_var = s.sat_var
  BY DEF Same, Fields, CountsFields
<1>2. VarsIn(t) = VarsIn(s) /\ ClausesOf(t) = ClausesOf(s)
      /\ \A m, c : TrueIn(t, m, c) = TrueIn(s, m, c)
  BY <1>1, SameMeaning
<1>3. Zeros(t) = Zeros(s) /\ Weighed(t)
  BY <1>1, <1>2 DEF Zeros, Weighed, CountsOk
<1>4. Counted(t, Zeros(t))
  <2>1. Counted(s, Zeros(s)) /\ N \cap (UnsatFields \cup {"clauses", "solution"}) = {}
    BY DEF CountsOk, CountsFields, UnsatFields
  <2> QED
    BY <1>3, <2>1, CountedSame
<1>5. \A d \in ClausesOf(t) : RightAt(t, t.solution, d)
  BY <1>1, <1>2 DEF RightAt, CountsOk
<1>6. s.solution \in [VarsIn(s) -> BOOLEAN] /\ s.sat_var \in [ClausesOf(s) -> Int]
      /\ Problem(s.clauses, VarsIn(s))
  BY DEF CountsOk
<1> QED
  BY <1>1, <1>2, <1>3, <1>4, <1>5, <1>6 DEF CountsOk

(* Counts do not depend on the other fields. *)
LEMMA CountsOkSame ==
  ASSUME NEW s, NEW t, NEW N, Same(t, s, N), N \cap CountsFields = {}, CountsOk(s)
  PROVE  CountsOk(t)
<1>1. t.weight = s.weight
  BY DEF Same, Fields, CountsFields
<1>2. t.weight \in [ClausesOf(s) -> Nat \ {0}]
  BY <1>1 DEF CountsOk, Weighed
<1>3. N \cap (CountsFields \ {"weight"}) = {}
  OBVIOUS
<1> QED
  BY <1>2, <1>3, CountsOkWeighed

(* The gain depends on the clauses, the counts and the weights only. *)
LEMMA GainAlike ==
  ASSUME NEW s, NEW V, Problem(s.clauses, V), NEW t, NEW N, Same(t, s, N),
         N \cap {"clauses", "solution", "sat_count", "weight"} = {}, NEW v
  PROVE  Gain(t, v) = Gain(s, v)
<1>1. t.clauses = s.clauses /\ t.solution = s.solution /\ t.sat_count = s.sat_count
      /\ t.weight = s.weight
  BY DEF Same, Fields
<1>2. ClausesOf(t) = ClausesOf(s) /\ \A c : TrueVars(t, c) = TrueVars(s, c)
  BY <1>1, SameMeaning
<1>3. \A c \in About(s, v) : Worth(t, v)[c] = Worth(s, v)[c]
  BY <1>1, <1>2 DEF Worth
<1> QED
  BY <1>1, <1>3, GainSame

(* So the scores stay right when none of these changes. *)
LEMMA ScoredSame ==
  ASSUME NEW s, CountsOk(s), Scored(s), NEW t, NEW N, Same(t, s, N),
         N \cap {"clauses", "solution", "sat_count", "weight", "score"} = {}
  PROVE  Scored(t)
<1>1. t.score = s.score /\ t.clauses = s.clauses /\ t.solution = s.solution
  BY DEF Same, Fields
<1>2. VarsIn(t) = VarsIn(s)
  BY <1>1 DEF VarsIn
<1>3. \A v : Gain(t, v) = Gain(s, v)
  <2>1. Problem(s.clauses, VarsIn(s)) /\ N \cap {"clauses", "solution", "sat_count", "weight"} = {}
    BY DEF CountsOk
  <2> QED
    BY <2>1, GainAlike
<1> QED
  BY <1>1, <1>2, <1>3 DEF Scored

(* The candidates stay right when neither scores nor configurations change. *)
LEMMA CcdRightSame ==
  ASSUME NEW s, NEW t, NEW N, Same(t, s, N), CcdRight(s),
         N \cap {"solution", "score", "cc_value", "in_ccd", "ccd_vars"} = {}
  PROVE  CcdRight(t)
<1>1. t.solution = s.solution /\ t.score = s.score /\ t.cc_value = s.cc_value
      /\ t.in_ccd = s.in_ccd /\ t.ccd_vars = s.ccd_vars
  BY DEF Same, Fields
<1>2. VarsIn(t) = VarsIn(s) /\ Wanted(t) = Wanted(s)
  BY <1>1 DEF VarsIn, Wanted
<1> QED
  BY <1>1, <1>2 DEF CcdRight, CcdOk

(* The average stays right when the weights stay. *)
LEMMA AveragedSame ==
  ASSUME NEW s, NEW t, NEW N, Same(t, s, N), Averaged(s),
         N \cap {"clauses", "weight", "avg", "delta"} = {}
  PROVE  Averaged(t)
<1>1. t.clauses = s.clauses /\ t.weight = s.weight /\ t.avg = s.avg /\ t.delta = s.delta
  BY DEF Same, Fields
<1> QED
  BY <1>1 DEF Averaged, ClausesOf

(* Nothing depends on the memory accesses that are counted. *)
LEMMA GoodSame ==
  ASSUME NEW s, NEW t, Same(t, s, {"mems"}), Good(s)
  PROVE  Good(t)
<1>1. CountsOk(t)
  BY CountsOkSame DEF Good, CountsFields, UnsatFields
<1>2. Scored(t)
  BY ScoredSame DEF Good
<1>3. CcdRight(t)
  BY CcdRightSame DEF Good
<1>4. Averaged(t)
  BY AveragedSame DEF Good
<1>5. Stepped(t)
  BY DEF Good, Stepped, Same, Fields, VarsIn
<1> QED
  BY <1>1, <1>2, <1>3, <1>4, <1>5 DEF Good

-----------------------------------------------------------------------------
NoteFlip(s, v, n, k) == [s EXCEPT !.score[v] = n, !.last_flip_step[v] = k]

(* The end of flip: score and step of the flipped variable. *)
LEMMA NoteFlipFacts ==
  ASSUME NEW s, Rec(s), NEW v, NEW n, NEW k
  PROVE  /\ Same(NoteFlip(s, v, n, k), s, {"score", "last_flip_step"})
         /\ NoteFlip(s, v, n, k).score = SetAt(s.score, v, n)
         /\ NoteFlip(s, v, n, k).last_flip_step = SetAt(s.last_flip_step, v, k)
BY DEF Same, Rec, Fields, NoteFlip, SetAt

(* flip keeps counts, scores, candidates and the average right. *)
LEMMA FlipGood ==
  ASSUME NEW s, Good(s), NEW v \in VarsIn(s), ls_step \in 0 .. MaxSteps, NEW t, t = flip(s, v)
  PROVE  /\ Good(t) /\ t.solution = Turned(s.solution, v) /\ t.clauses = s.clauses
         /\ VarsIn(t) = VarsIn(s)
<1> DEFINE V == VarsIn(s)
           n == Len(OccursIn(s, v))
           a == FlipAll(TurnVar(s, v, n), v, OccursIn(s, v))
           b == NoteFlip(a, v, -s.score[v], ls_step)
           N == FlipFields \cup {"solution", "mems"}
<1>1. t = update_cc_after_flip(b, v)
  BY DEF flip, FlipAll, NoteFlip, TurnVar
<1>2. CountsOk(s) /\ Scored(s) /\ CcdRight(s) /\ Averaged(s) /\ Stepped(s)
  BY DEF Good
<1>3. /\ CountsOk(a) /\ Same(a, s, N)
      /\ a.solution = Turned(s.solution, v)
      /\ a.score \in [VarsIn(a) -> Int]
      /\ \A u \in VarsIn(a) \ {v} : a.score[u] = Gain(a, u)
      /\ Gain(a, v) = -Gain(s, v)
      /\ \A u \in VarsIn(a) \ {v} : u \notin Touching(s, v) => a.score[u] = s.score[u]
  <2>1. a = FlipAll(TurnVar(s, v, n), v, OccursIn(s, v))
    OBVIOUS
  <2> HIDE DEF n, a, V
  <2>2. CountsOk(a) /\ Same(a, s, FlipFields \cup {"solution", "mems"})
    BY <1>2, <2>1, FlipEnds
  <2>3. a.solution = Turned(s.solution, v) /\ a.score \in [VarsIn(a) -> Int]
    BY <1>2, <2>1, FlipEnds
  <2>4. \A u \in VarsIn(a) \ {v} : a.score[u] = Gain(a, u)
    BY <1>2, <2>1, FlipEnds
  <2>5. Gain(a, v) = -Gain(s, v)
    BY <1>2, <2>1, FlipEnds
  <2>6. \A u \in VarsIn(a) \ {v} : u \notin Touching(s, v) => a.score[u] = s.score[u]
    BY <1>2, <2>1, FlipEnds
  <2> QED
    BY <2>2, <2>3, <2>4, <2>5, <2>6
<1> HIDE DEF a
<1>4. /\ Rec(a) /\ a.clauses = s.clauses /\ a.last_flip_step = s.last_flip_step
      /\ a.cc_value = s.cc_value /\ a.in_ccd = s.in_ccd /\ a.ccd_vars = s.ccd_vars
      /\ a.avg = s.avg /\ a.delta = s.delta /\ a.weight = s.weight
  BY <1>3 DEF Same, Fields, FlipFields, UnsatFields
<1>5. VarsIn(a) = V
  BY <1>3 DEF VarsIn, Turned
<1>6. /\ Same(b, a, {"score", "last_flip_step"}) /\ b.score = SetAt(a.score, v, -s.score[v])
      /\ b.last_flip_step = SetAt(a.last_flip_step, v, ls_step)
  BY <1>4, NoteFlipFacts
<1> HIDE DEF b
<1>7. /\ Rec(b) /\ b.clauses = a.clauses /\ b.solution = a.solution
      /\ b.cc_value = s.cc_value /\ b.in_ccd = s.in_ccd /\ b.ccd_vars = s.ccd_vars
      /\ b.avg = s.avg /\ b.delta = s.delta /\ b.weight = s.weight
  BY <1>4, <1>6 DEF Same, Fields
<1>8. VarsIn(b) = V /\ \A u : Gain(b, u) = Gain(a, u)
  <2>1. VarsIn(b) = V
    BY <1>5, <1>7 DEF VarsIn
  <2>2. Problem(a.clauses, VarsIn(a))
    BY <1>3 DEF CountsOk
  <2>3. {"score", "last_flip_step"} \cap {"clauses", "solution", "sat_count", "weight"} = {}
    OBVIOUS
  <2> QED
    BY <1>6, <2>1, <2>2, <2>3, GainAlike
<1>9. CountsOk(b)
  <2>1. {"score", "last_flip_step"} \cap CountsFields = {}
    BY DEF CountsFields, UnsatFields
  <2> QED
    BY <1>3, <1>6, <2>1, CountsOkSame
<1>10. s.score \in [V -> Int] /\ \A u \in V : s.score[u] = Gain(s, u)
  BY <1>2 DEF Scored
<1>11. b.score \in [V -> Int]
       /\ \A u \in V : b.score[u] = IF u = v THEN -s.score[v] ELSE a.score[u]
  BY <1>3, <1>5, <1>6, <1>10 DEF SetAt
<1>12. Scored(b)
  <2>1. ASSUME NEW u \in V PROVE b.score[u] = Gain(b, u)
    <3>1. CASE u = v
      BY <1>3, <1>8, <1>10, <1>11, <3>1
    <3>2. CASE u # v
      BY <1>3, <1>5, <1>8, <1>11, <3>2
    <3> QED
      BY <3>1, <3>2
  <2> QED
    BY <1>8, <1>11, <2>1 DEF Scored
<1>13. CcdOk(s, V) /\ s.cc_value \in [V -> BOOLEAN] /\ ToSet(s.ccd_vars) = Wanted(s)
  BY <1>2 DEF CcdRight
<1>14. CcUpdated(b, t, v)
  <2>1. CcdOk(b, VarsIn(b)) /\ b.cc_value \in [VarsIn(b) -> BOOLEAN] /\ v \in VarsIn(b)
    BY <1>7, <1>8, <1>13 DEF CcdOk
  <2>2. Problem(b.clauses, VarsIn(b))
    BY <1>9 DEF CountsOk
  <2> QED
    BY <1>1, <1>7, <2>1, <2>2, CcAfter
<1>15. Touching(b, v) = Touching(s, v)
  <2>1. b.clauses = s.clauses /\ VarsIn(b) = VarsIn(s)
    BY <1>4, <1>7, <1>8
  <2> QED
    BY <2>1 DEF Touching, About, ClausesOf, Mentions, ClauseVars
<1>16. /\ Same(t, b, JoinFields) /\ CcdOk(t, V) /\ t.cc_value \in [V -> BOOLEAN]
       /\ \A x \in V : t.cc_value[x] <=> x \in Touching(s, v) \ {v} \/ (x # v /\ s.cc_value[x])
       /\ ToSet(t.ccd_vars) = {x \in ToSet(s.ccd_vars) : b.score[x] > 0}
                                \cup {x \in Touching(s, v) \ {v} : b.score[x] > 0}
  BY <1>7, <1>8, <1>14, <1>15 DEF CcUpdated
<1>17. /\ t.score = b.score /\ t.solution = b.solution /\ t.clauses = b.clauses
       /\ t.last_flip_step = b.last_flip_step
  BY <1>16 DEF Same, Fields, JoinFields, CcdFields
<1>18. VarsIn(t) = V
  BY <1>8, <1>17 DEF VarsIn
<1>19. CcdRight(t)
  <2>1. ASSUME NEW x \in V
        PROVE  x \in ToSet(t.ccd_vars) <=> (t.score[x] > 0 /\ t.cc_value[x])
    <3>1. x \in ToSet(s.ccd_vars) <=> (s.score[x] > 0 /\ s.cc_value[x])
      BY <1>13 DEF Wanted
    <3>2. x \in ToSet(t.ccd_vars) <=> (x \in ToSet(s.ccd_vars) /\ b.score[x] > 0)
                                        \/ (x \in Touching(s, v) \ {v} /\ b.score[x] > 0)
      BY <1>16
    <3>3. CASE x = v
      <4>1. b.score[x] = -s.score[x] /\ s.score[x] \in Int
        BY <1>10, <1>11, <3>3
      <4>2. ~t.cc_value[x]
        BY <1>16, <3>3
      <4>3. x \notin ToSet(t.ccd_vars)
        BY <3>1, <3>2, <3>3, <4>1
      <4> QED
        BY <4>2, <4>3
    <3>4. CASE x # v /\ x \in Touching(s, v)
      BY <1>16, <1>17, <3>2, <3>4
    <3>5. CASE x # v /\ x \notin Touching(s, v)
      <4>1. b.score[x] = s.score[x]
        BY <1>3, <1>5, <1>11, <3>5
      <4>2. t.cc_value[x] <=> s.cc_value[x]
        BY <1>16, <3>5
      <4> QED
        BY <1>17, <3>1, <3>2, <3>5, <4>1, <4>2
    <3> QED
      BY <3>3, <3>4, <3>5
  <2>2. \A x \in ToSet(t.ccd_vars) : x \in V
    <3>1. t.ccd_vars \in Seq(V)
      BY <1>16 DEF CcdOk
    <3> QED
      BY <3>1 DEF ToSet
  <2>3. ToSet(t.ccd_vars) = Wanted(t)
    BY <1>18, <2>1, <2>2 DEF Wanted
  <2> QED
    BY <1>16, <1>18, <2>3 DEF CcdRight
<1>20. CountsOk(t)
  <2>1. JoinFields \cap CountsFields = {}
    BY DEF JoinFields, CcdFields, CountsFields, UnsatFields
  <2> QED
    BY <1>9, <1>16, <2>1, CountsOkSame
<1>21. Scored(t)
  <2>1. JoinFields \cap {"clauses", "solution", "sat_count", "weight", "score"} = {}
    BY DEF JoinFields, CcdFields
  <2> QED
    BY <1>9, <1>12, <1>16, <2>1, ScoredSame
<1>22. Averaged(t)
  <2>1. Averaged(b)
    BY <1>2, <1>4, <1>7 DEF Averaged, ClausesOf
  <2>2. JoinFields \cap {"clauses", "weight", "avg", "delta"} = {}
    BY DEF JoinFields, CcdFields
  <2> QED
    BY <1>16, <2>1, <2>2, AveragedSame
<1>23. Stepped(t)
  <2>1. s.last_flip_step \in [V -> 0 .. MaxSteps]
    BY <1>2 DEF Stepped
  <2>2. t.last_flip_step \in [V -> 0 .. MaxSteps]
    BY <1>4, <1>6, <1>17, <2>1 DEF SetAt
  <2> QED
    BY <1>18, <2>2 DEF Stepped
<1> QED
  BY <1>3, <1>4, <1>7, <1>17, <1>18, <1>19, <1>20, <1>21, <1>22, <1>23 DEF Good

-----------------------------------------------------------------------------
(* initialize. *)

(* Sorted lists a set of literals, each once. *)
LEMMA SortedFacts ==
  ASSUME NEW S \in SUBSET Lits
  PROVE  Sorted(S) \in Seq(S) /\ ToSet(Sorted(S)) = S /\ Distinct(Sorted(S))
<1> DEFINE n == NVars + NVars
           all == [k \in 1 .. n |-> k - 1]
<1>1. n \in Nat
  BY NVarsAssumption
<1> HIDE DEF n
<1>8. \A k \in 1 .. n : k - 1 \in Lits
  BY NVarsAssumption DEF Lits, n
<1>2. all \in Seq(Lits) /\ DOMAIN all = 1 .. n /\ \A k \in 1 .. n : all[k] = k - 1
  BY <1>1, <1>8
<1> HIDE DEF all
<1>3. ToSet(all) = Lits
  <2>1. ASSUME NEW p \in Lits PROVE \E k \in 1 .. n : all[k] = p
    <3>1. p + 1 \in 1 .. n /\ (p + 1) - 1 = p
      BY NVarsAssumption DEF Lits, n
    <3>2. all[p + 1] = p
      BY <1>2, <3>1
    <3> QED
      BY <3>1, <3>2
  <2>2. \A k \in 1 .. n : all[k] \in Lits
    BY <1>2, <1>8
  <2> QED
    BY <1>2, <2>1, <2>2 DEF ToSet
<1>4. Distinct(all)
  BY <1>1, <1>2 DEF Distinct
<1>5. Sorted(S) = Selected(all, S)
  BY DEF Sorted, all, n
<1>6. /\ Selected(all, S) \in Seq(ToSet(all) \cap S)
      /\ ToSet(Selected(all, S)) = ToSet(all) \cap S
      /\ Distinct(all) => Distinct(Selected(all, S))
  BY <1>2, SelectedFacts
<1>7. Lits \cap S = S
  OBVIOUS
<1> QED
  BY <1>3, <1>4, <1>5, <1>6, <1>7

(* The candidates that initialize_variable_datas makes are those that it
   should. *)
LEMMA WithCcdFacts ==
  ASSUME NEW s, Rec(s), VarsIn(s) \in SUBSET Vars, s.cc_value \in [VarsIn(s) -> BOOLEAN],
         NEW t, t = WithCcd(s)
  PROVE  Same(t, s, {"ccd_vars", "in_ccd"}) /\ CcdRight(t)
<1> DEFINE V == VarsIn(s)
           W == Wanted(s)
           q == Sorted(W)
           f == [v \in V |-> v \in W]
<1>1. t = [s EXCEPT !.ccd_vars = q, !.in_ccd = f]
  BY DEF WithCcd
<1>2. W \in SUBSET V /\ W \in SUBSET Lits
  BY NVarsAssumption DEF Wanted, Vars, Lits
<1>3. q \in Seq(W) /\ ToSet(q) = W /\ Distinct(q)
  BY <1>2, SortedFacts
<1>4. q \in Seq(V)
  BY <1>2, <1>3
<1>5. f \in [V -> BOOLEAN] /\ \A x \in V : f[x] <=> x \in W
  <2> HIDE DEF W, V
  <2>1. \A x \in V : f[x] = (x \in W)
    OBVIOUS
  <2>2. f = [x \in V |-> f[x]]
    OBVIOUS
  <2> HIDE DEF f
  <2>3. ASSUME NEW x \in V PROVE f[x] \in BOOLEAN
    <3>1. (x \in W) \in BOOLEAN
      OBVIOUS
    <3> QED
      BY <2>1, <3>1, ZenonT(60)
  <2>4. f \in [V -> BOOLEAN]
    BY <2>2, <2>3
  <2> QED
    BY <2>1, <2>4
<1> HIDE DEF q, f, W
<1>6. Same(t, s, {"ccd_vars", "in_ccd"}) /\ t.ccd_vars = q /\ t.in_ccd = f
  BY <1>1 DEF Same, Rec, Fields
<1>7. t.solution = s.solution /\ t.cc_value = s.cc_value /\ t.score = s.score
  BY <1>6 DEF Same, Fields
<1>8. VarsIn(t) = V /\ Wanted(t) = W
  BY <1>7 DEF VarsIn, Wanted, W
<1> QED
  BY <1>3, <1>4, <1>5, <1>6, <1>7, <1>8 DEF CcdRight, CcdOk

-----------------------------------------------------------------------------
InitFields == UnsatFields \cup {"sat_count", "sat_var"}

(* After the clauses of P were counted. *)
Begun(s, P) ==
  /\ Rec(s) /\ Problem(s.clauses, VarsIn(s)) /\ P \subseteq ClausesOf(s)
  /\ s.solution \in [VarsIn(s) -> BOOLEAN]
  /\ Weighed(s) /\ s.sat_var \in [ClausesOf(s) -> Int]
  /\ Counted(s, {c \in P : s.sat_count[c] = 0})
  /\ \A d \in P : RightAt(s, s.solution, d)

CountVar(s, c, n, v) == [s EXCEPT !.sat_count[c] = n, !.sat_var[c] = v]

(* Count and sole variable of one clause. *)
LEMMA CountVarFacts ==
  ASSUME NEW s, Rec(s), NEW c, NEW n, NEW v
  PROVE  /\ Same(CountVar(s, c, n, v), s, {"sat_count", "sat_var"})
         /\ CountVar(s, c, n, v).sat_count = SetAt(s.sat_count, c, n)
         /\ CountVar(s, c, n, v).sat_var = SetAt(s.sat_var, c, v)
BY DEF Same, Rec, Fields, CountVar, SetAt

(* A set of positions has a largest one. *)
LEMMA TopPicks ==
  ASSUME NEW n \in Nat, NEW S \in SUBSET (1 .. n), S # {}
  PROVE  Max(S) \in S
<1>1. Selects!Largest(S) \in S
  BY Least, Selects!LargestPicks
<1>2. Max(S) = Selects!Largest(S)
  BY DEF Max, Selects!Largest
<1> QED
  BY <1>1, <1>2

(* initialize_clause counts one clause more. *)
LEMMA ClauseBegun ==
  ASSUME NEW s, NEW P, Begun(s, P), NEW c \in ClausesOf(s), c \notin P,
         NEW t, t = initialize_clause(s, c)
  PROVE  Begun(t, P \cup {c}) /\ Same(t, s, InitFields)
<1> DEFINE V == VarsIn(s)
           T == TrueAt(s, c)
           n == Cardinality(T)
           v == IF T = {} THEN -1 ELSE Var(s.clauses[c][Max(T)])
           u == CountVar(s, c, n, v)
           U == {d \in P : s.sat_count[d] = 0}
           A == {d \in P \cup {c} : t.sat_count[d] = 0}
<1>1. /\ Rec(s) /\ Problem(s.clauses, V) /\ P \subseteq ClausesOf(s)
      /\ s.solution \in [V -> BOOLEAN]
      /\ Weighed(s) /\ s.sat_var \in [ClausesOf(s) -> Int]
      /\ Counted(s, U)
      /\ \A d \in P : RightAt(s, s.solution, d)
  BY DEF Begun
<1>2. t = IF T = {} THEN unsat_a_clause(u, c) ELSE u
  BY DEF initialize_clause, CountVar
<1>3. T = TrueIn(s, s.solution, c)
  BY DEF TrueAt, TrueIn
<1>4. IsFiniteSet(T) /\ n \in Nat
  <2> DEFINE X == TrueIn(s, s.solution, c)
  <2>1. IsFiniteSet(X) /\ Cardinality(X) \in Nat
    BY <1>1, TrueFinite
  <2> QED
    BY <1>3, <2>1
<1>5. n = 0 <=> T = {}
  BY <1>4, FS_EmptySet
<1>6. v \in Int /\ (n = 1 => \E i \in T : v = Var(s.clauses[c][i]))
  <2>1. CASE T = {}
    BY <1>5, <2>1
  <2>2. CASE T # {}
    <3> DEFINE k == Len(ClauseVars(s, c))
    <3>1. k \in Nat /\ DOMAIN s.clauses[c] = 1 .. k
      BY <1>1, ProblemFacts
    <3> HIDE DEF k
    <3>2. T \in SUBSET (1 .. k)
      BY <3>1 DEF TrueAt
    <3>3. Max(T) \in T
      BY <2>2, <3>1, <3>2, TopPicks
    <3>4. Var(s.clauses[c][Max(T)]) \in V /\ V \subseteq Vars
      BY <1>1, <3>1, <3>2, <3>3 DEF Problem, ClausesOf
    <3> QED
      BY <2>2, <3>3, <3>4, NVarsAssumption DEF Vars
  <2> QED
    BY <2>1, <2>2
<1> HIDE DEF v, n, T
<1>7. /\ Same(u, s, {"sat_count", "sat_var"}) /\ u.sat_count = SetAt(s.sat_count, c, n)
      /\ u.sat_var = SetAt(s.sat_var, c, v)
  BY <1>1, CountVarFacts
<1> HIDE DEF u
<1>8. /\ Rec(u) /\ u.clauses = s.clauses /\ u.solution = s.solution /\ u.weight = s.weight
  BY <1>7 DEF Same, Fields
<1>9. VarsIn(u) = V /\ ClausesOf(u) = ClausesOf(s)
  BY <1>8, SameMeaning
<1>10. Counted(u, U)
  <2>1. {"sat_count", "sat_var"} \cap (UnsatFields \cup {"clauses", "solution"}) = {}
    BY DEF UnsatFields
  <2> HIDE DEF U
  <2> QED
    BY <1>1, <1>7, <2>1, CountedSame
<1>11. /\ Same(t, u, UnsatFields) /\ Counted(t, IF T = {} THEN U \cup {c} ELSE U)
  <2>1. CASE T = {}
    <3>1. Problem(u.clauses, VarsIn(u)) /\ c \in ClausesOf(u) /\ c \notin U
      BY <1>1, <1>8, <1>9
    <3> HIDE DEF U
    <3>2. Counted(unsat_a_clause(u, c), U \cup {c}) /\ Same(unsat_a_clause(u, c), u, UnsatFields)
      BY <1>10, <3>1, UnsatFacts
    <3> QED
      BY <1>2, <2>1, <3>2
  <2>2. CASE T # {}
    BY <1>2, <1>8, <1>10, <2>2 DEF Same
  <2> QED
    BY <2>1, <2>2
<1>12. /\ Rec(t) /\ t.clauses = s.clauses /\ t.solution = s.solution /\ t.weight = s.weight
       /\ t.sat_count = SetAt(s.sat_count, c, n) /\ t.sat_var = SetAt(s.sat_var, c, v)
  BY <1>7, <1>8, <1>11 DEF Same, Fields, UnsatFields
<1>13. /\ VarsIn(t) = V /\ ClausesOf(t) = ClausesOf(s)
       /\ \A m, d : TrueIn(t, m, d) = TrueIn(s, m, d)
  BY <1>12, SameMeaning
<1>14. /\ t.sat_count \in [ClausesOf(s) -> Nat] /\ t.sat_var \in [ClausesOf(s) -> Int]
       /\ t.sat_count[c] = n /\ t.sat_var[c] = v
       /\ \A d \in P : t.sat_count[d] = s.sat_count[d] /\ t.sat_var[d] = s.sat_var[d]
  BY <1>1, <1>4, <1>6, <1>12 DEF SetAt, Weighed
<1>15. A = IF T = {} THEN U \cup {c} ELSE U
  BY <1>5, <1>14
<1>16. ASSUME NEW d \in P \cup {c} PROVE RightAt(t, t.solution, d)
  <2>1. CASE d \in P
    <3>1. RightAt(s, s.solution, d)
      BY <1>1, <2>1
    <3> QED
      BY <1>12, <1>13, <1>14, <2>1, <3>1 DEF RightAt
  <2>2. CASE d = c
    BY <1>3, <1>6, <1>12, <1>13, <1>14, <2>2 DEF RightAt, n
  <2> QED
    BY <2>1, <2>2
<1>17. Same(t, s, InitFields)
  BY <1>7, <1>11 DEF Same, InitFields
<1>18. Weighed(t)
  BY <1>1, <1>12, <1>13, <1>14 DEF Weighed
<1>19. Counted(t, A)
  BY <1>11, <1>15
<1>20. Problem(t.clauses, VarsIn(t)) /\ P \cup {c} \subseteq ClausesOf(t)
       /\ t.solution \in [VarsIn(t) -> BOOLEAN] /\ t.sat_var \in [ClausesOf(t) -> Int]
  BY <1>1, <1>12, <1>13, <1>14
<1> QED
  BY <1>12, <1>16, <1>17, <1>18, <1>19, <1>20 DEF Begun

BeginOp(ps, t, k) == initialize_clause(t, ps[k])
Begins == INSTANCE FoldTheorems WITH op <- BeginOp, pick <- Top
BeginAll(s, ps) == FoldLeft(initialize_clause, s, ps)

(* initialize, clause by clause. *)
LEMMA BeginTrace ==
  ASSUME NEW n \in Nat, NEW ps, DOMAIN ps = 1 .. n, NEW s
  PROVE  \E g : /\ g[0] = s
                /\ \A k \in 1 .. n : g[k] = initialize_clause(g[k - 1], ps[k])
                /\ BeginAll(s, ps) = g[n]
<1> DEFINE f == CHOOSE f : Begins!Folds(ps, s, 1 .. n, f)
<1>1. \A S : Top(S) = Begins!Largest(S)
  BY DEF Top, Begins!Largest
<1>2. BeginAll(s, ps) = f[1 .. n]
  BY DEF BeginAll, BeginOp, Top, Begins!Folds, FoldLeft, MapThenFoldSet, Max
<1>3. \E h : Begins!Folds(ps, s, 1 .. n, h)
  BY <1>1, Least, Begins!SequenceFold
<1>4. Begins!Folds(ps, s, 1 .. n, f)
  BY <1>3
<1> HIDE DEF f
<1>5. PICK g : Begins!Trace(ps, s, n, g) /\ g[n] = f[1 .. n]
  BY <1>1, <1>4, Begins!SequenceTrace
<1> QED
  BY <1>2, <1>5 DEF Begins!Trace, BeginOp

(* The positions of a sequence, in order. *)
LEMMA PositionsFacts ==
  ASSUME NEW X, NEW seq \in Seq(X)
  PROVE  /\ Len(seq) \in Nat /\ DOMAIN Positions(seq) = 1 .. Len(seq)
         /\ \A k \in 1 .. Len(seq) : Positions(seq)[k] = k
BY DEF Positions

(* When all clauses were counted the counts are right. *)
LEMMA AllBegun ==
  ASSUME NEW s, Begun(s, {}), NEW t, t = BeginAll(s, Positions(s.clauses))
  PROVE  CountsOk(t) /\ Same(t, s, InitFields)
<1> DEFINE n == Len(s.clauses)
           ps == Positions(s.clauses)
<1>1. Problem(s.clauses, VarsIn(s)) /\ Rec(s)
  BY DEF Begun
<1>2. n \in Nat /\ ClausesOf(s) = 1 .. n
  BY <1>1, ProblemFacts
<1>3. DOMAIN ps = 1 .. n /\ \A k \in 1 .. n : ps[k] = k
  <2>1. s.clauses \in Seq(Seq(Lits))
    BY <1>1 DEF Problem
  <2> QED
    BY <2>1, PositionsFacts
<1>4. t = BeginAll(s, ps)
  OBVIOUS
<1> HIDE DEF n, ps
<1>5. \E g : /\ g[0] = s
             /\ \A k \in 1 .. n : g[k] = initialize_clause(g[k - 1], ps[k])
             /\ BeginAll(s, ps) = g[n]
  BY <1>2, <1>3, BeginTrace
<1>6. PICK g : /\ g[0] = s
               /\ \A k \in 1 .. n : g[k] = initialize_clause(g[k - 1], k)
               /\ t = g[n]
  BY <1>3, <1>4, <1>5
<1> DEFINE good(k, u) == Begun(u, 1 .. k) /\ Same(u, s, InitFields)
           G == {k \in 0 .. n : good(k, g[k])}
<1>7. 0 \in G
  <2>1. 1 .. 0 = {} /\ 0 \in 0 .. n
    BY <1>2
  <2>2. Same(s, s, InitFields)
    BY <1>1 DEF Same
  <2> QED
    BY <1>6, <2>1, <2>2
<1>8. ASSUME NEW k \in 1 .. n, k - 1 \in G PROVE k \in G
  <2> DEFINE u == g[k - 1]
             w == g[k]
             P == 1 .. k - 1
  <2>1. k \in 0 .. n /\ Begun(u, P) /\ Same(u, s, InitFields)
    BY <1>8
  <2>2. w = initialize_clause(u, k)
    BY <1>6
  <2>3. 1 .. k = P \cup {k} /\ k \notin P
    OBVIOUS
  <2> HIDE DEF u, w, P
  <2>4. k \in ClausesOf(u)
    <3>1. u.clauses = s.clauses
      BY <2>1 DEF Same, Fields, InitFields, UnsatFields
    <3> QED
      BY <1>2, <3>1 DEF ClausesOf
  <2>5. Begun(w, P \cup {k}) /\ Same(w, u, InitFields)
    BY <2>1, <2>2, <2>3, <2>4, ClauseBegun
  <2>6. Same(w, s, InitFields)
    BY <2>1, <2>5 DEF Same
  <2> QED
    BY <2>1, <2>3, <2>5, <2>6 DEF w
<1> HIDE DEF G
<1>9. n \in G
  BY <1>2, <1>7, <1>8, Climb
<1>10. Begun(t, 1 .. n) /\ Same(t, s, InitFields)
  BY <1>6, <1>9 DEF G
<1>11. ClausesOf(t) = 1 .. n
  <2>1. t.clauses = s.clauses
    BY <1>10 DEF Same, Fields, InitFields, UnsatFields
  <2> QED
    BY <1>2, <2>1 DEF ClausesOf
<1>12. CountsOk(t)
  BY <1>10, <1>11 DEF Begun, CountsOk, Zeros
<1> QED
  BY <1>10, <1>12

(* An empty list lists nothing. *)
LEMMA EmptyListed ==
  ASSUME NEW S, NEW s
  PROVE  Empty(s, S) \in Lists(S) /\ Listed(Empty(s, S), {})
<1>1. Empty(s, S).items = <<>> /\ Empty(s, S) \in Lists(S)
  BY DEF Empty, Lists
<1>2. ToSet(<< >>) = {} /\ Len(<< >>) = 0 /\ DOMAIN << >> = {}
  BY DEF ToSet
<1>3. Cardinality({}) = 0
  BY FS_EmptySet
<1> QED
  BY <1>1, <1>2, <1>3 DEF Listed

(* clear_prev_data leaves a state in which no clause was counted, and all
   weigh one. *)
LEMMA Cleared ==
  ASSUME NEW V, NEW cs, Problem(cs, V), NEW soln \in [V -> BOOLEAN],
         NEW s, s = clear_prev_data(cs, soln)
  PROVE  /\ Begun(s, {}) /\ s.clauses = cs /\ s.solution = soln
         /\ s.avg = 1 /\ s.delta = 0 /\ \A c \in DOMAIN cs : s.weight[c] = 1
<1>1. DOMAIN soln = V
  OBVIOUS
<1>2. s = [clauses |-> cs, solution |-> soln,
           sat_count |-> [c \in DOMAIN cs |-> 0], sat_var |-> [c \in DOMAIN cs |-> -1],
           weight |-> [c \in DOMAIN cs |-> 1],
           unsat_clauses |-> Empty(cs, DOMAIN cs), unsat_vars |-> Empty(soln, V),
           unsat_appear |-> [v \in V |-> 0], score |-> [v \in V |-> 0],
           last_flip_step |-> [v \in V |-> 0], cc_value |-> [v \in V |-> TRUE],
           in_ccd |-> [v \in V |-> FALSE], ccd_vars |-> <<>>, avg |-> 1, delta |-> 0, mems |-> 0]
  BY <1>1 DEF clear_prev_data
<1>3. Rec(s)
  BY <1>2 DEF Rec, Fields
<1>4. /\ s.clauses = cs /\ s.solution = soln /\ s.avg = 1 /\ s.delta = 0
      /\ s.sat_count = [c \in DOMAIN cs |-> 0] /\ s.sat_var = [c \in DOMAIN cs |-> -1]
      /\ s.weight = [c \in DOMAIN cs |-> 1]
      /\ s.unsat_clauses = Empty(cs, DOMAIN cs) /\ s.unsat_vars = Empty(soln, V)
      /\ s.unsat_appear = [v \in V |-> 0]
  BY <1>2
<1>5. VarsIn(s) = V /\ ClausesOf(s) = DOMAIN cs
  BY <1>1, <1>4 DEF VarsIn, ClausesOf
<1>6. Weighed(s) /\ s.sat_var \in [ClausesOf(s) -> Int]
  BY <1>4, <1>5 DEF Weighed
<1>7. Counted(s, {})
  <2>1. {v \in V : s.unsat_appear[v] > 0} = {}
    BY <1>4
  <2>2. s.unsat_appear \in [V -> Nat]
    BY <1>4
  <2>3. s.unsat_vars \in Lists(V) /\ Listed(s.unsat_vars, {})
    BY <1>4, EmptyListed
  <2>4. Appearing(s, VarsIn(s))
    BY <1>3, <1>5, <2>1, <2>2, <2>3 DEF Appearing
  <2>5. s.unsat_clauses \in Lists(ClausesOf(s)) /\ Listed(s.unsat_clauses, {})
    BY <1>4, <1>5, EmptyListed
  <2>6. \A v \in VarsIn(s) : s.unsat_appear[v] = Cardinality(AboutIn(s, {}, v))
    <3>1. \A v : AboutIn(s, {}, v) = {}
      BY DEF AboutIn
    <3>2. Cardinality({}) = 0
      BY FS_EmptySet
    <3> QED
      BY <1>4, <1>5, <3>1, <3>2
  <2> QED
    BY <2>4, <2>5, <2>6 DEF Counted
<1>8. {c \in {} : s.sat_count[c] = 0} = {}
  OBVIOUS
<1> QED
  BY <1>3, <1>4, <1>5, <1>6, <1>7, <1>8 DEF Begun

(* The average of ones. *)
LEMMA Ones ==
  ASSUME NEW F, NEW n \in Nat, \A c \in 1 .. n : F[c] = 1
  PROVE  SumOf(F, 1 .. n) = n
<1> DEFINE G == {k \in 0 .. n : SumOf(F, 1 .. k) = k}
<1>1. 0 \in G
  <2>1. 1 .. 0 = {} /\ 0 \in 0 .. n
    OBVIOUS
  <2> QED
    BY <2>1, SumEmpty
<1>2. ASSUME NEW k \in 1 .. n, k - 1 \in G PROVE k \in G
  <2> DEFINE S == 1 .. k - 1
  <2>1. S \in SUBSET (1 .. n) /\ k \notin S /\ 1 .. k = S \cup {k} /\ k \in 0 .. n
    OBVIOUS
  <2>2. SumOf(F, S) = k - 1
    BY <1>2
  <2>3. Wholes(F, S) /\ F[k] = 1
    BY <2>1 DEF Wholes
  <2> HIDE DEF S
  <2>4. SumOf(F, S \cup {k}) = F[k] + SumOf(F, S)
    BY <2>1, <2>3, SumAdd
  <2>5. 1 + (k - 1) = k
    OBVIOUS
  <2> QED
    BY <2>1, <2>2, <2>3, <2>4, <2>5
<1> HIDE DEF G
<1>3. n \in G
  BY <1>1, <1>2, Climb
<1> QED
  BY <1>3 DEF G

-----------------------------------------------------------------------------
Fresh(s, gain, steps, cc) == [s EXCEPT !.score = gain, !.last_flip_step = steps, !.cc_value = cc]

(* Scores, steps and configurations at the beginning. *)
LEMMA FreshFacts ==
  ASSUME NEW s, Rec(s), NEW gain, NEW steps, NEW cc
  PROVE  /\ Same(Fresh(s, gain, steps, cc), s, {"score", "last_flip_step", "cc_value"})
         /\ Fresh(s, gain, steps, cc).score = gain
         /\ Fresh(s, gain, steps, cc).last_flip_step = steps
         /\ Fresh(s, gain, steps, cc).cc_value = cc
BY DEF Same, Rec, Fields, Fresh

(* initialize_variable_datas makes scores and candidates right. *)
LEMMA DatasGood ==
  ASSUME NEW s, CountsOk(s), Averaged(s), NEW t, t = initialize_variable_datas(s)
  PROVE  Good(t) /\ t.clauses = s.clauses /\ t.solution = s.solution
<1> DEFINE V == VarsIn(s)
           gain == [v \in V |-> Gain(s, v)]
           steps == [v \in V |-> 0]
           cc == [v \in V |-> TRUE]
           u == Fresh(s, gain, steps, cc)
           N == {"score", "last_flip_step", "cc_value"}
           M == {"ccd_vars", "in_ccd"}
<1>1. Rec(s) /\ Problem(s.clauses, V) /\ Weighed(s)
  BY DEF CountsOk
<1>2. t = WithCcd(u)
  BY DEF initialize_variable_datas, Fresh
<1>3. gain \in [V -> Int] /\ \A v \in V : gain[v] = Gain(s, v)
  <2>1. \A v \in V : Gain(s, v) \in Int
    BY <1>1, GainInt
  <2> QED
    BY <2>1
<1>4. steps \in [V -> 0 .. MaxSteps] /\ cc \in [V -> BOOLEAN]
  BY BudgetAssumption
<1> HIDE DEF gain, steps, cc, V
<1>5. Same(u, s, N) /\ u.score = gain /\ u.last_flip_step = steps /\ u.cc_value = cc
  BY <1>1, FreshFacts
<1> HIDE DEF u
<1>6. Rec(u) /\ u.clauses = s.clauses /\ u.solution = s.solution
  BY <1>5 DEF Same, Fields
<1>7. VarsIn(u) = V
  BY <1>6 DEF VarsIn, V
<1>8. CountsOk(u)
  <2>1. N \cap CountsFields = {}
    BY DEF CountsFields, UnsatFields
  <2> HIDE DEF N
  <2> QED
    BY <1>5, <2>1, CountsOkSame
<1>9. Scored(u)
  <2>1. \A v : Gain(u, v) = Gain(s, v)
    <3>1. N \cap {"clauses", "solution", "sat_count", "weight"} = {}
      OBVIOUS
    <3> HIDE DEF N
    <3> QED
      BY <1>1, <1>5, <3>1, GainAlike
  <2> QED
    BY <1>3, <1>5, <1>7, <2>1 DEF Scored
<1>10. Averaged(u)
  <2>1. N \cap {"clauses", "weight", "avg", "delta"} = {}
    OBVIOUS
  <2> HIDE DEF N
  <2> QED
    BY <1>5, <2>1, AveragedSame
<1>11. Same(t, u, M) /\ CcdRight(t)
  <2>1. VarsIn(u) \in SUBSET Vars /\ u.cc_value \in [VarsIn(u) -> BOOLEAN]
    BY <1>1, <1>4, <1>5, <1>7 DEF Problem
  <2> QED
    BY <1>2, <1>6, <2>1, WithCcdFacts
<1>12. t.clauses = s.clauses /\ t.solution = s.solution /\ t.last_flip_step = steps
  BY <1>5, <1>6, <1>11 DEF Same, Fields
<1>13. CountsOk(t)
  <2>1. M \cap CountsFields = {}
    BY DEF CountsFields, UnsatFields
  <2> HIDE DEF M
  <2> QED
    BY <1>8, <1>11, <2>1, CountsOkSame
<1>14. Scored(t)
  <2>1. M \cap {"clauses", "solution", "sat_count", "weight", "score"} = {}
    OBVIOUS
  <2> HIDE DEF M
  <2> QED
    BY <1>8, <1>9, <1>11, <2>1, ScoredSame
<1>15. Averaged(t)
  <2>1. M \cap {"clauses", "weight", "avg", "delta"} = {}
    OBVIOUS
  <2> HIDE DEF M
  <2> QED
    BY <1>10, <1>11, <2>1, AveragedSame
<1>16. Stepped(t)
  BY <1>4, <1>12 DEF Stepped, VarsIn, V
<1> QED
  BY <1>11, <1>12, <1>13, <1>14, <1>15, <1>16 DEF Good

(* initialize makes everything right. *)
LEMMA InitializeGood ==
  ASSUME NEW V, NEW cs, Problem(cs, V), NEW soln \in [V -> BOOLEAN], NEW t, t = initialize(cs, soln)
  PROVE  Good(t) /\ t.clauses = cs /\ t.solution = soln
<1> DEFINE a == clear_prev_data(cs, soln)
           b == BeginAll(a, Positions(cs))
<1>1. t = initialize_variable_datas(b)
  BY DEF initialize, BeginAll
<1>2. /\ Begun(a, {}) /\ a.clauses = cs /\ a.solution = soln
      /\ a.avg = 1 /\ a.delta = 0 /\ \A c \in DOMAIN cs : a.weight[c] = 1
  BY Cleared
<1> HIDE DEF a
<1>3. CountsOk(b) /\ Same(b, a, InitFields)
  <2>1. b = BeginAll(a, Positions(a.clauses))
    BY <1>2
  <2> HIDE DEF b
  <2> QED
    BY <1>2, <2>1, AllBegun
<1> HIDE DEF b
<1>4. /\ b.clauses = cs /\ b.solution = soln /\ b.avg = 1 /\ b.delta = 0 /\ b.weight = a.weight
  BY <1>2, <1>3 DEF Same, Fields, InitFields, UnsatFields
<1>5. Averaged(b)
  <2> DEFINE n == Len(cs)
  <2>1. n \in Nat /\ DOMAIN cs = 1 .. n
    BY DEF Problem
  <2> HIDE DEF n
  <2>2. \A c \in 1 .. n : b.weight[c] = 1
    BY <1>2, <1>4, <2>1
  <2>3. SumOf(b.weight, 1 .. n) = n
    BY <2>1, <2>2, Ones
  <2>4. ClausesOf(b) = 1 .. n
    BY <1>4, <2>1 DEF ClausesOf
  <2>5. 1 * n + 0 = n
    BY <2>1
  <2> QED
    BY <1>4, <2>3, <2>4, <2>5 DEF Averaged, n
<1>6. Good(t) /\ t.clauses = b.clauses /\ t.solution = b.solution
  BY <1>1, <1>3, <1>5, DatasGood
<1> QED
  BY <1>4, <1>6

-----------------------------------------------------------------------------
(* update_clause_weights. *)

RaiseStep(t, v) ==
  LET u == [t EXCEPT !.score[v] = @ + t.unsat_appear[v]] IN
    IF u.score[v] > 0 /\ u.cc_value[v] /\ ~u.in_ccd[v] THEN Enlist(u, v) ELSE u
RaiseOp(vs, t, k) == RaiseStep(t, vs[k])
Raises == INSTANCE FoldTheorems WITH op <- RaiseOp, pick <- Top
RaiseAll(s, vs) == FoldLeft(RaiseStep, s, vs)

(* update_clause_weights, variable by variable. *)
LEMMA RaiseTrace ==
  ASSUME NEW n \in Nat, NEW vs, DOMAIN vs = 1 .. n, NEW s
  PROVE  \E g : /\ g[0] = s
                /\ \A k \in 1 .. n : g[k] = RaiseStep(g[k - 1], vs[k])
                /\ RaiseAll(s, vs) = g[n]
<1> DEFINE f == CHOOSE f : Raises!Folds(vs, s, 1 .. n, f)
<1>1. \A S : Top(S) = Raises!Largest(S)
  BY DEF Top, Raises!Largest
<1>2. RaiseAll(s, vs) = f[1 .. n]
  BY DEF RaiseAll, RaiseOp, Top, Raises!Folds, FoldLeft, MapThenFoldSet, Max
<1>3. \E h : Raises!Folds(vs, s, 1 .. n, h)
  BY <1>1, Least, Raises!SequenceFold
<1>4. Raises!Folds(vs, s, 1 .. n, f)
  BY <1>3
<1> HIDE DEF f
<1>5. PICK g : Raises!Trace(vs, s, n, g) /\ g[n] = f[1 .. n]
  BY <1>1, <1>4, Raises!SequenceTrace
<1> QED
  BY <1>2, <1>5 DEF Raises!Trace, RaiseOp

RaiseFields == {"score", "ccd_vars", "in_ccd"}

(* The scores of the variables of P are raised, and they are listed when
   they are worth it. *)
RaisedBy(t, s, V, P) ==
  /\ Same(t, s, RaiseFields) /\ CcdOk(t, V) /\ t.score \in [V -> Int]
  /\ \A x \in V : t.score[x] = IF x \in P THEN s.score[x] + s.unsat_appear[x] ELSE s.score[x]
  /\ ToSet(t.ccd_vars) = ToSet(s.ccd_vars) \cup {x \in P : t.score[x] > 0 /\ s.cc_value[x]}

BumpScore(t, v, n) == [t EXCEPT !.score[v] = @ + n]

(* One variable of unsatisfied clauses: its score grows by how many of them
   mention it, and it may become a candidate. *)
LEMMA RaiseStepFacts ==
  ASSUME NEW V, NEW s, s.unsat_appear \in [V -> Nat], NEW P \in SUBSET V, NEW t, RaisedBy(t, s, V, P),
         NEW v \in V, v \notin P, NEW w, w = RaiseStep(t, v)
  PROVE  RaisedBy(w, s, V, P \cup {v})
<1> DEFINE n == t.unsat_appear[v]
           u == BumpScore(t, v, n)
<1>1. /\ Same(t, s, RaiseFields) /\ CcdOk(t, V) /\ t.score \in [V -> Int]
      /\ \A x \in V : t.score[x] = IF x \in P THEN s.score[x] + s.unsat_appear[x] ELSE s.score[x]
      /\ ToSet(t.ccd_vars) = ToSet(s.ccd_vars) \cup {x \in P : t.score[x] > 0 /\ s.cc_value[x]}
  BY DEF RaisedBy
<1>2. Rec(t) /\ t.unsat_appear = s.unsat_appear /\ t.cc_value = s.cc_value
  BY <1>1 DEF Same, Fields, RaiseFields
<1>3. w = IF u.score[v] > 0 /\ u.cc_value[v] /\ ~u.in_ccd[v] THEN Enlist(u, v) ELSE u
  BY DEF RaiseStep, BumpScore
<1>4. Same(u, t, {"score"}) /\ u.score = [t.score EXCEPT ![v] = @ + n]
  BY <1>2 DEF Same, Rec, Fields, BumpScore
<1> HIDE DEF u
<1>5. Rec(u) /\ u.cc_value = s.cc_value /\ u.in_ccd = t.in_ccd /\ u.ccd_vars = t.ccd_vars
  BY <1>2, <1>4 DEF Same, Fields
<1>6. CcdOk(u, V)
  BY <1>1, <1>5 DEF CcdOk
<1>7. n = s.unsat_appear[v] /\ n \in Nat
  BY <1>2
<1>8. u.score \in [V -> Int]
      /\ \A x \in V : u.score[x] = IF x = v THEN t.score[x] + n ELSE t.score[x]
  BY <1>1, <1>4, <1>7
<1>9. \A x \in V : u.score[x] = IF x \in P \cup {v} THEN s.score[x] + s.unsat_appear[x] ELSE s.score[x]
  BY <1>1, <1>7, <1>8
<1>10. \A x \in P : u.score[x] = t.score[x]
  BY <1>8
<1>11. v \in ToSet(t.ccd_vars) <=> t.in_ccd[v]
  BY <1>1 DEF CcdOk
<1> HIDE DEF n
<1>12. CASE u.score[v] > 0 /\ u.cc_value[v] /\ ~u.in_ccd[v]
  <2>1. w = Enlist(u, v)
    BY <1>3, <1>12
  <2>2. /\ Same(w, u, {"ccd_vars", "in_ccd"}) /\ CcdOk(w, V)
        /\ ToSet(w.ccd_vars) = ToSet(u.ccd_vars) \cup {v}
    BY <1>5, <1>6, <1>12, <2>1, EnlistFacts
  <2>3. w.score = u.score
    BY <2>2 DEF Same, Fields
  <2>4. Same(w, s, RaiseFields)
    BY <1>1, <1>4, <2>2 DEF Same, RaiseFields
  <2>5. ToSet(w.ccd_vars) = ToSet(s.ccd_vars)
                              \cup {x \in P \cup {v} : w.score[x] > 0 /\ s.cc_value[x]}
    BY <1>1, <1>5, <1>10, <1>12, <2>2, <2>3
  <2> QED
    BY <1>8, <1>9, <2>2, <2>3, <2>4, <2>5 DEF RaisedBy
<1>13. CASE ~(u.score[v] > 0 /\ u.cc_value[v] /\ ~u.in_ccd[v])
  <2>1. w = u
    BY <1>3, <1>13
  <2>2. Same(w, s, RaiseFields)
    BY <1>1, <1>4, <2>1 DEF Same, RaiseFields
  <2>3. ToSet(w.ccd_vars) = ToSet(s.ccd_vars)
                              \cup {x \in P \cup {v} : w.score[x] > 0 /\ s.cc_value[x]}
    <3>1. u.score[v] > 0 /\ s.cc_value[v] => v \in ToSet(t.ccd_vars)
      BY <1>5, <1>11, <1>13
    <3> QED
      BY <1>1, <1>5, <1>10, <2>1, <3>1
  <2> QED
    BY <1>6, <1>8, <1>9, <2>1, <2>2, <2>3 DEF RaisedBy
<1> QED
  BY <1>12, <1>13

(* All variables of unsatisfied clauses. *)
LEMMA AllRaised ==
  ASSUME NEW V, NEW s, Rec(s), CcdOk(s, V), s.score \in [V -> Int], s.unsat_appear \in [V -> Nat],
         NEW vs \in Seq(V), Distinct(vs), NEW t, t = RaiseAll(s, vs)
  PROVE  RaisedBy(t, s, V, ToSet(vs))
<1> DEFINE n == Len(vs)
           Upto(k) == {vs[i] : i \in 1 .. k}
<1>1. n \in Nat /\ DOMAIN vs = 1 .. n /\ \A k \in 1 .. n : vs[k] \in V
  OBVIOUS
<1>2. PICK g : /\ g[0] = s
               /\ \A k \in 1 .. n : g[k] = RaiseStep(g[k - 1], vs[k])
               /\ t = g[n]
  <2> HIDE DEF n
  <2>1. n \in Nat /\ DOMAIN vs = 1 .. n
    BY <1>1
  <2>2. \E g : /\ g[0] = s
               /\ \A k \in 1 .. n : g[k] = RaiseStep(g[k - 1], vs[k])
               /\ RaiseAll(s, vs) = g[n]
    BY ONLY <2>1, RaiseTrace
  <2> QED
    BY <2>2
<1> DEFINE G == {k \in 0 .. n : RaisedBy(g[k], s, V, Upto(k))}
<1>3. 0 \in G
  <2>1. Upto(0) = {} /\ 0 \in 0 .. n
    BY <1>1
  <2>2. Same(s, s, RaiseFields)
    BY DEF Same
  <2>3. RaisedBy(s, s, V, {})
    BY <2>2 DEF RaisedBy
  <2> HIDE DEF Upto
  <2> QED
    BY <1>2, <2>1, <2>3
<1>4. ASSUME NEW k \in 1 .. n, k - 1 \in G PROVE k \in G
  <2> DEFINE v == vs[k]
             u == g[k - 1]
             w == g[k]
             P == Upto(k - 1)
  <2>1. k \in 0 .. n /\ RaisedBy(u, s, V, P)
    BY <1>4
  <2>2. Upto(k) = P \cup {v} /\ v \in V /\ v \notin P /\ P \in SUBSET V
    <3>1. \A i \in 1 .. k : i \in 1 .. k - 1 \/ i = k
      OBVIOUS
    <3>2. k \in 1 .. k /\ \A i \in 1 .. k - 1 : i \in 1 .. k /\ i \in 1 .. n /\ i # k
      OBVIOUS
    <3>3. v \in V /\ k \in 1 .. n
      BY <1>1
    <3>4. v \notin P
      BY <1>1, <3>2, <3>3 DEF Distinct
    <3>5. P \in SUBSET V
      BY <1>1, <3>2
    <3>6. Upto(k) = P \cup {v}
      BY <3>1, <3>2
    <3> QED
      BY <3>3, <3>4, <3>5, <3>6
  <2>3. w = RaiseStep(u, v)
    BY <1>2
  <2> HIDE DEF v, u, w, P, Upto
  <2>4. RaisedBy(w, s, V, P \cup {v})
    BY <2>1, <2>2, <2>3, RaiseStepFacts
  <2> QED
    BY <2>1, <2>2, <2>4 DEF w
<1> HIDE DEF G
<1>5. n \in G
  BY <1>1, <1>3, <1>4, Climb
<1>6. Upto(n) = ToSet(vs)
  BY <1>1 DEF ToSet
<1> HIDE DEF Upto
<1> QED
  BY <1>2, <1>5, <1>6 DEF G

Heavier(s) ==
  [s EXCEPT !.weight = [c \in ClausesOf(s) |->
                          IF c \in ToSet(s.unsat_clauses.items) THEN @[c] + 1 ELSE @[c]],
            !.mems = @ + Len(s.unsat_vars.items)]

(* The unsatisfied clauses weigh one more. *)
LEMMA HeavierFacts ==
  ASSUME NEW s, CountsOk(s), NEW h, h = Heavier(s)
  PROVE  /\ CountsOk(h) /\ Same(h, s, {"weight", "mems"})
         /\ \A c \in ClausesOf(s) : h.weight[c] = IF c \in Zeros(s) THEN s.weight[c] + 1 ELSE s.weight[c]
<1> DEFINE U == ToSet(s.unsat_clauses.items)
           w == [c \in ClausesOf(s) |-> IF c \in U THEN s.weight[c] + 1 ELSE s.weight[c]]
           m == s.mems + Len(s.unsat_vars.items)
<1>1. Rec(s) /\ s.weight \in [ClausesOf(s) -> Nat \ {0}] /\ U = Zeros(s)
  BY DEF CountsOk, Weighed, Counted, Listed
<1>2. h = [s EXCEPT !.weight = w, !.mems = m]
  BY DEF Heavier
<1> HIDE DEF U, m
<1>3. w \in [ClausesOf(s) -> Nat \ {0}]
      /\ \A c \in ClausesOf(s) : w[c] = IF c \in U THEN s.weight[c] + 1 ELSE s.weight[c]
  BY <1>1
<1> HIDE DEF w
<1>4. Same(h, s, {"weight", "mems"}) /\ h.weight = w
  BY <1>1, <1>2 DEF Same, Rec, Fields
<1>5. {"weight", "mems"} \cap (CountsFields \ {"weight"}) = {}
  BY DEF CountsFields, UnsatFields
<1>6. CountsOk(h)
  BY <1>3, <1>4, <1>5, CountsOkWeighed
<1> QED
  BY <1>1, <1>3, <1>4, <1>6

(* Every clause that is not satisfied pulls at each of its variables. *)
LEMMA HeavierGain ==
  ASSUME NEW s, CountsOk(s), NEW h, h = Heavier(s), NEW v \in VarsIn(s)
  PROVE  Gain(h, v) = Gain(s, v) + s.unsat_appear[v]
<1> DEFINE C == ClausesOf(s)
           A == About(s, v)
           Z == Zeros(s)
           F == Worth(s, v)
           G == Worth(h, v)
           n == Len(s.clauses)
<1>1. Problem(s.clauses, VarsIn(s)) /\ Weighed(s)
      /\ s.unsat_appear[v] = Cardinality(AboutIn(s, Z, v)) /\ Z \subseteq C
  BY DEF CountsOk, Counted
<1>2. /\ CountsOk(h) /\ Same(h, s, {"weight", "mems"})
      /\ \A c \in C : h.weight[c] = IF c \in Z THEN s.weight[c] + 1 ELSE s.weight[c]
  BY HeavierFacts
<1>3. h.clauses = s.clauses /\ h.solution = s.solution /\ h.sat_count = s.sat_count
  BY <1>2 DEF Same, Fields
<1>4. ClausesOf(h) = C /\ About(h, v) = A /\ \A c : TrueVars(h, c) = TrueVars(s, c)
  <2>1. ClausesOf(h) = C /\ \A c : TrueVars(h, c) = TrueVars(s, c) /\ Mentions(h, c, v) = Mentions(s, c, v)
    BY <1>3, SameMeaning
  <2> QED
    BY <2>1 DEF About
<1>5. A \in SUBSET (1 .. n) /\ n \in Nat /\ A \subseteq C
  BY <1>1, OccursFacts, ProblemFacts DEF About
<1>6. \A c \in A : F[c] = IF s.sat_count[c] = 0 THEN s.weight[c]
                          ELSE IF s.sat_count[c] = 1 /\ v \in TrueVars(s, c) THEN -s.weight[c] ELSE 0
  BY <1>5, WorthAt
<1>7. \A c \in A : G[c] = IF s.sat_count[c] = 0 THEN h.weight[c]
                          ELSE IF s.sat_count[c] = 1 /\ v \in TrueVars(s, c) THEN -h.weight[c] ELSE 0
  <2>1. \A c \in A : G[c] = IF h.sat_count[c] = 0 THEN h.weight[c]
                          ELSE IF h.sat_count[c] = 1 /\ v \in TrueVars(h, c) THEN -h.weight[c] ELSE 0
    BY <1>4, <1>5, WorthAt
  <2> QED
    BY <1>3, <1>4, <2>1
<1>8. \A c \in A : c \in Z <=> s.sat_count[c] = 0
  BY <1>5 DEF Zeros
<1>9. Wholes(F, A)
  BY <1>1, <1>5, WorthWhole
<1>10. Gain(s, v) = SumOf(F, A) /\ Gain(h, v) = SumOf(G, A)
  <2>1. Gain(s, v) = SumOf(F, A)
    BY <1>1, GainSum
  <2>2. Problem(h.clauses, VarsIn(s))
    BY <1>1, <1>3
  <2>3. Gain(h, v) = SumOf(G, About(h, v))
    BY <2>2, GainSum
  <2> QED
    BY <1>4, <2>1, <2>3
<1> HIDE DEF F, G, A, Z, C
<1>11. \A c \in A : G[c] = IF c \in Z THEN F[c] + 1 ELSE F[c]
  BY <1>2, <1>5, <1>6, <1>7, <1>8
<1>12. SumOf(G, A) = SumOf(F, A) + Cardinality(A \cap Z)
  <2>1. Bumps(F, G, Z, A)
    BY <1>9, <1>11 DEF Bumps
  <2> HIDE DEF n
  <2>2. BumpSum(F, G, Z, A)
    BY <1>5, <2>1, BumpedSum
  <2> QED
    BY <2>2 DEF BumpSum
<1>13. A \cap Z = AboutIn(s, Z, v)
  BY <1>1 DEF A, AboutIn, About, C
<1> QED
  BY <1>1, <1>10, <1>12, <1>13

(* So the sum of the weights grows by how many they are. *)
LEMMA HeavierSum ==
  ASSUME NEW s, CountsOk(s), NEW h, h = Heavier(s)
  PROVE  /\ SumOf(h.weight, ClausesOf(s)) = SumOf(s.weight, ClausesOf(s)) + Len(s.unsat_clauses.items)
         /\ Len(s.unsat_clauses.items) \in Nat /\ SumOf(s.weight, ClausesOf(s)) \in Int
<1> DEFINE C == ClausesOf(s)
           Z == Zeros(s)
           F == s.weight
           G == h.weight
           n == Len(s.clauses)
           k == Len(s.unsat_clauses.items)
<1>1. Problem(s.clauses, VarsIn(s)) /\ Weighed(s) /\ Z \subseteq C
      /\ s.unsat_clauses \in Lists(C) /\ k = Cardinality(Z)
  BY DEF CountsOk, Counted, Listed
<1>2. \A c \in C : G[c] = IF c \in Z THEN F[c] + 1 ELSE F[c]
  BY HeavierFacts
<1>3. C = 1 .. n /\ n \in Nat
  BY <1>1, ProblemFacts
<1>4. Wholes(F, C)
  BY <1>1 DEF Weighed, Wholes
<1>5. k \in Nat
  BY <1>1 DEF Lists
<1>6. C \cap Z = Z
  BY <1>1
<1> HIDE DEF C, Z, F, G, n, k
<1>7. C \in SUBSET (1 .. n)
  BY <1>3
<1>8. SumOf(F, C) \in Int
  BY <1>3, <1>4, <1>7, SumInt
<1>9. SumOf(G, C) = SumOf(F, C) + Cardinality(C \cap Z)
  <2>1. Bumps(F, G, Z, C)
    BY <1>2, <1>4 DEF Bumps
  <2>2. BumpSum(F, G, Z, C)
    BY <1>3, <1>7, <2>1, BumpedSum
  <2> QED
    BY <2>2 DEF BumpSum
<1> QED
  BY <1>1, <1>5, <1>6, <1>8, <1>9 DEF C, F, G, k

-----------------------------------------------------------------------------
Raised(s) == RaiseAll(Heavier(s), s.unsat_vars.items)

(* After the scores were raised all is right but the average. *)
LEMMA RaisedFacts ==
  ASSUME NEW s, Good(s), NEW r, r = Raised(s)
  PROVE  /\ CountsOk(r) /\ Scored(r) /\ CcdRight(r) /\ Stepped(r)
         /\ Same(r, s, RaiseFields \cup {"weight", "mems"})
         /\ SumOf(r.weight, ClausesOf(r)) = s.avg * Len(s.clauses) + s.delta + Len(s.unsat_clauses.items)
<1> DEFINE V == VarsIn(s)
           h == Heavier(s)
           vs == s.unsat_vars.items
           L == ToSet(vs)
<1>1. CountsOk(s) /\ Scored(s) /\ CcdRight(s) /\ Stepped(s) /\ Averaged(s)
  BY DEF Good
<1>2. CountsOk(h) /\ Same(h, s, {"weight", "mems"})
  BY <1>1, HeavierFacts
<1>3. \A v \in V : Gain(h, v) = Gain(s, v) + s.unsat_appear[v]
  BY <1>1, HeavierGain
<1>4. /\ SumOf(h.weight, ClausesOf(s)) = SumOf(s.weight, ClausesOf(s)) + Len(s.unsat_clauses.items)
      /\ Len(s.unsat_clauses.items) \in Nat /\ SumOf(s.weight, ClausesOf(s)) \in Int
  BY <1>1, HeavierSum
<1> HIDE DEF h
<1>5. /\ Rec(h) /\ h.clauses = s.clauses /\ h.solution = s.solution /\ h.unsat_appear = s.unsat_appear
      /\ h.score = s.score /\ h.cc_value = s.cc_value /\ h.ccd_vars = s.ccd_vars
      /\ h.in_ccd = s.in_ccd
  BY <1>2 DEF Same, Fields
<1>6. /\ s.unsat_appear \in [V -> Nat] /\ s.unsat_vars \in Lists(V)
      /\ Listed(s.unsat_vars, {v \in V : s.unsat_appear[v] > 0})
  BY <1>1 DEF CountsOk, Counted, Appearing
<1>7. vs \in Seq(V) /\ L = {v \in V : s.unsat_appear[v] > 0} /\ Distinct(vs)
  BY <1>6, ListedDistinct DEF Listed, Lists
<1>8. s.score \in [V -> Int] /\ \A v \in V : s.score[v] = Gain(s, v)
  BY <1>1 DEF Scored
<1>9. CcdOk(s, V) /\ s.cc_value \in [V -> BOOLEAN] /\ ToSet(s.ccd_vars) = Wanted(s)
  BY <1>1 DEF CcdRight
<1>10. RaisedBy(r, h, V, L)
  <2>1. CcdOk(h, V)
    BY <1>5, <1>9 DEF CcdOk
  <2>2. r = RaiseAll(h, vs)
    BY DEF Raised, h
  <2> HIDE DEF V, vs
  <2> QED
    BY <1>5, <1>6, <1>7, <1>8, <2>1, <2>2, AllRaised
<1> HIDE DEF L
<1>11. /\ Same(r, h, RaiseFields) /\ CcdOk(r, V) /\ r.score \in [V -> Int]
       /\ \A x \in V : r.score[x] = IF x \in L THEN s.score[x] + s.unsat_appear[x] ELSE s.score[x]
       /\ ToSet(r.ccd_vars) = ToSet(s.ccd_vars) \cup {x \in L : r.score[x] > 0 /\ s.cc_value[x]}
  BY <1>5, <1>10 DEF RaisedBy
<1>12. \A x \in V : r.score[x] = s.score[x] + s.unsat_appear[x]
  <2>1. ASSUME NEW x \in V, x \notin L PROVE s.unsat_appear[x] = 0
    BY <1>6, <1>7, <2>1
  <2> QED
    BY <1>8, <1>11, <2>1
<1>13. /\ r.clauses = s.clauses /\ r.solution = s.solution /\ r.cc_value = s.cc_value
       /\ r.weight = h.weight /\ Rec(r)
  BY <1>5, <1>11 DEF Same, Fields, RaiseFields
<1>14. VarsIn(r) = V /\ ClausesOf(r) = ClausesOf(s) /\ VarsIn(h) = V
  BY <1>5, <1>13 DEF VarsIn, ClausesOf
<1>15. CountsOk(r)
  <2>1. RaiseFields \cap CountsFields = {}
    BY DEF RaiseFields, CountsFields, UnsatFields
  <2> QED
    BY <1>2, <1>11, <2>1, CountsOkSame
<1>16. Scored(r)
  <2>1. \A v : Gain(r, v) = Gain(h, v)
    <3>1. RaiseFields \cap {"clauses", "solution", "sat_count", "weight"} = {}
      BY DEF RaiseFields
    <3>2. Problem(h.clauses, V)
      BY <1>2, <1>14 DEF CountsOk
    <3> HIDE DEF V
    <3> QED
      BY <1>11, <3>1, <3>2, GainAlike
  <2> QED
    BY <1>3, <1>8, <1>11, <1>12, <1>14, <2>1 DEF Scored
<1>17. CcdRight(r)
  <2>1. ASSUME NEW x \in V
        PROVE  x \in ToSet(r.ccd_vars) <=> (r.score[x] > 0 /\ r.cc_value[x])
    <3>1. x \in ToSet(s.ccd_vars) <=> (s.score[x] > 0 /\ s.cc_value[x])
      BY <1>9 DEF Wanted
    <3>2. x \in ToSet(r.ccd_vars) <=>
            x \in ToSet(s.ccd_vars) \/ (x \in L /\ r.score[x] > 0 /\ s.cc_value[x])
      BY <1>11
    <3>3. s.score[x] \in Int /\ s.unsat_appear[x] \in Nat /\ (x \notin L => s.unsat_appear[x] = 0)
      BY <1>6, <1>7, <1>8
    <3>4. r.score[x] = s.score[x] + s.unsat_appear[x]
      BY <1>12
    <3> QED
      BY <1>13, <3>1, <3>2, <3>3, <3>4
  <2>2. \A x \in ToSet(r.ccd_vars) : x \in V
    <3>1. r.ccd_vars \in Seq(V)
      BY <1>11 DEF CcdOk
    <3> QED
      BY <3>1 DEF ToSet
  <2>3. ToSet(r.ccd_vars) = Wanted(r)
    BY <1>14, <2>1, <2>2 DEF Wanted
  <2> QED
    BY <1>9, <1>11, <1>13, <1>14, <2>3 DEF CcdRight
<1>18. Stepped(r)
  <2>1. r.last_flip_step = s.last_flip_step
    BY <1>2, <1>11 DEF Same, Fields, RaiseFields
  <2> QED
    BY <1>1, <1>14, <2>1 DEF Stepped
<1>19. Same(r, s, RaiseFields \cup {"weight", "mems"})
  BY <1>2, <1>11 DEF Same
<1>20. SumOf(r.weight, ClausesOf(r)) = s.avg * Len(s.clauses) + s.delta + Len(s.unsat_clauses.items)
  <2>1. s.avg * Len(s.clauses) + s.delta = SumOf(s.weight, ClausesOf(s))
    BY <1>1 DEF Averaged
  <2> QED
    BY <1>4, <1>13, <1>14, <2>1
<1> QED
  BY <1>15, <1>16, <1>17, <1>18, <1>19, <1>20

-----------------------------------------------------------------------------
(* smooth_clause_weights. *)

(* The clauses that count one have one variable that makes them true. *)
Sole(s, c) ==
  /\ \A v : v \in TrueVars(s, c) <=> v = s.sat_var[c]
  /\ Mentions(s, c, s.sat_var[c]) /\ s.sat_var[c] \in VarsIn(s)

(* A clause with one true literal has one variable that makes it true, and
   it is the one noted. *)
LEMMA SoleFacts ==
  ASSUME NEW s, Problem(s.clauses, VarsIn(s)), NEW c \in ClausesOf(s),
         RightAt(s, s.solution, c), s.sat_count[c] = 1
  PROVE  Sole(s, c)
<1> DEFINE T == TrueIn(s, s.solution, c)
           x == s.sat_var[c]
<1>1. IsFiniteSet(T)
  BY TrueFinite
<1>2. Cardinality(T) = 1 /\ T = TrueAt(s, c)
  BY DEF RightAt, TrueAt, TrueIn
<1>3. PICK i \in T : x = Var(s.clauses[c][i])
  BY DEF RightAt
<1>4. \E j : T = {j}
  <2> HIDE DEF T
  <2> QED
    BY <1>1, <1>2, FS_Singleton
<1>5. T = {i}
  BY <1>3, <1>4
<1>6. i \in DOMAIN s.clauses[c]
  BY DEF TrueIn
<1> HIDE DEF T, x
<1>7. \A v : v \in TrueVars(s, c) <=> v = x
  BY <1>2, <1>3, <1>5 DEF TrueVars
<1>8. IsAt(s, c, x)
  BY <1>3, <1>6 DEF IsAt
<1>9. Mentions(s, c, x)
  BY <1>8, MentionedAt
<1>10. x \in VarsIn(s)
  BY <1>3, <1>6 DEF Problem, ClausesOf
<1> QED
  BY <1>7, <1>9, <1>10 DEF Sole, x

(* A weight is at least one. *)
LEMMA AtLeastOne ==
  ASSUME NEW x \in Int
  PROVE  Max({1, x}) \in Nat \ {0}
<1>1. Max({1, x}) = IF x > 1 THEN x ELSE 1
  BY DEF Max
<1> QED
  BY <1>1

SmoothStep(t, c, a) ==
  LET w == Max({1, (t.weight[c] * 3) \div 10 + a})
      u == Smoothed(t, c, w)
  IN  CASE u.sat_count[c] = 0 -> Rescored(u, ToSet(ClauseVars(u, c)), w)
        [] u.sat_count[c] = 1 -> Rescored(u, {u.sat_var[c]}, -w)
        [] OTHER -> u

SmoothFields == {"weight", "score", "avg", "delta"}

(* Of the clauses up to k the new weights count. *)
SmoothTo(t, s, k) ==
  /\ Same(t, s, SmoothFields) /\ t.weight \in [ClausesOf(s) -> Nat \ {0}]
  /\ t.avg \in Int /\ t.delta \in Int
  /\ t.avg * Len(s.clauses) + t.delta = SumOf(t.weight, 1 .. k)
  /\ t.score \in [VarsIn(s) -> Int]
  /\ \A v \in VarsIn(s) : t.score[v] = SumOf(Worth(t, v), About(s, v) \cap (1 .. k))

(* A product with one more. *)
LEMMA OneMoreTime ==
  ASSUME NEW p \in Int, NEW n \in Int
  PROVE  (p + 1) * n = p * n + n /\ p * n \in Int
OBVIOUS

(* What goes from the remainder to the average. *)
LEMMA Carry ==
  ASSUME NEW p \in Int, NEW d \in Int, NEW n \in Int, NEW q, q = p + n, NEW e, e = d - n
  PROVE  q + e = p + d
OBVIOUS

(* Smoothed notes a new weight, and carries the remainder into the average. *)
LEMMA SmoothedFacts ==
  ASSUME NEW t, Rec(t), NEW c, NEW w \in Int, NEW n \in Int, n = Len(t.clauses),
         t.avg \in Int, t.delta \in Int, NEW u, u = Smoothed(t, c, w)
  PROVE  /\ Same(u, t, {"weight", "avg", "delta"}) /\ u.weight = SetAt(t.weight, c, w)
         /\ u.avg \in Int /\ u.delta \in Int
         /\ u.avg * n + u.delta = (t.avg * n + t.delta) + w
<1> DEFINE d == t.delta + w
           a == IF d >= n THEN t.avg + 1 ELSE t.avg
           e == IF d >= n THEN d - n ELSE d
           x == SetAt(t.weight, c, w)
<1>1. u = [t EXCEPT !.weight = x, !.avg = a, !.delta = e]
  BY DEF Smoothed, SetAt
<1>2. a \in Int /\ e \in Int
  OBVIOUS
<1>3. a * n + e = (t.avg * n + t.delta) + w
  <2> DEFINE p == t.avg
             q == t.avg + 1
             pn == p * n
             qn == q * n
  <2>1. qn = pn + n /\ pn \in Int
    BY OneMoreTime
  <2>2. /\ a * n = IF d >= n THEN qn ELSE pn
        /\ e = IF d >= n THEN d - n ELSE d
        /\ d = t.delta + w
    OBVIOUS
  <2> DEFINE an == a * n
  <2>3. an = IF d >= n THEN qn ELSE pn
    BY <2>2
  <2> DEFINE D == t.delta
  <2>6. d = D + w /\ D \in Int /\ d \in Int
    OBVIOUS
  <2> HIDE DEF an, e, d, pn, qn, p, q, a, D
  <2>4. an + e = (pn + D) + w
    <3>1. CASE d >= n
      <4>1. an = pn + n /\ e = d - n
        BY <2>1, <2>2, <2>3, <3>1
      <4>5. pn \in Int
        BY <2>1
      <4>6. d \in Int
        BY <2>6
      <4>7. an = pn + n
        BY <4>1
      <4>8. e = d - n
        BY <4>1
      <4>3. an + e = pn + d
        BY ONLY <4>5, <4>6, <4>7, <4>8, n \in Int, Carry
      <4>4. pn + d = (pn + D) + w
        BY <2>1, <2>6
      <4> QED
        BY <4>3, <4>4
    <3>2. CASE ~(d >= n)
      <4>1. an = pn /\ e = d
        BY <2>2, <2>3, <3>2
      <4> QED
        BY <2>1, <2>6, <4>1
    <3> QED
      BY <3>1, <3>2
  <2> QED
    BY <2>4 DEF an, pn, p, D
<1> HIDE DEF a, e, x
<1>4. Same(u, t, {"weight", "avg", "delta"}) /\ u.weight = x /\ u.avg = a /\ u.delta = e
  BY <1>1 DEF Same, Rec, Fields
<1> QED
  BY <1>2, <1>3, <1>4 DEF x

(* smooth_clause_weights, one clause more: the scores count the clauses
   that were smoothed. *)
LEMMA SmoothStepFacts ==
  ASSUME NEW s, CountsOk(s), NEW k \in ClausesOf(s), NEW t, SmoothTo(t, s, k - 1),
         NEW a \in Int, NEW x, x = SmoothStep(t, k, a)
  PROVE  SmoothTo(x, s, k)
<1> DEFINE V == VarsIn(s)
           C == ClausesOf(s)
           n == Len(s.clauses)
           w == Max({1, (t.weight[k] * 3) \div 10 + a})
           u == Smoothed(t, k, w)
<1>1. Rec(s) /\ Problem(s.clauses, V) /\ Weighed(s) /\ s.sat_var \in [C -> Int]
      /\ RightAt(s, s.solution, k)
  BY DEF CountsOk
<1>2. C = 1 .. n /\ n \in Nat
  BY <1>1, ProblemFacts
<1>3. /\ Same(t, s, SmoothFields) /\ t.weight \in [C -> Nat \ {0}]
      /\ t.avg \in Int /\ t.delta \in Int
      /\ t.avg * n + t.delta = SumOf(t.weight, 1 .. k - 1)
      /\ t.score \in [V -> Int]
      /\ \A v \in V : t.score[v] = SumOf(Worth(t, v), About(s, v) \cap (1 .. k - 1))
  BY DEF SmoothTo
<1>4. /\ Rec(t) /\ t.clauses = s.clauses /\ t.solution = s.solution /\ t.sat_count = s.sat_count
      /\ t.sat_var = s.sat_var
  BY <1>3 DEF Same, Fields, SmoothFields
<1>5. w \in Nat \ {0}
  <2> DEFINE y == (t.weight[k] * 3) \div 10 + a
  <2>1. t.weight[k] \in Nat
    BY <1>3
  <2>2. y \in Int
    BY <2>1
  <2>3. w = Max({1, y})
    OBVIOUS
  <2> HIDE DEF y, w
  <2>4. Max({1, y}) \in Nat \ {0}
    BY <2>2, AtLeastOne
  <2> QED
    BY <2>3, <2>4
<1>6. x = CASE u.sat_count[k] = 0 -> Rescored(u, ToSet(ClauseVars(u, k)), w)
            [] u.sat_count[k] = 1 -> Rescored(u, {u.sat_var[k]}, -w)
            [] OTHER -> u
  BY DEF SmoothStep
<1> HIDE DEF w
<1>7. /\ Same(u, t, {"weight", "avg", "delta"}) /\ u.weight = SetAt(t.weight, k, w)
      /\ u.avg \in Int /\ u.delta \in Int
      /\ u.avg * n + u.delta = (t.avg * n + t.delta) + w
  <2>1. n = Len(t.clauses) /\ n \in Int /\ w \in Int
    BY <1>2, <1>4, <1>5
  <2> HIDE DEF u, n
  <2> QED
    BY <1>3, <1>4, <2>1, SmoothedFacts DEF u
<1> HIDE DEF u, n
<1>8. /\ Rec(u) /\ u.clauses = s.clauses /\ u.solution = s.solution /\ u.sat_count = s.sat_count
      /\ u.sat_var = s.sat_var /\ u.score = t.score
  BY <1>4, <1>7 DEF Same, Fields
<1>9. VarsIn(u) = V /\ ClausesOf(u) = C /\ ClauseVars(u, k) = ClauseVars(s, k)
  BY <1>8, SameMeaning
<1> DEFINE count == s.sat_count[k]
           cost(v) == IF count = 0 THEN w ELSE IF count = 1 /\ v \in TrueVars(s, k) THEN -w ELSE 0
<1>10. /\ Same(x, u, {"score"}) /\ x.score \in [V -> Int]
       /\ \A v \in V : x.score[v] = IF Mentions(s, k, v) THEN t.score[v] + cost(v) ELSE t.score[v]
  <2>1. \A v : Mentions(s, k, v) <=> v \in ToSet(ClauseVars(s, k))
    BY DEF Mentions
  <2>2. u.score \in [VarsIn(u) -> Int] /\ w \in Int /\ -w \in Int
    BY <1>3, <1>5, <1>8, <1>9
  <2>3. CASE count = 0
    <3> DEFINE S == ToSet(ClauseVars(s, k))
    <3>1. x = Rescored(u, S, w)
      BY <1>6, <1>8, <1>9, <2>3
    <3> HIDE DEF S
    <3>2. /\ Same(x, u, {"score"}) /\ x.score \in [VarsIn(u) -> Int]
          /\ \A v \in VarsIn(u) : x.score[v] = IF v \in S THEN u.score[v] + w ELSE u.score[v]
      BY <1>8, <2>2, <3>1, RescoredFacts
    <3> QED
      BY <1>8, <1>9, <2>1, <2>3, <3>2 DEF S
  <2>4. CASE count = 1
    <3> DEFINE S == {s.sat_var[k]}
    <3>1. x = Rescored(u, S, -w)
      BY <1>6, <1>8, <1>9, <2>4
    <3> HIDE DEF S
    <3>2. /\ Same(x, u, {"score"}) /\ x.score \in [VarsIn(u) -> Int]
          /\ \A v \in VarsIn(u) : x.score[v] = IF v \in S THEN u.score[v] + (-w) ELSE u.score[v]
      BY <1>8, <2>2, <3>1, RescoredFacts
    <3>3. Sole(s, k)
      BY <1>1, <2>4, SoleFacts
    <3>4. ASSUME NEW v \in V
          PROVE  x.score[v] = IF Mentions(s, k, v) THEN t.score[v] + cost(v) ELSE t.score[v]
      <4>1. x.score[v] = IF v = s.sat_var[k] THEN t.score[v] + (-w) ELSE t.score[v]
        BY <1>8, <1>9, <3>2 DEF S
      <4>2. v \in TrueVars(s, k) <=> v = s.sat_var[k]
        BY <3>3 DEF Sole
      <4>3. v = s.sat_var[k] => Mentions(s, k, v)
        BY <3>3 DEF Sole
      <4>4. t.score[v] \in Int
        BY <1>3
      <4> QED
        BY <2>4, <4>1, <4>2, <4>3, <4>4
    <3> QED
      BY <1>9, <3>2, <3>4
  <2>5. CASE count # 0 /\ count # 1
    <3>1. x = u
      BY <1>6, <1>8, <2>5
    <3>2. Same(x, u, {"score"})
      BY <1>8, <3>1 DEF Same
    <3>3. ASSUME NEW v \in V
          PROVE  x.score[v] = IF Mentions(s, k, v) THEN t.score[v] + cost(v) ELSE t.score[v]
      <4>1. cost(v) = 0 /\ t.score[v] \in Int /\ x.score[v] = t.score[v]
        BY <1>3, <1>8, <2>5, <3>1
      <4> QED
        BY <4>1
    <3> QED
      BY <1>3, <1>8, <3>1, <3>2, <3>3
  <2> QED
    BY <2>3, <2>4, <2>5
<1>11. /\ x.weight = u.weight /\ x.avg = u.avg /\ x.delta = u.delta /\ x.clauses = s.clauses
       /\ x.solution = s.solution /\ x.sat_count = s.sat_count
  BY <1>8, <1>10 DEF Same, Fields
<1>12. /\ x.weight \in [C -> Nat \ {0}] /\ x.weight[k] = w
       /\ \A d \in C : d # k => x.weight[d] = t.weight[d]
  BY <1>3, <1>5, <1>7, <1>11 DEF SetAt
<1>13. /\ ClausesOf(x) = C /\ ClausesOf(t) = C
       /\ \A d : TrueVars(x, d) = TrueVars(s, d) /\ TrueVars(t, d) = TrueVars(s, d)
  BY <1>4, <1>11, SameMeaning
<1> DEFINE P == 1 .. k - 1
<1>14. /\ k \in 1 .. n /\ P \in SUBSET (1 .. n) /\ k \notin P /\ 1 .. k = P \cup {k}
  BY <1>2
<1> HIDE DEF P
<1>15. x.avg * n + x.delta = SumOf(x.weight, 1 .. k)
  <2> DEFINE F == t.weight
             G == x.weight
  <2>1. \A d \in P : F[d] = G[d] /\ G[d] \in Int
    BY <1>2, <1>12, <1>14
  <2>2. Wholes(G, P) /\ G[k] = w /\ w \in Int
    BY <1>5, <1>12, <2>1 DEF Wholes
  <2>3. t.avg * n + t.delta = SumOf(F, P)
    BY <1>3 DEF P
  <2> HIDE DEF F, G
  <2>4. SumOf(F, P) = SumOf(G, P)
    BY <1>2, <1>14, <2>1, SumSame, ZenonT(60)
  <2>5. SumOf(G, P \cup {k}) = G[k] + SumOf(G, P)
    BY <1>2, <1>14, <2>2, SumAdd, SMTT(30)
  <2>6. SumOf(G, P) \in Int
    BY <1>2, <1>14, <2>2, SumInt
  <2>7. x.avg * n + x.delta = SumOf(G, P) + w
    BY <1>7, <1>11, <2>3, <2>4
  <2>8. SumOf(G, P \cup {k}) = SumOf(G, P) + w
    BY <2>2, <2>5, <2>6
  <2> QED
    BY <1>14, <2>7, <2>8 DEF G
<1>16. ASSUME NEW v \in V PROVE x.score[v] = SumOf(Worth(x, v), About(s, v) \cap (1 .. k))
  <2> DEFINE A == About(s, v)
             F == Worth(t, v)
             G == Worth(x, v)
             S == A \cap P
  <2>1. \A d \in S : F[d] = G[d]
    <3>1. \A d \in S : d \in C /\ d # k
      BY <1>2, <1>14
    <3>2. \A d \in C : F[d] = IF s.sat_count[d] = 0 THEN t.weight[d]
                              ELSE IF s.sat_count[d] = 1 /\ v \in TrueVars(s, d) THEN -t.weight[d] ELSE 0
      BY <1>4, <1>13, WorthAt
    <3>3. \A d \in C : G[d] = IF s.sat_count[d] = 0 THEN x.weight[d]
                              ELSE IF s.sat_count[d] = 1 /\ v \in TrueVars(s, d) THEN -x.weight[d] ELSE 0
      BY <1>11, <1>13, WorthAt
    <3> HIDE DEF F, G, S
    <3> QED
      BY <1>12, <3>1, <3>2, <3>3
  <2>2. G[k] = cost(v)
    BY <1>11, <1>12, <1>13, WorthAt
  <2>3. Weighed(x)
    BY <1>1, <1>11, <1>12, <1>13 DEF Weighed
  <2>4. Wholes(G, C)
    BY <1>13, <2>3, WorthWhole
  <2>5. S \in SUBSET (1 .. n) /\ k \notin S /\ Wholes(G, S) /\ G[k] \in Int
    BY <1>2, <1>14, <2>4 DEF Wholes
  <2>6. t.score[v] = SumOf(F, S)
    BY <1>3 DEF P
  <2>7. k \in A <=> Mentions(s, k, v)
    BY DEF About
  <2>8. A \cap (1 .. k) = IF k \in A THEN S \cup {k} ELSE S
    BY <1>14
  <2>13. x.score[v] = IF k \in A THEN t.score[v] + G[k] ELSE t.score[v]
    <3>1. x.score[v] = IF Mentions(s, k, v) THEN t.score[v] + cost(v) ELSE t.score[v]
      BY <1>10
    <3> HIDE DEF G, A, cost
    <3> QED
      BY <2>2, <2>7, <3>1
  <2> HIDE DEF F, G, S, A, cost
  <2>9. SumOf(F, S) = SumOf(G, S)
    BY <1>2, <2>1, <2>5, SumSame
  <2>10. SumOf(G, S \cup {k}) = G[k] + SumOf(G, S)
    BY <1>2, <1>14, <2>5, SumAdd
  <2>11. SumOf(G, S) \in Int
    BY <1>2, <2>5, SumInt
  <2>12. x.score[v] = SumOf(G, A \cap (1 .. k))
    <3>2. CASE k \in A
      <4>1. A \cap (1 .. k) = S \cup {k}
        BY <2>8, <3>2
      <4>2. x.score[v] = SumOf(G, S) + G[k]
        BY <2>6, <2>9, <2>13, <3>2
      <4>3. SumOf(G, S \cup {k}) = SumOf(G, S) + G[k]
        BY <2>5, <2>10, <2>11
      <4> QED
        BY <4>1, <4>2, <4>3
    <3>3. CASE k \notin A
      BY <2>6, <2>8, <2>9, <2>13, <3>3
    <3> QED
      BY <3>2, <3>3
  <2> QED
    BY <2>12 DEF A, G
<1>17. Same(x, s, SmoothFields)
  BY <1>3, <1>7, <1>10 DEF Same, SmoothFields
<1> QED
  BY <1>7, <1>10, <1>11, <1>12, <1>15, <1>16, <1>17 DEF SmoothTo, n

SmoothOp(arg, t, k) == SmoothStep(t, arg[1][k], arg[2])
Smooths == INSTANCE FoldTheorems WITH op <- SmoothOp, pick <- Top
SmoothAll(s, a, ps) ==
  LET smooth(t, c) == SmoothStep(t, c, a) IN FoldLeft(smooth, s, ps)

(* smooth_clause_weights, clause by clause. *)
LEMMA SmoothTrace ==
  ASSUME NEW n \in Nat, NEW ps, DOMAIN ps = 1 .. n, NEW s, NEW a
  PROVE  \E g : /\ g[0] = s
                /\ \A k \in 1 .. n : g[k] = SmoothStep(g[k - 1], ps[k], a)
                /\ SmoothAll(s, a, ps) = g[n]
<1> DEFINE arg == <<ps, a>>
           f == CHOOSE f : Smooths!Folds(arg, s, 1 .. n, f)
<1>1. \A S : Top(S) = Smooths!Largest(S)
  BY DEF Top, Smooths!Largest
<1>2. SmoothAll(s, a, ps) = f[1 .. n]
  BY DEF SmoothAll, SmoothOp, Top, Smooths!Folds, FoldLeft, MapThenFoldSet, Max
<1>3. \E h : Smooths!Folds(arg, s, 1 .. n, h)
  BY <1>1, Least, Smooths!SequenceFold
<1>4. Smooths!Folds(arg, s, 1 .. n, f)
  BY <1>3
<1> HIDE DEF f
<1>5. PICK g : Smooths!Trace(arg, s, n, g) /\ g[n] = f[1 .. n]
  BY <1>1, <1>4, Smooths!SequenceTrace
<1>6. \A t, k : SmoothOp(arg, t, k) = SmoothStep(t, ps[k], a)
  BY DEF SmoothOp
<1> QED
  BY <1>2, <1>5, <1>6 DEF Smooths!Trace

(* All clauses were smoothed. *)
LEMMA AllSmoothed ==
  ASSUME NEW s, CountsOk(s), NEW n, n = Len(s.clauses), NEW a \in Int, NEW b, SmoothTo(b, s, 0),
         NEW t, t = SmoothAll(b, a, Positions(s.clauses))
  PROVE  SmoothTo(t, s, n)
<1> DEFINE ps == Positions(s.clauses)
<1>1. n \in Nat /\ DOMAIN ps = 1 .. n /\ \A k \in 1 .. n : ps[k] = k
      /\ ClausesOf(s) = 1 .. n
  <2>1. Problem(s.clauses, VarsIn(s))
    BY DEF CountsOk
  <2>2. n \in Nat /\ DOMAIN s.clauses = 1 .. n
    BY <2>1 DEF Problem
  <2> QED
    BY <2>2 DEF Positions, ClausesOf
<1> HIDE DEF ps
<1>2. \E g : /\ g[0] = b
             /\ \A k \in 1 .. n : g[k] = SmoothStep(g[k - 1], ps[k], a)
             /\ SmoothAll(b, a, ps) = g[n]
  BY ONLY <1>1, SmoothTrace
<1>3. PICK g : /\ g[0] = b
               /\ \A k \in 1 .. n : g[k] = SmoothStep(g[k - 1], ps[k], a)
               /\ t = g[n]
  BY <1>2 DEF ps
<1> DEFINE G == {k \in 0 .. n : SmoothTo(g[k], s, k)}
<1>4. 0 \in G
  BY <1>1, <1>3
<1>5. ASSUME NEW k \in 1 .. n, k - 1 \in G PROVE k \in G
  <2> DEFINE u == g[k - 1]
             w == g[k]
  <2>1. k \in 0 .. n /\ SmoothTo(u, s, k - 1)
    BY <1>5
  <2>2. k \in ClausesOf(s) /\ w = SmoothStep(u, k, a)
    BY <1>1, <1>3
  <2> HIDE DEF u, w
  <2>3. SmoothTo(w, s, k)
    BY <2>1, <2>2, SmoothStepFacts
  <2> QED
    BY <2>1, <2>3 DEF w
<1> HIDE DEF G
<1>6. n \in G
  BY <1>1, <1>4, <1>5, Climb
<1> QED
  BY <1>3, <1>6 DEF G

Unscored(s) == [s EXCEPT !.score = [v \in VarsIn(s) |-> 0], !.avg = 0, !.delta = 0]

(* smooth_clause_weights begins with scores and average of zero. *)
LEMMA UnscoredFacts ==
  ASSUME NEW s, CountsOk(s), NEW b, b = Unscored(s)
  PROVE  SmoothTo(b, s, 0)
<1> DEFINE V == VarsIn(s)
           zero == [v \in V |-> 0]
<1>1. Rec(s) /\ Problem(s.clauses, V) /\ Weighed(s)
  BY DEF CountsOk
<1>2. b = [s EXCEPT !.score = zero, !.avg = 0, !.delta = 0]
  BY DEF Unscored
<1>3. zero \in [V -> Int] /\ \A v \in V : zero[v] = 0
  OBVIOUS
<1> HIDE DEF zero
<1>4. Same(b, s, SmoothFields) /\ b.score = zero /\ b.avg = 0 /\ b.delta = 0 /\ b.weight = s.weight
  BY <1>1, <1>2 DEF Same, Rec, Fields, SmoothFields
<1>5. 1 .. 0 = {} /\ \A S : S \cap (1 .. 0) = {}
  OBVIOUS
<1>6. 0 * Len(s.clauses) + 0 = 0
  <2> DEFINE n == Len(s.clauses)
  <2>1. n \in Nat
    BY <1>1 DEF Problem
  <2> HIDE DEF n
  <2>2. 0 * n + 0 = 0
    BY <2>1
  <2> QED
    BY <2>2 DEF n
<1>7. b.avg * Len(s.clauses) + b.delta = SumOf(b.weight, 1 .. 0)
  <2>1. SumOf(b.weight, {}) = 0
    BY SumEmpty
  <2> QED
    BY <1>4, <1>5, <1>6, <2>1
<1>8. ASSUME NEW v \in V PROVE b.score[v] = SumOf(Worth(b, v), About(s, v) \cap (1 .. 0))
  <2>1. SumOf(Worth(b, v), {}) = 0
    BY SumEmpty
  <2>2. About(s, v) \cap (1 .. 0) = {}
    BY <1>5
  <2> QED
    BY <1>3, <1>4, <2>1, <2>2
<1>9. b.weight \in [ClausesOf(s) -> Nat \ {0}]
  BY <1>1, <1>4 DEF Weighed
<1> QED
  BY <1>3, <1>4, <1>7, <1>8, <1>9 DEF SmoothTo

(* Smoothing computes every weight and every score again. *)
LEMMA SmoothGood ==
  ASSUME NEW s, CountsOk(s), s.avg \in Int, s.cc_value \in [VarsIn(s) -> BOOLEAN], Stepped(s),
         NEW t, t = smooth_clause_weights(s)
  PROVE  /\ Good(t) /\ t.clauses = s.clauses /\ t.solution = s.solution
         /\ t.unsat_clauses = s.unsat_clauses
<1> DEFINE V == VarsIn(s)
           a == (s.avg * 7) \div 10
           b == Unscored(s)
           u == SmoothAll(b, a, Positions(s.clauses))
           n == Len(s.clauses)
           M == {"ccd_vars", "in_ccd"}
<1>1. t = WithCcd(u)
  BY DEF smooth_clause_weights, SmoothAll, SmoothStep, Unscored
<1>2. a \in Int
  OBVIOUS
<1>3. SmoothTo(b, s, 0)
  BY UnscoredFacts
<1>4. SmoothTo(u, s, n)
  <2>1. u = SmoothAll(b, a, Positions(s.clauses))
    OBVIOUS
  <2> HIDE DEF a, b, u
  <2> QED
    BY <1>2, <1>3, <2>1, AllSmoothed
<1> HIDE DEF u
<1>5. /\ Same(u, s, SmoothFields) /\ u.weight \in [ClausesOf(s) -> Nat \ {0}]
      /\ u.avg \in Int /\ u.delta \in Int
      /\ u.avg * n + u.delta = SumOf(u.weight, 1 .. n)
      /\ u.score \in [V -> Int]
      /\ \A v \in V : u.score[v] = SumOf(Worth(u, v), About(s, v) \cap (1 .. n))
  BY <1>4 DEF SmoothTo
<1>6. /\ Rec(u) /\ u.clauses = s.clauses /\ u.solution = s.solution /\ u.cc_value = s.cc_value
      /\ u.last_flip_step = s.last_flip_step /\ u.unsat_clauses = s.unsat_clauses
  BY <1>5 DEF Same, Fields, SmoothFields
<1>7. VarsIn(u) = V /\ ClausesOf(u) = ClausesOf(s) /\ \A v : About(u, v) = About(s, v)
  <2>1. VarsIn(u) = V /\ ClausesOf(u) = ClausesOf(s) /\ \A v, c : Mentions(u, c, v) = Mentions(s, c, v)
    BY <1>6, SameMeaning
  <2> QED
    BY <2>1 DEF About
<1>8. CountsOk(u)
  <2>1. SmoothFields \cap (CountsFields \ {"weight"}) = {}
    BY DEF CountsFields, UnsatFields, SmoothFields
  <2> QED
    BY <1>5, <2>1, CountsOkWeighed
<1>9. Problem(u.clauses, V) /\ ClausesOf(s) = 1 .. n /\ V \subseteq Vars
  <2>1. Problem(s.clauses, V)
    BY DEF CountsOk
  <2> QED
    BY <1>6, <2>1, ProblemFacts DEF Problem
<1>10. Scored(u)
  <2>1. ASSUME NEW v \in V PROVE u.score[v] = Gain(u, v)
    <3>1. About(s, v) \subseteq 1 .. n
      BY <1>9 DEF About
    <3>2. About(s, v) \cap (1 .. n) = About(s, v)
      BY <3>1
    <3>3. Gain(u, v) = SumOf(Worth(u, v), About(u, v))
      BY <1>9, GainSum
    <3> QED
      BY <1>5, <1>7, <3>2, <3>3
  <2> QED
    BY <1>5, <1>7, <2>1 DEF Scored
<1>11. Averaged(u)
  BY <1>5, <1>6, <1>7, <1>9 DEF Averaged
<1>12. Stepped(u)
  BY <1>6, <1>7 DEF Stepped
<1>13. Same(t, u, M) /\ CcdRight(t)
  BY <1>1, <1>6, <1>7, <1>9, WithCcdFacts
<1>14. CountsOk(t)
  <2>1. M \cap CountsFields = {}
    BY DEF CountsFields, UnsatFields
  <2> HIDE DEF M
  <2> QED
    BY <1>8, <1>13, <2>1, CountsOkSame
<1>15. Scored(t)
  <2>1. M \cap {"clauses", "solution", "sat_count", "weight", "score"} = {}
    OBVIOUS
  <2> HIDE DEF M
  <2> QED
    BY <1>8, <1>10, <1>13, <2>1, ScoredSame
<1>16. Averaged(t)
  <2>1. M \cap {"clauses", "weight", "avg", "delta"} = {}
    OBVIOUS
  <2> HIDE DEF M
  <2> QED
    BY <1>11, <1>13, <2>1, AveragedSame
<1>17. /\ t.clauses = s.clauses /\ t.solution = s.solution /\ t.last_flip_step = u.last_flip_step
       /\ t.unsat_clauses = s.unsat_clauses
  BY <1>6, <1>13 DEF Same, Fields
<1>18. Stepped(t)
  BY <1>6, <1>12, <1>17 DEF Stepped, VarsIn
<1> QED
  BY <1>13, <1>14, <1>15, <1>16, <1>17, <1>18, SMTT(30) DEF Good

-----------------------------------------------------------------------------
(* The variable picked, and the average weight. *)

SetDelta(r, d) == [r EXCEPT !.delta = d]
FillUp(r, d) == [r EXCEPT !.avg = @ + 1, !.delta = d]

(* Which of the parts the average and what is left over take no part in. *)
LEMMA AverageFree ==
  ASSUME NEW r, CountsOk(r), Scored(r), CcdRight(r), Stepped(r), NEW t, Same(t, r, {"avg", "delta"})
  PROVE  /\ CountsOk(t) /\ Scored(t) /\ CcdRight(t) /\ Stepped(t) /\ t.clauses = r.clauses
         /\ t.solution = r.solution /\ t.unsat_clauses = r.unsat_clauses /\ t.weight = r.weight
         /\ VarsIn(t) = VarsIn(r) /\ ClausesOf(t) = ClausesOf(r)
<1> DEFINE N == {"avg", "delta"}
<1>1. CountsOk(t)
  <2>1. N \cap CountsFields = {}
    BY DEF CountsFields, UnsatFields
  <2> QED
    BY <2>1, CountsOkSame
<1>2. Scored(t)
  <2>1. N \cap {"clauses", "solution", "sat_count", "weight", "score"} = {}
    OBVIOUS
  <2> QED
    BY <2>1, ScoredSame
<1>3. CcdRight(t)
  <2>1. N \cap {"solution", "score", "cc_value", "in_ccd", "ccd_vars"} = {}
    OBVIOUS
  <2> QED
    BY <2>1, CcdRightSame
<1>4. /\ t.clauses = r.clauses /\ t.solution = r.solution /\ t.unsat_clauses = r.unsat_clauses
      /\ t.weight = r.weight /\ t.last_flip_step = r.last_flip_step
  BY DEF Same, Fields
<1>5. VarsIn(t) = VarsIn(r) /\ ClausesOf(t) = ClausesOf(r)
  BY <1>4, SameMeaning
<1>6. Stepped(t)
  BY <1>4, <1>5 DEF Stepped
<1> QED
  BY <1>1, <1>2, <1>3, <1>4, <1>5, <1>6

(* update_clause_weights, smoothing included, keeps all of it right. *)
LEMMA UpdateGood ==
  ASSUME NEW s, Good(s), NEW t, t = update_clause_weights(s)
  PROVE  /\ Good(t) /\ t.clauses = s.clauses /\ t.solution = s.solution
         /\ t.unsat_clauses = s.unsat_clauses /\ VarsIn(t) = VarsIn(s)
<1> DEFINE n == Len(s.clauses)
           r == Raised(s)
           k == Len(s.unsat_clauses.items)
           d == s.delta + k
           u == SetDelta(r, d)
           f == FillUp(r, d - n)
<1>1. t = IF d < n THEN u ELSE IF f.avg > Threshold THEN smooth_clause_weights(f) ELSE f
  BY DEF update_clause_weights, Raised, RaiseAll, RaiseStep, Heavier, SetDelta, FillUp
<1>2. /\ CountsOk(r) /\ Scored(r) /\ CcdRight(r) /\ Stepped(r)
      /\ Same(r, s, RaiseFields \cup {"weight", "mems"})
      /\ SumOf(r.weight, ClausesOf(r)) = s.avg * n + s.delta + k
  BY RaisedFacts
<1>3. /\ s.avg \in Int /\ s.delta \in Int /\ n \in Nat /\ k \in Nat
  <2>1. s.avg \in Int /\ s.delta \in Int /\ CountsOk(s)
    BY DEF Good, Averaged
  <2>2. Problem(s.clauses, VarsIn(s)) /\ s.unsat_clauses \in Lists(ClausesOf(s))
    BY <2>1 DEF CountsOk, Counted
  <2> QED
    BY <2>1, <2>2 DEF Problem, Lists
<1> HIDE DEF r
<1>4. /\ Rec(r) /\ r.clauses = s.clauses /\ r.solution = s.solution
      /\ r.unsat_clauses = s.unsat_clauses /\ r.avg = s.avg
  BY <1>2 DEF Same, Fields, RaiseFields
<1>5. Same(u, r, {"avg", "delta"}) /\ u.avg = s.avg /\ u.delta = d
  BY <1>4 DEF SetDelta, Same, Rec, Fields
<1>6. Same(f, r, {"avg", "delta"}) /\ f.avg = s.avg + 1 /\ f.delta = d - n
  BY <1>4 DEF FillUp, Same, Rec, Fields
<1> HIDE DEF u, f
<1>7. d \in Int /\ s.avg * n + d = s.avg * n + s.delta + k
  <2> DEFINE an == s.avg * n
  <2>1. an \in Int
    BY <1>3
  <2> HIDE DEF an, n, k
  <2>2. an + d = an + s.delta + k
    BY <1>3, <2>1
  <2> QED
    BY <1>3, <2>2 DEF an
<1>8. CASE d < n
  <2>1. t = u
    BY <1>1, <1>8
  <2>2. /\ CountsOk(u) /\ Scored(u) /\ CcdRight(u) /\ Stepped(u) /\ u.clauses = r.clauses
        /\ u.solution = r.solution /\ u.unsat_clauses = r.unsat_clauses /\ u.weight = r.weight
        /\ VarsIn(u) = VarsIn(r) /\ ClausesOf(u) = ClausesOf(r)
    BY <1>2, <1>5, AverageFree
  <2>3. Averaged(u)
    BY <1>2, <1>3, <1>4, <1>5, <1>7, <2>2 DEF Averaged
  <2> QED
    BY <1>4, <2>1, <2>2, <2>3, SameMeaning DEF Good
<1>9. CASE ~(d < n)
  <2>1. /\ CountsOk(f) /\ Scored(f) /\ CcdRight(f) /\ Stepped(f) /\ f.clauses = r.clauses
        /\ f.solution = r.solution /\ f.unsat_clauses = r.unsat_clauses /\ f.weight = r.weight
        /\ VarsIn(f) = VarsIn(r) /\ ClausesOf(f) = ClausesOf(r)
    BY <1>2, <1>6, AverageFree
  <2>2. f.avg * n + f.delta = s.avg * n + d
    <3> DEFINE p == s.avg
               pn == p * n
               qn == (p + 1) * n
    <3>1. qn = pn + n /\ pn \in Int
      BY <1>3, OneMoreTime
    <3>2. f.avg * n = qn /\ f.delta = d - n /\ n \in Int
      BY <1>3, <1>6
    <3> DEFINE e == f.delta
    <3> HIDE DEF pn, qn, d, e, n
    <3>3. qn + e = pn + d
      BY ONLY <3>1, <3>2, <1>7, Carry DEF e
    <3> QED
      BY <3>2, <3>3 DEF e, pn
  <2>3. Averaged(f)
    BY <1>2, <1>3, <1>4, <1>6, <1>7, <2>1, <2>2, SMTT(30) DEF Averaged
  <2>4. Good(f)
    BY <2>1, <2>3 DEF Good
  <2>5. CASE f.avg > Threshold
    <3>1. t = smooth_clause_weights(f)
      BY <1>1, <1>9, <2>5
    <3>2. f.avg \in Int /\ f.cc_value \in [VarsIn(f) -> BOOLEAN]
      BY <2>1, <2>3 DEF Averaged, CcdRight
    <3>3. /\ Good(t) /\ t.clauses = f.clauses /\ t.solution = f.solution
          /\ t.unsat_clauses = f.unsat_clauses
      BY <2>1, <3>1, <3>2, SmoothGood
    <3> QED
      BY <1>4, <2>1, <3>3, SameMeaning
  <2>6. CASE ~(f.avg > Threshold)
    <3>1. t = f
      BY <1>1, <1>9, <2>6
    <3> QED
      BY <1>4, <2>1, <2>4, <3>1, SameMeaning
  <2> QED
    BY <2>5, <2>6
<1> QED
  BY <1>8, <1>9, SMTT(30)

-----------------------------------------------------------------------------
(* The best of a list is in the list. *)
BestOp(arg, u, k) == IF Better(arg[1], arg[2][k], u) THEN arg[2][k] ELSE u
Bests == INSTANCE FoldTheorems WITH op <- BestOp, pick <- Top

Picked(s, v, u) == IF Better(s, v, u) THEN v ELSE u

(* The choice of the best variable, candidate by candidate. *)
LEMMA BestTrace ==
  ASSUME NEW n \in Nat, NEW seq, DOMAIN seq = 1 .. n, NEW s
  PROVE  \E g : /\ g[0] = Head(seq)
                /\ \A k \in 1 .. n : g[k] = Picked(s, seq[k], g[k - 1])
                /\ BestOf(s, seq) = g[n]
<1> DEFINE arg == <<s, seq>>
           f == CHOOSE f : Bests!Folds(arg, Head(seq), 1 .. n, f)
<1>1. \A S : Top(S) = Bests!Largest(S)
  BY DEF Top, Bests!Largest
<1>2. BestOf(s, seq) = f[1 .. n]
  BY DEF BestOf, BestOp, Top, Bests!Folds, FoldLeft, MapThenFoldSet, Max
<1>3. \E h : Bests!Folds(arg, Head(seq), 1 .. n, h)
  BY <1>1, Least, Bests!SequenceFold
<1>4. Bests!Folds(arg, Head(seq), 1 .. n, f)
  BY <1>3
<1> HIDE DEF f
<1>5. PICK g : Bests!Trace(arg, Head(seq), n, g) /\ g[n] = f[1 .. n]
  BY <1>1, <1>4, Bests!SequenceTrace
<1>6. \A u, k : BestOp(arg, u, k) = Picked(s, seq[k], u)
  BY DEF BestOp, Picked
<1> QED
  BY <1>2, <1>5, <1>6 DEF Bests!Trace

(* It is one of the candidates. *)
LEMMA BestFacts ==
  ASSUME NEW X, NEW seq \in Seq(X), seq # <<>>, NEW s
  PROVE  BestOf(s, seq) \in ToSet(seq) /\ BestOf(s, seq) \in X
<1> DEFINE n == Len(seq)
           S == ToSet(seq)
<1>1. n \in Nat \ {0} /\ DOMAIN seq = 1 .. n /\ Head(seq) = seq[1] /\ S \subseteq X
  BY DEF ToSet
<1>2. \A k \in 1 .. n : seq[k] \in S
  BY <1>1 DEF ToSet
<1> HIDE DEF n, S
<1>3. \E g : /\ g[0] = Head(seq)
             /\ \A k \in 1 .. n : g[k] = Picked(s, seq[k], g[k - 1])
             /\ BestOf(s, seq) = g[n]
  <2>1. n \in Nat /\ DOMAIN seq = 1 .. n
    BY <1>1
  <2> QED
    BY ONLY <2>1, BestTrace
<1>4. PICK g : /\ g[0] = Head(seq)
               /\ \A k \in 1 .. n : g[k] = Picked(s, seq[k], g[k - 1])
               /\ BestOf(s, seq) = g[n]
  BY <1>3
<1> DEFINE G == {k \in 0 .. n : g[k] \in S}
<1>5. 0 \in G
  <2>1. 1 \in 1 .. n /\ 0 \in 0 .. n
    BY <1>1
  <2> QED
    BY <1>1, <1>2, <1>4, <2>1
<1>6. ASSUME NEW k \in 1 .. n, k - 1 \in G PROVE k \in G
  <2>1. k \in 0 .. n /\ g[k - 1] \in S /\ seq[k] \in S
    BY <1>2, <1>6
  <2> DEFINE u == g[k - 1]
  <2>2. g[k] = IF Better(s, seq[k], u) THEN seq[k] ELSE u
    BY <1>4 DEF Picked
  <2> HIDE DEF u
  <2> QED
    BY <2>1, <2>2 DEF u
<1> HIDE DEF G
<1>7. n \in G /\ n \in Nat
  BY <1>1, <1>5, <1>6, Climb
<1>8. BestOf(s, seq) \in S
  BY <1>4, <1>7 DEF G
<1> QED
  BY <1>1, <1>8 DEF S

-----------------------------------------------------------------------------
(* The best solution, the invariant and its steps. *)

(* The clauses that the solution m leaves without a true literal. *)
FalseIn(s, m) == {c \in ClausesOf(s) : TrueIn(s, m, c) = {}}

(* There are at most as many false clauses as clauses. *)
LEMMA FalseFacts ==
  ASSUME NEW s, NEW V, Problem(s.clauses, V), NEW m
  PROVE  Cardinality(FalseIn(s, m)) \in 0 .. Len(s.clauses) /\ IsFiniteSet(FalseIn(s, m))
<1> DEFINE C == ClausesOf(s)
           n == Len(s.clauses)
           F == FalseIn(s, m)
<1>1. C = 1 .. n /\ n \in Nat /\ IsFiniteSet(C) /\ F \subseteq C
  BY ProblemFacts DEF FalseIn
<1> HIDE DEF C, n, F
<1>2. IsFiniteSet(F) /\ Cardinality(F) <= Cardinality(C)
  BY <1>1, FS_Subset
<1>3. Cardinality(C) = n
  BY <1>1, FS_Interval
<1>4. Cardinality(F) \in Nat
  BY <1>2, FS_CardinalityType
<1> QED
  BY <1>1, <1>2, <1>3, <1>4 DEF F, n

(* The cost is the number of clauses that the solution leaves false. *)
LEMMA CostFacts ==
  ASSUME NEW s, CountsOk(s)
  PROVE  /\ Cost(s) = Cardinality(FalseIn(s, s.solution)) /\ Cost(s) \in 0 .. Len(s.clauses)
         /\ FalseIn(s, s.solution) = Zeros(s)
<1>1. Problem(s.clauses, VarsIn(s)) /\ Counted(s, Zeros(s))
      /\ \A d \in ClausesOf(s) : RightAt(s, s.solution, d)
  BY DEF CountsOk
<1>2. ASSUME NEW d \in ClausesOf(s) PROVE s.sat_count[d] = 0 <=> TrueIn(s, s.solution, d) = {}
  <2> DEFINE T == TrueIn(s, s.solution, d)
  <2>1. s.sat_count[d] = Cardinality(T) /\ IsFiniteSet(T)
    BY <1>1, TrueFinite DEF RightAt
  <2> HIDE DEF T
  <2>2. Cardinality(T) = 0 <=> T = {}
    BY <2>1, FS_EmptySet
  <2> QED
    BY <2>1, <2>2 DEF T
<1>3. FalseIn(s, s.solution) = Zeros(s)
  BY <1>2 DEF FalseIn, Zeros
<1>4. Cost(s) = Cardinality(Zeros(s))
  BY <1>1 DEF Cost, Counted, Listed
<1>5. Cardinality(FalseIn(s, s.solution)) \in 0 .. Len(s.clauses)
  BY <1>1, FalseFacts
<1> QED
  BY <1>3, <1>4, <1>5

-----------------------------------------------------------------------------
(* What the best solution so far is said to cost. *)
BestRight(s, best) ==
  /\ best.solution \in [VarsIn(s) -> BOOLEAN]
  /\ best.cost \in 0 .. Len(s.clauses)
  /\ best.cost \in {Cardinality(FalseIn(s, best.solution)), Len(s.clauses)}
  /\ best.cost <= Cost(s) \/ best.solution = s.solution

(* Before any step the best solution is the first, and has the cost of
   failing every clause. *)
LEMMA FirstBest ==
  ASSUME NEW s, Good(s), NEW best, best.solution = s.solution, best.cost = Len(s.clauses)
  PROVE  BestRight(s, best)
<1>1. s.solution \in [VarsIn(s) -> BOOLEAN] /\ Problem(s.clauses, VarsIn(s))
  BY DEF Good, CountsOk
<1>2. Len(s.clauses) \in 0 .. Len(s.clauses)
  BY <1>1, ProblemFacts
<1> QED
  BY <1>1, <1>2 DEF BestRight

(* A cheaper solution takes its place (the comparison at the end of each
   step of local_search). *)
LEMMA NextBest ==
  ASSUME NEW s, NEW t, Good(t), t.clauses = s.clauses, VarsIn(t) = VarsIn(s),
         NEW best, BestRight(s, best), NEW next,
         next = IF Cost(t) < best.cost THEN [solution |-> t.solution, cost |-> Cost(t)] ELSE best
  PROVE  BestRight(t, next)
<1>1. CountsOk(t) /\ t.solution \in [VarsIn(t) -> BOOLEAN]
  BY DEF Good, CountsOk
<1>2. Cost(t) = Cardinality(FalseIn(t, t.solution)) /\ Cost(t) \in 0 .. Len(t.clauses)
  BY <1>1, CostFacts
<1>3. \A m : FalseIn(t, m) = FalseIn(s, m)
  BY DEF FalseIn, TrueIn, ClausesOf
<1>4. /\ best.solution \in [VarsIn(s) -> BOOLEAN] /\ best.cost \in 0 .. Len(s.clauses)
      /\ best.cost \in {Cardinality(FalseIn(s, best.solution)), Len(s.clauses)}
  BY DEF BestRight
<1>5. CASE Cost(t) < best.cost
  <2>1. next.solution = t.solution /\ next.cost = Cost(t)
    BY <1>5
  <2> QED
    BY <1>1, <1>2, <2>1 DEF BestRight
<1>6. CASE ~(Cost(t) < best.cost)
  <2>1. next = best
    BY <1>6
  <2>2. Cost(t) \in Int /\ best.cost \in Int
    BY <1>2, <1>4
  <2>3. best.cost <= Cost(t)
    BY <1>6, <2>2
  <2> QED
    BY <1>3, <1>4, <2>1, <2>3 DEF BestRight
<1> QED
  BY <1>5, <1>6

-----------------------------------------------------------------------------
(* The inductive invariant of the search. *)
LocalInv ==
  /\ ls_mode \in {"idle", "flip", "true", "false"}
  /\ ls_step \in 0 .. MaxSteps
  /\ Searching => Good(ls) /\ BestRight(ls, ls_best)
  /\ ls_mode = "true" => Cost(ls) = 0

(* initialize establishes the invariant. *)
LEMMA StartInv ==
  ASSUME NEW cs, NEW soln, NEW V, Problem(cs, V), soln \in [V -> BOOLEAN], Start(cs, soln)
  PROVE  LocalInv' /\ VarsIn(ls') = V /\ ls'.clauses = cs
<1>1. ls' = initialize(cs, soln) /\ ls_step' = 0 /\ ls_mode' = "flip"
      /\ ls_best' = [solution |-> soln, cost |-> Len(cs)]
  BY DEF Start
<1>2. PICK t : t = ls'
  OBVIOUS
<1>3. PICK b : b = ls_best'
  OBVIOUS
<1>4. Good(t) /\ t.clauses = cs /\ t.solution = soln
  BY <1>1, <1>2, InitializeGood
<1>5. BestRight(t, b)
  BY <1>1, <1>3, <1>4, FirstBest
<1>6. Good(ls') /\ BestRight(ls', ls_best')
  BY <1>2, <1>3, <1>4, <1>5
<1>7. (Good(ls) /\ BestRight(ls, ls_best))'
  BY <1>6 DEF Good
<1>8. ls_step' \in 0 .. MaxSteps
  BY <1>1, BudgetAssumption
<1> QED
  BY <1>1, <1>2, <1>4, <1>7, <1>8 DEF LocalInv, Searching, VarsIn

SameProblem == VarsIn(ls') = VarsIn(ls) /\ ls'.clauses = ls.clauses

(* A flip keeps it. *)
LEMMA FlipInv ==
  ASSUME LocalInv, ls_mode = "flip", ls_step < MaxSteps, NEW s, Good(s), s.clauses = ls.clauses,
         VarsIn(s) = VarsIn(ls), NEW v \in VarsIn(s), Flip(s, v)
  PROVE  LocalInv' /\ SameProblem
<1>1. /\ ls' = flip(s, v) /\ ls_step' = ls_step + 1 /\ ls_mode' = ls_mode
      /\ ls_best' = IF Cost(ls') < ls_best.cost
                    THEN [solution |-> ls'.solution, cost |-> Cost(ls')] ELSE ls_best
  BY DEF Flip
<1>2. Good(ls) /\ BestRight(ls, ls_best) /\ ls_step \in 0 .. MaxSteps
  BY DEF LocalInv, Searching
<1>3. PICK t : t = ls'
  OBVIOUS
<1>4. PICK b : b = ls_best'
  OBVIOUS
<1>5. t = flip(s, v)
  BY <1>1, <1>3
<1>6. Good(t) /\ t.clauses = s.clauses /\ VarsIn(t) = VarsIn(s)
  BY <1>2, <1>5, FlipGood
<1>7. b = IF Cost(t) < ls_best.cost THEN [solution |-> t.solution, cost |-> Cost(t)] ELSE ls_best
  BY <1>1, <1>3, <1>4
<1>8. BestRight(t, b)
  BY <1>2, <1>6, <1>7, NextBest
<1>9. (Good(ls) /\ BestRight(ls, ls_best))'
  BY <1>3, <1>4, <1>6, <1>8
<1>10. ls_step' \in 0 .. MaxSteps
  BY <1>1, <1>2, BudgetAssumption
<1>11. VarsIn(ls') = VarsIn(ls) /\ ls'.clauses = ls.clauses
  BY <1>3, <1>6
<1> QED
  BY <1>1, <1>9, <1>10, <1>11 DEF LocalInv, SameProblem

(* What the lists hold are variables and clauses. *)
LEMMA ListFacts ==
  ASSUME NEW s, Good(s)
  PROVE  /\ s.ccd_vars \in Seq(VarsIn(s)) /\ s.unsat_vars.items \in Seq(VarsIn(s))
         /\ \A c \in ToSet(s.unsat_clauses.items) :
              ClauseVars(s, c) \in Seq(VarsIn(s)) /\ ClauseVars(s, c) # <<>>
<1>1. CcdOk(s, VarsIn(s)) /\ Problem(s.clauses, VarsIn(s)) /\ Counted(s, Zeros(s))
  BY DEF Good, CcdRight, CountsOk
<1>2. s.ccd_vars \in Seq(VarsIn(s))
  BY <1>1 DEF CcdOk
<1>3. s.unsat_vars.items \in Seq(VarsIn(s))
  BY <1>1 DEF Counted, Appearing, Lists
<1>4. ASSUME NEW c \in ToSet(s.unsat_clauses.items)
      PROVE  ClauseVars(s, c) \in Seq(VarsIn(s)) /\ ClauseVars(s, c) # <<>>
  <2>1. c \in ClausesOf(s)
    BY <1>1, <1>4 DEF Counted, Listed
  <2>2. ClauseVars(s, c) \in Seq(VarsIn(s)) /\ Len(ClauseVars(s, c)) \in Nat \ {0}
    BY <1>1, <2>1, ProblemFacts
  <2> QED
    BY <2>2
<1> QED
  BY <1>2, <1>3, <1>4

MoreMems(s, n) == [s EXCEPT !.mems = @ + n]

(* A step that flips the best candidate keeps it. *)
LEMMA GreedyInv ==
  ASSUME LocalInv, Greedy
  PROVE  LocalInv' /\ SameProblem
<1> DEFINE s == MoreMems(ls, Len(ls.ccd_vars))
           v == BestOf(ls, ls.ccd_vars)
<1>1. ls_mode = "flip" /\ ls_step < MaxSteps /\ ls.ccd_vars # <<>> /\ Flip(s, v)
  BY DEF Greedy, Going, MoreMems
<1>2. Good(ls)
  BY <1>1 DEF LocalInv, Searching
<1>3. Same(s, ls, {"mems"}) /\ s.clauses = ls.clauses /\ s.solution = ls.solution
  BY <1>2 DEF Good, CountsOk, Same, Rec, Fields, MoreMems
<1> HIDE DEF s
<1>4. Good(s) /\ VarsIn(s) = VarsIn(ls)
  BY <1>2, <1>3, GoodSame DEF VarsIn
<1>5. v \in VarsIn(ls)
  BY <1>1, <1>2, ListFacts, BestFacts
<1> HIDE DEF v
<1> QED
  BY <1>1, <1>3, <1>4, <1>5, FlipInv

(* A step that flips the variable of highest score keeps it. *)
LEMMA AspireInv ==
  ASSUME LocalInv, Aspire
  PROVE  LocalInv' /\ SameProblem
<1> DEFINE v == BestOf(ls, ls.unsat_vars.items)
<1>1. ls_mode = "flip" /\ ls_step < MaxSteps /\ HighScore /\ Flip(ls, v)
  BY DEF Aspire, Going
<1>2. Good(ls)
  BY <1>1 DEF LocalInv, Searching
<1>3. ls.unsat_vars.items # <<>>
  BY <1>1 DEF HighScore, ToSet
<1>4. v \in VarsIn(ls)
  BY <1>2, <1>3, ListFacts, BestFacts
<1> HIDE DEF v
<1> QED
  BY <1>1, <1>2, <1>4, FlipInv

(* A step that updates the weights and flips the oldest variable of an
   unsatisfied clause keeps it. *)
LEMMA DiversifyInv ==
  ASSUME LocalInv, Diversify
  PROVE  LocalInv' /\ SameProblem
<1> DEFINE s == update_clause_weights(ls)
<1>1. ls_mode = "flip" /\ ls_step < MaxSteps
  BY DEF Diversify, Going
<1>2. PICK c \in ToSet(s.unsat_clauses.items) : Flip(s, BestOf(s, ClauseVars(s, c)))
  BY DEF Diversify
<1>3. Good(ls)
  BY <1>1 DEF LocalInv, Searching
<1>4. Good(s) /\ s.clauses = ls.clauses /\ VarsIn(s) = VarsIn(ls)
  BY <1>3, UpdateGood
<1> HIDE DEF s
<1> DEFINE v == BestOf(s, ClauseVars(s, c))
<1>5. v \in VarsIn(s)
  BY <1>2, <1>4, ListFacts, BestFacts
<1>6. Flip(s, v)
  BY <1>2
<1> HIDE DEF v
<1> QED
  BY <1>1, <1>4, <1>5, <1>6, FlipInv

(* The end of local_search keeps it. *)
LEMMA ConcludeInv ==
  ASSUME LocalInv, Conclude
  PROVE  LocalInv' /\ SameProblem
<1>1. /\ ls_mode = "flip" /\ UNCHANGED <<ls, ls_best, ls_step>>
      /\ ls_mode' = IF Cost(ls) = 0 THEN "true" ELSE "false"
  BY DEF Conclude
<1>2. Good(ls) /\ BestRight(ls, ls_best) /\ ls_step \in 0 .. MaxSteps
  BY <1>1 DEF LocalInv, Searching
<1>3. (Good(ls) /\ BestRight(ls, ls_best) /\ ls_step \in 0 .. MaxSteps)'
  BY <1>1, <1>2
<1>4. ls_mode' = "true" => Cost(ls') = 0
  BY <1>1
<1>5. ls_mode' \in {"idle", "flip", "true", "false"}
  BY <1>1
<1> QED
  BY <1>1, <1>3, <1>4, <1>5 DEF LocalInv, SameProblem

(* A step of the other search keeps it. *)
LEMMA SameLocal ==
  ASSUME LocalInv, UNCHANGED lsVars
  PROVE  LocalInv' /\ SameProblem
<1>1. UNCHANGED <<ls, ls_best, ls_step, ls_mode>>
  BY DEF lsVars
<1> QED
  BY <1>1 DEF LocalInv, SameProblem, Searching

(* It says nothing while the search is idle. *)
LEMMA IdleInv ==
  ASSUME ls_mode = "idle", ls_step = 0
  PROVE  LocalInv
BY BudgetAssumption DEF LocalInv, Searching

-----------------------------------------------------------------------------
(* What the invariant says in the words of LocalSearch. *)

(* The invariant implies the first property of LocalSearch, *)
LEMMA CountsFollow ==
  ASSUME LocalInv
  PROVE  CountsRight
<1> SUFFICES ASSUME Searching PROVE CountsRight
  BY DEF CountsRight
<1>1. CountsOk(ls)
  BY DEF LocalInv, Good
<1>2. Problem(ls.clauses, VarsIn(ls)) /\ Counted(ls, Zeros(ls))
      /\ \A d \in ClausesOf(ls) : RightAt(ls, ls.solution, d)
  BY <1>1 DEF CountsOk
<1>3. \A c : TrueAt(ls, c) = TrueIn(ls, ls.solution, c)
  BY DEF TrueAt, TrueIn
<1>4. ASSUME NEW c \in ClausesOf(ls)
      PROVE  /\ ls.sat_count[c] = Cardinality(TrueAt(ls, c))
             /\ ls.sat_count[c] = 1 => ls.sat_var[c] = SoleVar(ls, c)
  <2> DEFINE T == TrueAt(ls, c)
  <2>1. /\ ls.sat_count[c] = Cardinality(T)
        /\ ls.sat_count[c] = 1 => \E i \in T : ls.sat_var[c] = Var(ls.clauses[c][i])
    BY <1>2, <1>3 DEF RightAt
  <2>2. ASSUME ls.sat_count[c] = 1 PROVE ls.sat_var[c] = SoleVar(ls, c)
    <3>1. PICK i \in T : ls.sat_var[c] = Var(ls.clauses[c][i])
      BY <2>1, <2>2
    <3>2. IsFiniteSet(T) /\ Cardinality(T) = 1
      BY <1>2, <1>3, <2>1, <2>2, TrueFinite
    <3>3. i \in Int
      <4>1. i \in DOMAIN ls.clauses[c]
        BY <3>1 DEF TrueAt
      <4>2. DOMAIN ls.clauses[c] = 1 .. Len(ClauseVars(ls, c))
        BY <1>2, ProblemFacts
      <4> QED
        BY <4>1, <4>2
    <3> HIDE DEF T
    <3>4. \E j : T = {j}
      BY <3>2, FS_Singleton
    <3>5. T = {i}
      BY <3>1, <3>4
    <3>6. Min(T) = i
      BY <3>3, <3>5 DEF Min
    <3> QED
      BY <3>1, <3>6 DEF SoleVar, T
  <2> QED
    BY <2>1, <2>2
<1>5. FalseIn(ls, ls.solution) = Zeros(ls)
  BY <1>1, CostFacts
<1>6. {c \in ClausesOf(ls) : TrueAt(ls, c) = {}} = Zeros(ls)
  BY <1>3, <1>5 DEF FalseIn
<1>7. /\ Listed(ls.unsat_clauses, Zeros(ls)) /\ ToSet(ls.unsat_clauses.items) = Zeros(ls)
      /\ Listed(ls.unsat_vars, {v \in VarsIn(ls) : ls.unsat_appear[v] > 0})
      /\ \A v \in VarsIn(ls) : ls.unsat_appear[v] = Cardinality(AboutIn(ls, Zeros(ls), v))
  BY <1>2 DEF Counted, Appearing, Listed
<1>8. \A v : AboutIn(ls, Zeros(ls), v) = {c \in ToSet(ls.unsat_clauses.items) : Mentions(ls, c, v)}
  BY <1>7 DEF AboutIn
<1> QED
  BY <1>4, <1>6, <1>7, <1>8 DEF CountsRight

(* the second, *)
LEMMA ScoresFollow ==
  ASSUME LocalInv
  PROVE  ScoresRight
<1> SUFFICES ASSUME Searching PROVE ScoresRight
  BY DEF ScoresRight
<1>1. Scored(ls) /\ CcdRight(ls)
  BY DEF LocalInv, Good
<1>2. CcdOk(ls, VarsIn(ls)) /\ ToSet(ls.ccd_vars) = Wanted(ls)
  BY <1>1 DEF CcdRight
<1>3. /\ ls.ccd_vars \in Seq(VarsIn(ls)) /\ Distinct(ls.ccd_vars)
      /\ \A v \in VarsIn(ls) : ls.in_ccd[v] <=> v \in ToSet(ls.ccd_vars)
  BY <1>2 DEF CcdOk
<1>4. Len(ls.ccd_vars) = Cardinality(ToSet(ls.ccd_vars))
  BY <1>3, DistinctLength
<1> QED
  BY <1>1, <1>2, <1>3, <1>4 DEF ScoresRight, Scored

(* and the third. *)
LEMMA AverageFollows ==
  ASSUME LocalInv
  PROVE  AverageExact
BY DEF LocalInv, Good, Averaged, AverageExact, SumOf
=============================================================================
